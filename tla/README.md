# Specifications of Agent Factory

Agent Factory (`src/src/agent_factory`) plans missions, hands their work items to
agents, runs delivery workflows with approval gates, performs external effects
(Git, files, services, providers) at most once, and supervises game projects that
advance by themselves under a person's mandate. All of it shares one SQLite file: a
web server, command-line calls, worker processes and Temporal activities open it at
the same time, and any of them may be killed.

This directory holds TLA+ models of the parts where that sharing is hard to get
right, the configurations under which TLC checks them, and theorems about them that
TLAPS proves for every value of the constants. Paths below are relative to
`src/src/agent_factory` unless they start with `docs/` or `tests/`.

## 1. How transactions are read

The whole project rests on one reading of the storage code, so it comes first.

* `with self.db:` commits or rolls back, but it does not begin a transaction. The
  Python driver begins one at the first INSERT, UPDATE or DELETE. What a method
  reads before that statement may be stale when it writes.
* `BEGIN IMMEDIATE` (`_begin_immediate`) takes SQLite's only write lock at once.
  What is read after it cannot change before the commit.

A method of the second kind is one action. A method of the first kind is one action
only if its first write repeats, in its WHERE clause or through a trigger or a
unique index, what the reads before it established; otherwise its reads are an
action and its writes another. Where reads and writes are in separate actions, the
header of the module or the comment on the action says so.

A process that is killed loses its uncommitted transaction and its local variables,
never a row. A Temporal activity runs at least once, perhaps twice at a time.

## 2. Components

| Component | State | Hard behaviour | Model |
|---|---|---|---|
| Task scheduler and fenced leases (`storage.py`) | work items, leases, conflict domains, fencing tokens, the stop | claims racing on nested domains, a late worker, clocks that disagree | `TaskScheduler` |
| Workflow runs, stages, gates (`storage.py`) | runs, stages, checkpoints, claims, gates | reads before the lock, legacy runs that share a claim | `WorkflowRun` |
| Stages of one run, artifacts, reviews, evidence (`orchestration/temporal/activities.py`, `workflow.py`, `reviewers.py`, `storage.py`) | mutations, artifacts, reviewer assignments, evidence | two executions of one stage, a kill between artifact and answer | `StageExecution` |
| Mission operation journal and recovery (`durable_workflow.py`, `local_recovery.py`, `worktrees.py`) | events per operation, recovery records | death between an effect and its record, a pass over a mission that moves | `OperationJournal`, `MissionRecovery` |
| Mission control fence (`control_plane.py`, `autonomous_mission.py`) | version, disposition, epoch, token, leases, commands | commands with stale claims, kill and re-execution | `MissionControl`, `ControlSchema` |
| Epoch handoff (`mission_checkpoints.py`) | request, stop, replacement epoch, result | killed or doubled activities between five transactions | `EpochHandoff` |
| Mission phases, Temporal orchestration (`orchestration/temporal`) | parent, child, queues, registered runs | signals between two awaits, continue-as-new, non-retryable fences | `MissionRuns`, `MissionDelivery` |
| Intake, blueprint, bootstrap (`mission_intake.py`, `blueprint.py`, `adr.py`, `mission_bootstrap.py`) | assessments, versions, decisions, missions | reads before the lock of the next version | `BlueprintLifecycle` |
| Planning and approval (`autonomous_planning_pipeline.py`, `autonomous_proposal_verifier.py`, `autonomous_backlog_approval.py`) | runs, attempts, artifacts, proposals, verification | the source changes under a pipeline, two executions of it | `MissionPlanning`, `ProposalVerifier`, `AuthoritySchema` |
| Backlog revisions and checkpoints (`backlog_revisions.py`, `mission_checkpoints.py`) | revisions, item states, epochs, checkpoints | two calls that read one parent | `MissionLedger` |
| Execution authority (`autonomous_authorization.py`, `coding_delivery.py`) | grants, revocations, decisions, assignments | a grant racing a stop, a revision or another handoff | `AutonomousAuthority` |
| Candidate delivery and engineering loop (`coding_delivery.py`, `engineering_loop.py`, `candidate_changes.py`) | candidates, reviews, loop, founder gate | five services commit one by one | `CandidateDelivery` |
| Worker admission, runtime sessions (`worker_admission.py`, `worker_runtime.py`) | pool, admissions, sessions, processes | a start repeated after its driver raised | `WorkerRuntime` |
| Provider gates, scoped approvals, the stop (`storage.py`, `policy.py`) | gates, attempts, mirrors, approvals | a late result after reconcile or a stop | `ExecutionGates` |
| Worktrees (`worktrees.py`) | rows, branches, directories | Git belongs to everybody | `EpochWorktree`, `TaskWorktree` |
| Event log and outbox (`storage.py`) | hash chain, messages, claims | rollback, rows of an older version | `EventOutbox` |
| GitHub mutations (`github.py`) | plans, gates, completed keys | partial failure | `GithubMutations` |
| Studio supervisor (`studio_*.py`) | mandates, ledger, cycles, spending, a file lock | checks long before the step, kills | `StudioSupervisor` |
| Playable versions (`playable_versions.py`, `game_feedback.py`) | versions, promotions, pointer | concurrent offers and restores | `PlayableVersions` |

`PROJECT.json` lists all 39 components with what of each is modelled, or why none of
it is.

How the modelled parts meet:

```
 intake ─▶ BlueprintLifecycle ─▶ MissionPlanning ─▶ AuthoritySchema (approval, revision, epoch)
                                  │ ProposalVerifier        │
                                  ▼                         ▼
 people ──commands──▶ MissionControl ◀─stop, resume─ EpochHandoff ─grant─▶ AutonomousAuthority
   │                     │ admits         MissionLedger (revisions, items, checkpoints)
   │                     ▼                                  ▲
   │     MissionRuns ─▶ MissionDelivery ─▶ StageExecution ─▶│        ─▶ EpochWorktree
   │                     │ operations at work               └─ OperationJournal ◀─ MissionRecovery
   ├─claim─▶ TaskScheduler ─▶ TaskWorktree, WorkerRuntime, CandidateDelivery ─▶ GithubMutations
   ├─start─▶ WorkflowRun ─▶ StageExecution ─▶ gate ─▶ people
   ├─approve─▶ ExecutionGates
   └─grant, pause─▶ StudioSupervisor ─▶ PlayableVersions           every transaction ─▶ EventOutbox
```

`EpochHandoff` extends `MissionControl` and shares all its variables: it is the one
pair whose transactions touch the same rows in both directions. Elsewhere a module
holds the few columns it reads of another component and lets them change as that
component may change them.

## 3. Modules

`PROJECT.json` maps each definition to the lines it stands for.

**TaskScheduler, FencedExclusion.** `claim_runnable_task`, `renew_lease`,
`release_lease`, `_expire_scheduler_leases`, `_assert_fenced_lease`,
`set_emergency_stop` and the transitions of a work item. Each operation under the
lock first expires what is due, and commits that even if it then refuses. A clock
reading is any element of `Instants`, with no order between two readings. `high` is
history kept in the events: the newest token that authorised a write to a domain.
`FencedExclusion`: outstanding grants have disjoint scopes, tokens grow, a write never
lands behind a newer one on an overlapping domain.

**WorkflowRun, WorkflowSlots.** `start_run`, `start_durable_run`,
`transition_durable_stage`, `_transition_run`, gates. `held` is
`active_workflow_claims`; runs older than that table (`Legacy`) may share a slot, and
`Heirs` says who inherits it. The stop and the checkpoint sequence are read before
the transaction (`AssertDispatchAllowed` / `StartRun`, `ReadStage` / `WriteStage`).
`WorkflowSlots`: a run starts only in a slot nobody uses and never returns.

**StageExecution.** One run of a workflow, by Temporal or by `WorkflowEngine`. An
execution of `execute_agentfactory_stage` (`calls`) reserves its mutation, recovers,
chooses and records a reviewer, calls the provider, saves the artifact and stores the
answer, each a transaction; it may be killed between two, or be given up by Temporal
and go on beside its successor. The workflow takes answers (`TakeAnswer`), repairs,
pauses and cancels. People review artifacts and accept evidence.

**OperationJournal, EffectOnce.** `MissionOperationJournal` with the operation loop of
`reconstruct_mission` and the installer's `reconcile_unknown`. `keys` holds the event
keys with what each wrote, because appending under a used key repeats that event. The
effect on the outside world is a step of its own, so that a caller can be killed on
either side of it. The observers are truthful here. `EffectOnce`: an effect happens at
most once, what is said of it is true and stays.

**MissionRecovery.** What a recovery pass reads while the mission goes on: the mission
and fence, then the checkpoint, Git and each operation, each by a look of its own, with
the observers for checkpoints, revisions, epochs, worktrees and integrations, and the
decision on the record.

**MissionControl, MissionGate, ControlSchema.** `current` (`Reconcile`),
`begin_operation` (`Ask`, `Begin`), `finish_operation`, `apply` with its comparison
outside the lock (`Check`) and its transaction (`Transition`, `Retry`, `Refuse`). The
constants say which operations Temporal executes again beside an execution at work
(`Overlapping`), whose caller finishes the lease even when refused (`Sweeping`), and who
may be killed (`Mortal`). `MissionGate`: work enters while the gate is open; a stop is
lifted, and the epoch replaced, only with nothing at work. `ControlSchema` is what the
tables themselves (CHECK, UNIQUE, triggers) allow any writer, one statement an action.

**EpochHandoff.** `SeeBoundary`, `SeeScope`, `Activate`, `SendResume` and `Record` are the
five transactions of a completion; its stop and resume are commands like any other.

**MissionRuns, MissionDelivery.** The parent workflow as a chain of Temporal runs
(registration, planning commands, revalidated approval, rollover), and from the entry
of development on: preparing, running and validating items, the child with its
attempts, settled retries, control and handoff signals. The code between two awaits is
one action; the Temporal server is external.

**BlueprintLifecycle, MissionPlanning, ProposalVerifier, AuthoritySchema, MissionLedger.**
Intake readiness, blueprint versions, architecture decisions and bootstrap; the
pipeline with its roles, attempts and authority, verification and approval; the pure
checks a plan must pass, with the order its items are delivered in; the tables between
specification and active revision as one-statement actions; revisions, item states,
epochs and checkpoints after approval.

**AutonomousAuthority, CandidateDelivery, GithubMutations, ExecutionGates,
WorkerRuntime.** Grants for one revision, epoch and policy, read before and compared
under the lock; `process` as five services' transactions with the bounded loop; a plan's
preview, gate, claim, apply and report; provider gates with their mirror rows and scoped
approvals up to one use; admission, the start boundary around an external driver, and
sessions.

**EpochWorktree, TaskWorktree, EventOutbox, StudioSupervisor, PlayableVersions.**
Worktrees observed while others commit, switch and delete; the hash chain with the
outbox written beside it; `Supervisor.advance` in the order of its checks, with the
ledger's rows opened and closed in transactions of their own (`begun`, `lost`, `late` are
history); offers of builds, rejections and restores.

In `TaskWorktree` a retention deadline passes at any time (`Elapse`), also beside a call
that still provisions; the history variable `overtaken` holds the claims of which that was
so when their directory was removed, and `CleanedIsGone` says what holds for the others.

## 4. Runs

The MC modules put components that share no state beside each other in one run: a
variable `moving` says at the start which of them moves, and the others keep their
initial state. A behaviour of such a run is a behaviour of one component, so each of
its properties is checked on exactly that component's states; the union costs no more
than the parts.

| Run | Checks |
|---|---|
| `scheduler` | Leases exclude each other and writes follow tokens whatever clocks say, `FencedExclusion` is implemented; `AuthoritySound`: one authority in force, one agent a stage; `ChainUnbroken`; `TokensNameEpochs` of the tables; `OneBlueprintLine`. |
| `workflow` | No stage overtakes its dependencies, `WorkflowSlots` is implemented; `GatesSound` (mirrors agree, one call on what was approved, no approval older than a stop); `LaunchesSound`, `ProcessesWithinCapacity`; `OneChain` of parent runs. |
| `journal` | A truthful journal, decided resumption, `EffectOnce`; `HandedInLineage`, `CleanedIsGone`; `ExecutesApproved` of the tables; `RecoverySound`. |
| `handoff` | What is at work holds a lease, resumption and replacement at the boundary, one epoch a handoff, `MissionGate`; `OneLineOfAuthority`, `CheckpointsExact`; `ProposalsSound`; `AcceptedOnce`. |
| `live` | Every operation left under way is decided in the end, a prepared handoff is completed, a stop settles. |
| `studio` | One step at work, none after an interruption, at most one late; `DeliverySound`; `CompletedKeysSkipped`; `PointerFollowsHistory`; `ApprovedCanBeBuilt`; `StagesSound`. |
| `control_orphan`, `control_overlap`, `delivery_control`, `runs_command_lost`, `runs_unregistered`, `stage_verdict` | Violations, section 5. |

Passing runs find between 0.4 and 3 million distinct states in one to three minutes.
Every property of a passing run has a mutated definition under which the same
configuration finds it violated (`PROJECT.json`, "mutants").

Deadlock is checked by `scheduler` only: the other systems may really stop, when every
run has ended, every command been refused or every bound been reached.

### Bounds, and why they are enough

Counters are cut by constants (`Max...`) in guards; the constraints named below only
leave out behaviours in which independent things happen at once.

* Scheduler: two claims, two work items, three requests of which two nest and one is
  disjoint; fencing needs an old and a new token. `MCSchedulerBound` clears the stop
  before work begins. `MCAuthorityBound`: two of the processes are at work at a time.
  Events: two processes and consumers, four events of which two are legacy rows.
  `MCFenceBound`: the fence is one update behind its mission at most. `MCBlueprintBound`:
  a bootstrap after the decisions are settled, two assessments.
* Workflow: two legacy runs and a new one are the least in which a claim is inherited
  while a third run tries to start; three stages, two callers, three moves
  (`MCStagesAlone`: stages move when the legacy runs are over). `MCScopedAlone`,
  `MCTwoStarts`: the scoped approval without open gates; two of four starts of two
  admissions and an unregistered worker at a time. `MCRunsBound`: three parent runs, a
  plan, a notice, a pause and then a resume.
* Journal: four callers of two operations of which three call (`MCThreeCalls`), two
  restarts so that one interrupts a pass, two recovery keys. `MCEpochBound`: two outside
  changes of the repository, the second while one caller is at work. `MCAuthorityBound`
  (of MCJournalTrees): second sources, revisions and pauses where an approval may depend
  on them. `MCRecoveryBound`: the damage or change that the operation's class reads.
  The worktree of a task: one claim (of another's, only a prune reaches it), two callers of
  every operation, two losses: a directory that goes and comes back.
* Handoff: two handoffs for one epoch, two executions of one completion
  (`MCHandoffBound`); two commands over three executions of two operations
  (`MCControlBound`); two orders and one kill (`MCDeliveryBound`); three revisions, two
  items, two calls (`MCLedgerBound`); two pipeline runs of two sources, two executions
  (`MCPlanningBound`).
* Studio: two runners, two requests, two rows, one outside event (`MCStudioBound`); two
  results, two calls (`MCCallsBound`); three commands of two processes
  (`MCPlayableBound`). Proposals are four families of plans of two and three items:
  how they hang together, what they cite, what a reviewer says, what sets up what.
  Stages: three stages of which two are reviewed, four executions, one fault, reviews
  of the engine's artifacts (`MCStageBound`); `stage_verdict` allows five executions.

Symmetry is used for interchangeable ids only, and in no run with liveness.

### Fairness

In `live` alone. The journal: a pass that was begun goes on (weak fairness of its
steps), since `reconstruct_mission` is one call that only a restart ends; it is called
again, sooner or later under a new key (strong fairness of `BeginRecovery`), as the
operator is told to run recovery until it says `RESUME_SAFE`. Handoffs: executions
proceed, Temporal retries an activity whose worker was killed, commands under way are
applied or refused, a completion that was begun or retried goes on. How owners send
commands is left open. `control_orphan` uses the part about executions. Nothing else
assumes fairness.

## 5. Where the code and what is said of it disagree

Each is a run that finds its property violated; `PROJECT.json` quotes the line.

1. `control_orphan` (`orchestration/temporal/activities.py:130`): planning operations are
   named after the token of the moment, so the retry of a killed activity does not find
   the lease the first execution opened; after a stop no resume is accepted any more.
2. `control_overlap` (`control_plane.py:421`): a second execution beside the first shares
   its lease, the first to end closes it, and the mission resumes with the other at work.
3. `delivery_control` (`orchestration/temporal/workflows.py:1337`): a pause or retry that
   commits between the scheduling and the admission of a parent's activity leaves the
   parent waiting for nothing.
4. `runs_command_lost` (`orchestration/temporal/workflows.py:1502`): a planning command
   taken from its queue before the last check for a rollover is dropped with the run.
5. `runs_unregistered` (`orchestration/temporal/workflows.py:1085`): a rollover right after
   the revalidated approval starts a run that names the token of before, which is
   refused registration for ever.
6. `stage_verdict` (`orchestration/temporal/activities.py:1893`): an execution killed
   between the artifact of a blocked or failing review and its stored answer is
   recovered as a passing one, and the founder is asked to approve.

Behaviours met while modelling that have no run of their own:

* `start` of the journal hands an attempt that another caller runs to an earlier caller
  that comes back under its key (`durable_workflow.py:647`). The runs have no such caller
  (`Returning` is empty), and the theorems assume none (`NoReturn`).
* A start that passed the emergency-stop check is inserted after the stop
  (`storage.py:9840`; `tests/test_policy_plane.py:212` expects a refusal).
* An intake assessment that read before the last answer may be written after the ready
  one; from then on `assess` builds a document whose digest was written before and is
  refused (`mission_intake.py:224`, `277`).
* Two concurrent promotions may be flagged reproducible of each other; feedback checks
  have no trigger against deletion (`docs/game-feedback.md`, section 4).
* A dependency through an item that is not executable is not enforced at execution, and
  STALE items never become READY (`backlog_revisions.py:1483`, `1604`).
* A revision of agents that is material routes to approval with the old revision active,
  which `approve_and_start` then refuses (`autonomous_backlog_approval.py:469`).
* `mission_bootstrap.py` compares global counts after a failure, and an amendment between
  its look at the blueprint and its lock bootstraps a superseded version; an approved
  decision whose blueprint was amended otherwise can never be applied.
* An approval denied while the phase is APPROVED makes `_enter_development_activity`
  raise; pause and resume while waiting for an approval make a ready verification stale.
* Stages: a reviewed artifact is looked up by the exact label of the first execution, so
  after a repair the reviewer judges the older one; a late heartbeat or a shutdown marks
  the run failed while Temporal tries again; the Temporal path never completes a reviewer
  assignment; an artifact with accepted evidence can no longer be reviewed.
* `decide_criterion_evidence` reads whether an artifact is locked before it holds the
  lock (`storage.py:10770`); a trigger makes the second verifier fail instead of being
  lost, which `StagesSound` checks.
* `cleanup` compares instants and does not wait for a call that provisions: one that began
  under the lease and goes on after the clean-up finds no directory and adds it again. Its
  last transition is refused, the row stays `cleaned`, and since `reconcile` passes over
  such rows but counts their paths as managed, it reports the directory neither as a
  worktree nor as an orphan (`worktrees.py:1327`, `1366`). `CleanedIsGone` excepts exactly
  the claims that were provisioned for when they were removed; no document speaks of them.
* A revocation while a handoff is open does not reach the new epoch: its completion
  grants a fresh authority. "Revoking stops the studio starting anything else" holds up
  to the one step of an advance that had already asked (`AtMostOneLate`); an unknown step
  is the answer of every later advance.

## 6. What is proved

TLAPS checks every proof to its leaves. The theorems hold for all values of the
constants that satisfy the named assumption of their module (shape of the constants
only); none bounds the number of processes, rows, restarts or commands. The argument is
always an inductive invariant with one step per action, which then implies the
properties; refinements are proved step by step from it.

| Module | Invariant | Properties |
|---|---|---|
| `TaskSchedulerProofs` | `IInv`, `BlueprintInv` | `DomainsExclusive`, `WritesFollowTokens`, `RefinesFencedExclusion`, the stop, ended leases; `OneBlueprintLine` |
| `WorkflowRunProofs` | `IInv`, `RunsInv`, `ChildrenInv` | `DependenciesSucceeded`, `RefinesWorkflowSlots`, claims, checkpoint log, gates; `OneChain`; `AcceptedOnce` |
| `OperationJournalProofs` | `IInv`, `RecoveryInv`, `SchemaInv` | `JournalTellsEffects`, `ResumeOnlyDecided`, `RefinesEffectOnce`, one attempt, scope, lasting decisions; `RecoverySound`; `ExecutesApproved` |
| `MissionControlProofs` | `IInv`, `HandoffInv`, `ControlInv` | `WorkHoldsLease`, `ResumeAtBoundary`, `RefinesGate`, with and without handoffs; `OneEpochPerHandoff`, `ReplacedAtBoundary`; `TokensNameEpochs` |
| `StudioSupervisorProofs` | `IInv`, `DeliveryInv` | `OneAtWork`, `NothingAfterInterruption`, `AtMostOneLate`, one question, outcomes that stay; `DeliverySound` |
| `LaunchProofs` | `GatesInv`, `WorkersInv`, `StagesInv` | `GatesSound`, `LaunchesSound`, `ProcessesWithinCapacity`; `StagesSound` |
| `AuthorityProofs` | `AuthorityInv`, `OutboxInv`, `PlanningInv`, `ProposalInv` | `AuthoritySound`, `ChainUnbroken`, `ProposalsSound`; `ApprovedCanBeBuilt` |
| `RecordProofs` | `TreeInv`, `EpochInv`, `MutationsInv`, `LedgerInv`, `PlayableInv` | `CleanedIsGone`, `HandedInLineage`, `CompletedKeysSkipped`, `OneLineOfAuthority`, `CheckpointsExact`; `PointerFollowsHistory` |

Why the invariants are stronger than the properties:

* Scheduler: every recorded write carries an issued token (`HighIssued`), no live lease is
  behind a write in its reach (`FencesHold`), both tables agree on what is live
  (`RowsMatch`). Nothing is assumed of clocks.
* Workflow: what a caller read is still usable when it writes (`ReadsHold`). Any
  dependency graph, cyclic ones included.
* Journal: whoever may touch the world is alone with a running operation (`RunnerAlone`),
  from start keys used once (`StartsOnce`), nobody alive during recovery (`Quiet`) and a
  safe pass leaving nothing undecided behind (`PassTells`). Assumes `NoReturn`.
* Control: one execution of an operation is between asking and its end (`Alone`), nobody
  saw a token the fence has yet to reach (`TokensSeen`), a resume that was checked and is
  current still finds nothing being released (`ResumeStillSafe`). Assumes `NoOverlap`,
  that Temporal executes nothing beside itself: finding 2 is what happens otherwise. Types,
  the reach of a stop and the tokens' scopes are proved without it.
* Handoffs: a completion looks for leases, then for its scope, then activates. The version
  its stop led to (`stopped`) pins the mission: while it is still at that version it is
  stopped, and a boundary that was seen is reached still (`StopsHold`). A handoff has a
  result once it replaced the epoch, and none is of a later epoch (`ResultsKept`). Every step of a handoff keeps `IInv` of the fence
  (`HandoffsKeepFence`), so all the fence's theorems hold with handoffs; `NoOverlap` is the
  only assumption on scheduling.
* Tables of the fence: no token is ahead of the fence's, a job under the fence's token is of
  its epoch (`WorkFenced`), and a result leads to the epoch after its request's
  (`ResultsNext`); each trigger's guard is used.
* Recovery: what an operation did is bounded by the epochs and checkpoints there are, and it
  can do it only as the next one (`JobMade`), so what an observer heard as absent stays
  undone; a pass whose mission is still at the version it read knows the mission, and goes
  to its record with a decided operation (`PassKnows`).
* Studio: the lock excludes, but says nothing of a ledger left by the dead; an advance past
  the reconciliation found no trace of other work (`LedgerInv`), and each check that passed
  pins the count of its reason at zero until the step is begun (`LateInv`).
* Gates: the gate, the attempt and its mirrors move together for every caller
  (`MirrorsAgree`), a claim is held by one invocation for what was asked
  (`ClaimsExclusive`), and approvals are younger than the last stop. Workers: a live process
  has its reservation and its place in the pool (`ReservedOnes`).
* Authority: grants are for revisions a human stands behind and their epochs
  (`GrantsSound`); what was handed out is the assigned agent (`HandedOutAssigned`). Outbox:
  committed and uncommitted rows are one linked sequence with a message each. Planning: an
  execution past its roles closed the authority before, a completed run has every artifact
  and its own revision (`RunKnown`, `ExecutorKnown`), a verification is of a completed
  run's revision (`ReportKnown`), and an approved specification can no longer change
  (`ApprovalKnown`).
* Parent runs: a registration that was answered is in the ledger, and one that was refused
  never will be (`JobFits`), so the workflow goes on or gives up with the row it believes in;
  no row is ahead of the fence's token (`RowsInOrder`).
* Delivery: a call that goes on after its transactions still knows what they left of its
  result (`CallEarned`), the founder decides the one gate once (`GateFollowed`), and of all
  calls only those that read the newest count may still record a turn (`CallCurrent`).
* Children: parent, activity and child await one another (`OneThingAwaited`); the job in
  hand is the newest of its item (`WorkIsNewest`), and a job of the mission's epoch that no
  retry settled is its item's current attempt (`JobsCurrent`), so no other job of the same
  work can complete or be made ready. That a candidate exists among the ready items is
  `LeastOf`, as below.
* Stages: the workflow waits for the newest execution of its stage only (`OpenCalls`); the
  others go on, and what they may still write is bounded by what was reached (`Reached`): an
  executed stage has every earlier one's artifact, so a reviewer is chosen against all their
  authors (`CallsKnown`, `ArtifactsKnown`), and a stored answer has its artifact
  (`AnswersSaved`). That the newest artifact of a reviewed stage exists is the one induction:
  `LeastOf`, from the well-foundedness of the naturals.
* Records: a deadline is only set when the claim has ended, so nobody begins to provision
  for what is removed, and whoever already did is in `overtaken` (`TreeRowsSound`,
  `Drained`); a branch that is inspected, and a head about to be recorded
  as ready, were judged in the lineage (`LooksSound`); an operation runs under a claimed
  gate of its own, which left out what was reported before it (`MutationsInv`); a revision
  is younger than its parent and the mission works from one in force than which none in
  force is younger (`LineGrows`).
* Proposal: the heap's choice of the least next item makes the least order there is, because
  the prefix of any other order that agrees so far leaves its next item in the heap
  (`CanonicalIsLeast`). What an item descends from comes before it (`AncestorsFirst`), and
  taking the first ready item delivers in the order of the rows (`DeliveredInOrder`), so what
  sets up comes first, also where the dependency passes through an item that is only a
  heading. Assumes that items are listed and their ids ordered.
* Blueprint: what a call read and may still rely on when it writes (`CallKnows`): the gaps
  it saw are answered or still told, the blueprint of its decision is the one it amends. An
  attempt that is being built is open and its caller's alone (`BuildsApart`), so a mission
  never names an attempt that failed. That the version amended is still the newest is not
  known of a call: `UNIQUE(blueprint_key,version)` alone makes it so (`VersionFree`).
* The schema of approval: the parent of every revision with an authority was approved or
  applied (`AuthoritiesOnLine`), and so was the mission's own (`MissionOnLine`). Parents are
  older than their revisions, so the line down to the approval is the set of such revisions
  and needs no recursion.
* Playable versions: what is about to be inserted was verified and what is about to be
  restored is on record (`OffersKnown`).

Only model-checked:

* Liveness (`live`), because the provers do not reason about `ENABLED` and fairness.
* The six violations, which are counterexamples.

## 7. What is not modelled

* Parts of the modelled components, named in each component's note: archiving (only
  listings read it), the inspection of plain runs by recovery, the settlement of a retry
  in the fence, live stages, the supervisor's comments, forecasts and queue, uploads of
  an intake.
* Contents: prompts, digests, paths below a domain, amounts of money beyond the few that
  tell a limit apart.
* The operating system: processes are killed or go on. Git, GitHub, Temporal and the
  providers answer, fail or stay silent.
* The components `PROJECT.json` lists as not modelled: identity and credentials,
  sandboxes, reports, packs, harnesses, entry points, settings, texts, infrastructure.

`PROJECT.json` lists the hazards at their lines with the properties that watch them. The
hazards met without a property of their own are in section 5.

## 8. Plan

1. `ApplicationUpdate` (backup, steps, rollback), `SettingsStore` and
   `CoordinationSession`, composed with a run they share no state with.

To check a run: `tlc -workers 2 -config MCTaskScheduler.cfg MCTaskScheduler`, with the
module and configuration `PROJECT.json` names. To check proofs:
`tlapm TaskSchedulerProofs.tla`.
