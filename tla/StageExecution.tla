---------------------------- MODULE StageExecution ----------------------------
(***************************************************************************)
(* One run of a workflow: its stages in order, executed by Temporal        *)
(* (AgentFactoryJobWorkflow and the activity execute_agentfactory_stage) or *)
(* by WorkflowEngine in the caller's process.  An execution of the activity *)
(* reserves the stage's mutation, answers what it finds done, chooses the   *)
(* reviewer, calls the provider, saves the artifact and stores its answer,  *)
(* each in a transaction of its own; it may be killed between any two, or   *)
(* time out and go on beside the next one.  People review the artifacts and *)
(* accept them as evidence.                                                *)
(***************************************************************************)
EXTENDS Integers, Sequences, FiniteSets

CONSTANTS
    Definitions,    \* workflow definitions the run may name
    Stages,         \* the most stages one has
    ModelOf,        \* the model of each agent
    MaxStageRepairs,     \* max_repair_iterations of the job
    MaxTries,       \* maximum_attempts of the provider's retry policy
    MaxCalls,       \* bound of the model: executions of the activity
    MaxFaults,      \* bound of the model: kills, time-outs, shutdowns, a disabled agent
    MaxEvidence,    \* bound of the model: links to artifacts
    NoAgent

VARIABLES
    definition,     \* the definition in the workspace
    job,            \* the workflow: where it is, and what was signalled
    run,            \* workflow_runs.status of the run
    gate,           \* whether the founder's approval gate exists
    calls,          \* executions of the stage activity
    mutations,      \* workflow_mutations: what each label's answer is
    artifacts,      \* artifacts, oldest first
    reviewers,      \* reviewer_assignments, by label
    disabled,       \* agents the registry has disabled since
    evidence,       \* criterion_evidence, and what its decider has read
    faults

sevars == <<definition, job, run, gate, calls, mutations, artifacts, reviewers, disabled,
            evidence, faults>>

\* A definition names agents of the registry: AgentRegistry.get raises on others.
ASSUME StageAssumption ==
    /\ Stages \in Nat /\ MaxStageRepairs \in Nat /\ NoAgent \notin DOMAIN ModelOf
    /\ \A d \in Definitions :
          /\ Len(d.deps) \in 0..Stages
          /\ \A s \in 1..Len(d.deps) : {d.agent[s]} \cup d.pool[s] \subseteq DOMAIN ModelOf

Labels == (1..Stages) \X (0..MaxStageRepairs)    \* a stage, and its repair iteration
N == Len(definition.deps)

-----------------------------------------------------------------------------
\* _ancestors: the least set with the dependencies of a stage and, of each it holds, its
\* own; over those that come earlier, since others refuse the definition.
EarlierOf(d) ==
    [s \in 1..Len(d.deps) |->
        {x \in 1..(s - 1) :
            \A closed \in SUBSET (1..(s - 1)) :
                (\A y \in closed \cup {s} : d.deps[y] \cap (1..(y - 1)) \subseteq closed) => x \in closed}]

\* validate_workflow: earlier stages only are waited for, a reviewer of a pool reviews
\* ancestors, every stage has a contract with a passing verdict, and the guardian's
\* precheck and postcheck enclose the others.
ValidWorkflow(d) ==
    LET n == Len(d.deps) up == EarlierOf(d) IN
    /\ n > 0
    /\ \A s \in 1..n :
          /\ d.deps[s] \subseteq 1..(s - 1)
          /\ d.contract[s]
          /\ d.pool[s] # {} => /\ d.agent[s] \in d.pool[s] /\ d.reviews[s] # {}
                               /\ d.reviews[s] \subseteq up[s]
    /\ d.agent[d.precheck] = d.guardian /\ d.agent[n] = d.guardian
    /\ d.postcheck = n /\ d.precheck < n
    /\ \A s \in (d.precheck + 1)..(n - 1) : d.precheck \in up[s]
    /\ 1..(n - 1) \subseteq up[n]

-----------------------------------------------------------------------------
\* What a provider's answer is under the stage's contract (parse_stage_verdict): a
\* passing verdict with evidence for every criterion, or a blocked or malformed one.
Verdicts == {"passed", "blocked"}

NewCall(label) == [at |-> "called", label |-> label, open |-> TRUE, agent |-> NoAgent,
                   subjects |-> {}, result |-> NoAgent]
NoReviewer == [agent |-> NoAgent, subjects |-> {}]
OverCall == [at |-> "over", label |-> <<1, 0>>, open |-> FALSE, agent |-> NoAgent,
             subjects |-> {}, result |-> NoAgent]

SEInit ==
    /\ definition \in Definitions
    /\ job \in [at : {"asked"}, by : {"temporal", "engine"}, stage : {1}, repair : {0},
                tries : {0}, paused : {FALSE}, cancelled : {FALSE}]
    /\ run = "none" /\ gate = FALSE
    /\ calls = <<>> /\ artifacts = <<>> /\ evidence = <<>>
    /\ mutations = [l \in Labels |-> "none"]
    /\ reviewers = [l \in Labels |-> NoReviewer]
    /\ disabled = {} /\ faults = 0

\* What nobody but the founder and the reviewers touch.
Reviewed == <<definition, disabled, evidence>>
\* What the activity's executions write.
Written == <<calls, mutations, artifacts, reviewers>>

\* _transition_run refuses to leave a finished run.
Fails == run' = IF run \in {"running", "awaiting_approval"} THEN "failed" ELSE run

\* run_workflow and start_workflow: the run is inserted, then Temporal is asked; a
\* start that raised may have been accepted.  The engine validates before it inserts.
StartRun ==
    /\ job.at = "asked"
    /\ \/ /\ job.by = "temporal"
          /\ \/ run' = "running" /\ job' = [job EXCEPT !.at = "load"]
             \/ run' = "failed" /\ \E to \in {"load", "over"} : job' = [job EXCEPT !.at = to]
       \/ /\ job.by = "engine"
          /\ IF ValidWorkflow(definition)
             THEN run' = "running" /\ job' = [job EXCEPT !.at = "engine"]
             ELSE run' = run /\ job' = [job EXCEPT !.at = "over"]
    /\ UNCHANGED <<gate, Written, Reviewed, faults>>

-----------------------------------------------------------------------------
\* Signals.  A cancel reaches the activity too; see CancelCall.
CancelJob ==
    /\ job.by = "temporal" /\ job.at \notin {"asked", "over"} /\ ~job.cancelled
    /\ job' = [job EXCEPT !.cancelled = TRUE]
    /\ UNCHANGED <<run, gate, Written, Reviewed, faults>>

PauseJob ==
    /\ job.by = "temporal" /\ job.at \notin {"asked", "over"}
    /\ job' = [job EXCEPT !.paused = ~@]
    /\ UNCHANGED <<run, gate, Written, Reviewed, faults>>

\* _wait_until_runnable, before an activity is started and after it ended.
Runnable == ~job.paused \/ job.cancelled
Goes(to) == job' = [job EXCEPT !.at = IF job.cancelled THEN "failing" ELSE to]

\* validate_job and load_project_context.
LoadContext ==
    /\ job.at = "load" /\ Runnable
    /\ Goes(IF ValidWorkflow(definition) THEN "stage" ELSE "failing")
    /\ UNCHANGED <<run, gate, Written, Reviewed, faults>>

\* The next stage, or its repair, is scheduled.
ScheduleStage ==
    /\ job.at = "stage" /\ Runnable /\ Len(calls) < MaxCalls
    /\ IF job.cancelled
       THEN job' = [job EXCEPT !.at = "failing"] /\ UNCHANGED calls
       ELSE /\ job' = [job EXCEPT !.at = "await", !.tries = 1]
            /\ calls' = Append(calls, NewCall(<<job.stage, job.repair>>))
    /\ UNCHANGED <<run, gate, mutations, artifacts, reviewers, Reviewed, faults>>

\* An answer is taken: on to the next stage, to a repair, or no further.
TakeAnswer(c) ==
    /\ calls[c].at = "answered" /\ calls[c].open /\ Runnable
    /\ IF job.cancelled THEN job' = [job EXCEPT !.at = "failing"]
       ELSE IF calls[c].result = "passed"
       THEN job' = IF job.stage = N THEN [job EXCEPT !.at = "finalize"]
                   ELSE [job EXCEPT !.at = "stage", !.stage = @ + 1, !.repair = 0]
       ELSE job' = IF job.repair = MaxStageRepairs THEN [job EXCEPT !.at = "failing"]
                   ELSE [job EXCEPT !.at = "stage", !.repair = @ + 1]
    /\ calls' = [calls EXCEPT ![c] = OverCall]
    /\ UNCHANGED <<run, gate, mutations, artifacts, reviewers, Reviewed, faults>>

\* Temporal tries an execution again that failed, or was not heard of in time: that
\* one goes on if its worker lives.
TryAgain(c) ==
    /\ calls[c].open
    /\ LET once == [calls EXCEPT ![c] = IF @.at \in {"failed", "refused", "dead"} THEN OverCall
                                        ELSE [@ EXCEPT !.open = FALSE]] IN
       IF job.cancelled \/ calls[c].at = "refused" \/ job.tries = MaxTries
       THEN job' = [job EXCEPT !.at = "failing"] /\ calls' = once
       ELSE /\ Len(calls) < MaxCalls
            /\ job' = [job EXCEPT !.tries = @ + 1]
            /\ calls' = Append(once, NewCall(calls[c].label))
    /\ \/ calls[c].at \in {"failed", "refused", "dead"} /\ UNCHANGED faults
       \/ /\ calls[c].at \notin {"failed", "refused", "dead"}
          /\ faults < MaxFaults /\ faults' = faults + 1
    /\ UNCHANGED <<run, gate, mutations, artifacts, reviewers, Reviewed>>

\* finalize_job, or the engine's end: the gate, unless it exists; create_approval_gate
\* takes a running run only.
FinalizeJob ==
    /\ job.at = "finalize" /\ Runnable
    /\ IF job.cancelled \/ run # "running"
       THEN job' = [job EXCEPT !.at = "failing"] /\ UNCHANGED <<run, gate>>
       ELSE gate' = TRUE /\ run' = "awaiting_approval" /\ Goes("close")
    /\ UNCHANGED <<Written, Reviewed, faults>>

CloseJob ==
    /\ job.at = "close" /\ Runnable /\ Goes("over")
    /\ UNCHANGED <<run, gate, Written, Reviewed, faults>>

\* _persist_failure: fail_job, or nothing when that activity fails too.
PersistFailure ==
    /\ job.at = "failing"
    /\ Fails \/ UNCHANGED run
    /\ job' = [job EXCEPT !.at = "over"]
    /\ UNCHANGED <<gate, Written, Reviewed, faults>>

-----------------------------------------------------------------------------
MovesCall(c, to) == calls' = [calls EXCEPT ![c].at = to]
Of(c) == calls[c].label

\* reserve_workflow_mutation: a row that exists is returned, a completed one answers.
LookMutation(c) ==
    /\ calls[c].at = "called"
    /\ LET found == mutations[Of(c)] IN
       calls' = [calls EXCEPT ![c] =
                    IF found \in Verdicts THEN [@ EXCEPT !.at = "answered", !.result = found]
                    ELSE [@ EXCEPT !.at = IF found = "none" THEN "inserting" ELSE "recovering"]]
    /\ UNCHANGED <<job, run, gate, mutations, artifacts, reviewers, Reviewed, faults>>

\* ... or it is inserted; one inserted meanwhile fails the attempt (UNIQUE).
InsertMutation(c) ==
    /\ calls[c].at = "inserting"
    /\ IF mutations[Of(c)] = "none"
       THEN mutations' = [mutations EXCEPT ![Of(c)] = "reserved"] /\ MovesCall(c, "recovering")
       ELSE UNCHANGED mutations /\ MovesCall(c, "failed")
    /\ UNCHANGED <<job, run, gate, artifacts, reviewers, Reviewed, faults>>

Saved(label) == {i \in 1..Len(artifacts) : artifacts[i].label = label}

\* execute_stage: an artifact that was persisted before is the answer, a passing one
\* whatever its verdict was.
Recover(c) ==
    /\ calls[c].at = "recovering"
    /\ calls' = [calls EXCEPT ![c] = IF Saved(Of(c)) = {} THEN [@ EXCEPT !.at = "choosing"]
                                     ELSE [@ EXCEPT !.at = "storing", !.result = "passed"]]
    /\ UNCHANGED <<job, run, gate, mutations, artifacts, reviewers, Reviewed, faults>>

\* The newest artifact of each stage that is reviewed, as first executed.
Subjects(s) ==
    {i \in 1..Len(artifacts) :
        \E x \in definition.reviews[s] :
            i \in Saved(<<x, 0>>) /\ \A k \in Saved(<<x, 0>>) : k <= i}
Producers(subjects) == {artifacts[i].agent : i \in subjects}

\* Mutant: another agent of the producer's model will do.
EligibleOther(s, subjects) == (definition.pool[s] \ disabled) \ Producers(subjects)

\* ReviewerRouter.select: enabled, and of another model than every producer.
Eligible(s, subjects) ==
    {a \in definition.pool[s] \ disabled :
        \A p \in Producers(subjects) : a # p /\ ModelOf[a] # ModelOf[p]}

\* UNIQUE(run_id,stage) of reviewer_assignments.
Unassigned(label) == reviewers[label].agent = NoAgent

\* _stage_agent: the stage's own agent; the reviewer that was assigned, if it may still
\* review the same artifacts; or one that may, which of them the rotation says.
ChooseAgent(c) ==
    LET s == Of(c)[1] subjects == Subjects(s) able == Eligible(s, subjects) IN
    /\ calls[c].at = "choosing"
    /\ \/ /\ definition.pool[s] = {}
          /\ calls' = [calls EXCEPT ![c].at = "working", ![c].agent = definition.agent[s]]
       \/ /\ definition.pool[s] # {} /\ ~Unassigned(Of(c))
          /\ calls' = [calls EXCEPT ![c] =
                 IF /\ reviewers[Of(c)].agent \in able /\ reviewers[Of(c)].subjects = subjects
                 THEN [@ EXCEPT !.at = "working", !.agent = reviewers[Of(c)].agent]
                 ELSE [@ EXCEPT !.at = "failed"]]
       \/ /\ definition.pool[s] # {} /\ Unassigned(Of(c))
          /\ \/ able = {} /\ MovesCall(c, "failed")
             \/ \E a \in able :
                   calls' = [calls EXCEPT ![c].at = "assigning", ![c].agent = a,
                                          ![c].subjects = subjects]
    /\ UNCHANGED <<job, run, gate, mutations, artifacts, reviewers, Reviewed, faults>>

\* record_reviewer_assignment: the second of a stage fails.
Assign(c) ==
    /\ calls[c].at = "assigning"
    /\ IF Unassigned(Of(c))
       THEN /\ reviewers' = [reviewers EXCEPT ![Of(c)] = [agent |-> calls[c].agent,
                                                        subjects |-> calls[c].subjects]]
            /\ MovesCall(c, "working")
       ELSE UNCHANGED reviewers /\ MovesCall(c, "failed")
    /\ UNCHANGED <<job, run, gate, mutations, artifacts, Reviewed, faults>>

\* _run_agent_with_heartbeat: an answer, or an error that may be tried again or not.
CallProvider(c) ==
    /\ calls[c].at = "working"
    /\ \/ \E v \in Verdicts : calls' = [calls EXCEPT ![c].at = "saving", ![c].result = v]
       \/ \E to \in {"failed", "refused"} : MovesCall(c, to)
    /\ UNCHANGED <<job, run, gate, mutations, artifacts, reviewers, Reviewed, faults>>

\* execute_stage cancelled at its heartbeat, by the workflow, by a shutdown of the worker or
\* because Temporal gave it up: the run is failed.
CancelCall(c) ==
    /\ calls[c].at = "working"
    /\ \/ (job.cancelled \/ ~calls[c].open) /\ UNCHANGED faults
       \/ faults < MaxFaults /\ faults' = faults + 1
    /\ Fails
    /\ MovesCall(c, "failed")
    /\ UNCHANGED <<job, gate, mutations, artifacts, reviewers, Reviewed>>

\* add_artifact: the content with its verdict, unverified.
Artifact(label, agent, verdict) ==
    [label |-> label, agent |-> agent, verdict |-> verdict, status |-> "pending", verifier |-> 0]

SaveArtifact(c) ==
    /\ calls[c].at = "saving"
    /\ artifacts' = Append(artifacts, Artifact(Of(c), calls[c].agent, calls[c].result))
    /\ MovesCall(c, "storing")
    /\ UNCHANGED <<job, run, gate, mutations, reviewers, Reviewed, faults>>

\* complete_workflow_mutation: the first answer is kept; another one is an error.
StoreAnswer(c) ==
    /\ calls[c].at = "storing"
    /\ \/ /\ mutations[Of(c)] = "reserved"
          /\ mutations' = [mutations EXCEPT ![Of(c)] = calls[c].result]
          /\ MovesCall(c, "answered")
       \/ /\ mutations[Of(c)] \in Verdicts
          /\ \/ mutations[Of(c)] = calls[c].result /\ MovesCall(c, "answered")
             \/ MovesCall(c, "failed")
          /\ UNCHANGED mutations
    /\ UNCHANGED <<job, run, gate, artifacts, reviewers, Reviewed, faults>>

\* The worker dies.
KillCall(c) ==
    /\ calls[c].at \notin {"answered", "failed", "refused", "dead", "over"}
    /\ faults < MaxFaults /\ faults' = faults + 1
    /\ calls' = [calls EXCEPT ![c] = IF @.open THEN [@ EXCEPT !.at = "dead"] ELSE OverCall]
    /\ UNCHANGED <<job, run, gate, mutations, artifacts, reviewers, Reviewed>>

\* The registry is a file of the workspace.
Disable(a) ==
    /\ faults < MaxFaults /\ a \notin disabled /\ job.at \in {"await", "engine"}
    /\ disabled' = disabled \cup {a} /\ faults' = faults + 1
    /\ UNCHANGED <<definition, job, run, gate, Written, evidence>>

-----------------------------------------------------------------------------
\* WorkflowEngine.run, a stage of it: what is blocked or has no reviewer fails the run.
EngineStage ==
    /\ job.at = "engine"
    /\ LET s == job.stage l == <<s, 0>> subjects == Subjects(s)
           able == IF definition.pool[s] = {} THEN {definition.agent[s]} \ disabled
                   ELSE Eligible(s, subjects) IN
       \/ \E a \in able :
             /\ reviewers' = IF definition.pool[s] = {} THEN reviewers
                            ELSE [reviewers EXCEPT ![l] = [agent |-> a, subjects |-> subjects]]
             /\ \/ /\ artifacts' = Append(artifacts, Artifact(l, a, "passed"))
                   /\ job' = IF s = N THEN [job EXCEPT !.at = "finalize"]
                             ELSE [job EXCEPT !.stage = @ + 1]
                   /\ UNCHANGED run
                \/ /\ Fails /\ job' = [job EXCEPT !.at = "over"]
                   /\ UNCHANGED artifacts
       \/ /\ able = {}
          /\ Fails /\ job' = [job EXCEPT !.at = "over"]
          /\ UNCHANGED <<artifacts, reviewers>>
    /\ UNCHANGED <<gate, calls, mutations, Reviewed, faults>>

-----------------------------------------------------------------------------
Locked(i) == \E k \in 1..Len(evidence) : evidence[k].artifact = i /\ evidence[k].status = "accepted"

\* review_artifact: once, by a person, and not after its evidence was accepted (trigger).
ReviewArtifact(i) ==
    /\ artifacts[i].status = "pending" /\ ~Locked(i)
    /\ \E s \in {"approved", "rejected"} :
          artifacts' = [artifacts EXCEPT ![i].status = s, ![i].verifier = -1]
    /\ UNCHANGED <<definition, job, run, gate, calls, mutations, reviewers, disabled, evidence, faults>>

\* link_criterion_evidence: for another criterion, or of another type, each.
LinkEvidence(i) ==
    /\ Len(evidence) < MaxEvidence
    /\ evidence' = Append(evidence, [artifact |-> i, status |-> "proposed", saw |-> "nothing"])
    /\ UNCHANGED <<definition, job, run, gate, Written, disabled, faults>>

\* decide_criterion_evidence: whether the artifact is locked is read before the lock is held.
ReadLock(k) ==
    /\ evidence[k].status = "proposed" /\ evidence[k].saw = "nothing"
    /\ evidence' = [evidence EXCEPT ![k].saw = IF Locked(evidence[k].artifact) THEN "locked"
                                               ELSE "free"]
    /\ UNCHANGED <<definition, job, run, gate, Written, disabled, faults>>

\* ... an artifact that was free gets its verifier, unless it was locked meanwhile, which
\* aborts the transaction (trigger).
AcceptEvidence(k) ==
    LET i == evidence[k].artifact IN
    /\ evidence[k].status = "proposed" /\ evidence[k].saw # "nothing"
    /\ IF evidence[k].saw = "free" /\ Locked(i)
       THEN evidence' = [evidence EXCEPT ![k].saw = "nothing"] /\ UNCHANGED artifacts
       ELSE /\ evidence' = [evidence EXCEPT ![k].status = "accepted"]
            /\ artifacts' = IF evidence[k].saw = "locked" THEN artifacts
                            ELSE [artifacts EXCEPT ![i].verifier = k]
    /\ UNCHANGED <<definition, job, run, gate, calls, mutations, reviewers, disabled, faults>>

RejectEvidence(k) ==
    /\ evidence[k].status = "proposed"
    /\ evidence' = [evidence EXCEPT ![k].status = "rejected"]
    /\ UNCHANGED <<definition, job, run, gate, Written, disabled, faults>>

SENext ==
    \/ StartRun \/ CancelJob \/ PauseJob \/ LoadContext \/ ScheduleStage \/ FinalizeJob \/ CloseJob
    \/ PersistFailure \/ EngineStage
    \/ \E c \in 1..Len(calls) :
          \/ TakeAnswer(c) \/ TryAgain(c) \/ LookMutation(c) \/ InsertMutation(c) \/ Recover(c)
          \/ ChooseAgent(c) \/ Assign(c) \/ CallProvider(c) \/ CancelCall(c) \/ SaveArtifact(c)
          \/ StoreAnswer(c) \/ KillCall(c)
    \/ \E a \in DOMAIN ModelOf : Disable(a)
    \/ \E i \in 1..Len(artifacts) : ReviewArtifact(i) \/ LinkEvidence(i)
    \/ \E k \in 1..Len(evidence) : ReadLock(k) \/ AcceptEvidence(k) \/ RejectEvidence(k)

SESpec == SEInit /\ [][SENext]_sevars

-----------------------------------------------------------------------------
SETypeOK ==
    /\ run \in {"none", "running", "awaiting_approval", "failed"} /\ gate \in BOOLEAN
    /\ mutations \in [Labels -> {"none", "reserved"} \cup Verdicts]
    /\ \A i \in 1..Len(artifacts) : artifacts[i].label \in Labels

\* Every execution answers with the one answer that is stored for its label, however
\* many run, die or go on after they were given up.
AnswersStored ==
    \A c \in 1..Len(calls) : calls[c].at = "answered" => calls[c].result = mutations[calls[c].label]

\* What a pool's stage wrote was written by its one assigned reviewer, of another model
\* than what it reviewed.
ReviewsIndependent ==
    \A i \in 1..Len(artifacts) :
        LET l == artifacts[i].label IN
        definition.pool[l[1]] # {} =>
            /\ ~Unassigned(l) /\ artifacts[i].agent = reviewers[l].agent
            /\ \A x \in definition.reviews[l[1]] : \A k \in Saved(<<x, 0>>) :
                  ModelOf[artifacts[k].agent] # ModelOf[artifacts[i].agent]

\* The founder is asked only when every stage was answered as passed.
GateEarned ==
    gate => \A s \in 1..N :
        \/ \E r \in 0..MaxStageRepairs : mutations[<<s, r>>] = "passed"
        \/ job.by = "engine" /\ \E i \in Saved(<<s, 0>>) : artifacts[i].verdict = "passed"

\* Who verified an artifact is kept once evidence of it was accepted.
VerifierKept ==
    \A i \in 1..Len(artifacts) :
        Locked(i) => \E k \in 1..Len(evidence) :
            /\ artifacts[i].verifier = k /\ evidence[k].artifact = i
            /\ evidence[k].status = "accepted"

StagesSound == AnswersStored /\ ReviewsIndependent /\ GateEarned /\ VerifierKept

\* docs/workflows.md: "NOT_ALIGNED and FAIL block progression. A blocked or malformed
\* run does not reach final approval."
VerdictStands ==
    gate => \A s \in 1..N : \E i \in 1..Len(artifacts) :
        artifacts[i].label[1] = s /\ artifacts[i].verdict = "passed"
===============================================================================
