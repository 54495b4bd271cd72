----------------------------- MODULE MissionRuns -----------------------------
(* The parent workflow of a mission as a chain of Temporal runs: each registers *)
(* itself, plans on command, revalidates the approval and continues as a new    *)
(* run at a safe boundary (orchestration/temporal, MissionCheckpointService).   *)
(* The code between two awaits of the workflow is one action; its activities    *)
(* run at least once. From the entry of development on see MissionDelivery.     *)
EXTENDS Naturals, Sequences, FiniteSets

CONSTANTS
    Plans,          \* planning commands
    Notices,        \* approval notices
    Pauses,         \* control commands that pause
    Resumes,        \* control commands that resume
    MaxRuns         \* bound of the model: runs of the chain

Controls == Pauses \cup Resumes
Signals == Plans \cup Notices \cup Controls

VARIABLES
    mrow,           \* autonomous_missions: version, phase, disposition, epoch
    frow,           \* autonomous_mission_control_fences: token and projected scope
    approved,       \* result_mission_version of the approval, 0 without one
    stored,         \* what a command id is bound to: control result, verification
    chain,          \* autonomous_mission_temporal_runs
    input,          \* the mission as the client of start_workflow read it
    opened,         \* how many runs Temporal started
    flow,           \* the newest run: AutonomousMissionWorkflowState and its place
    job,            \* the activity its run method awaits
    handling,       \* the activities its control handlers await
    post,           \* signals: unsent, sent or delivered, with what the sender saw
    settled         \* the planning commands whose activity answered a run

mrvars == <<mrow, frow, approved, stored, chain, input, opened, flow, job, handling, post, settled>>

None == "none"
ASSUME RunsAssumption == Plans \cap Controls = {} /\ None \notin Plans
Says(word) == [is |-> word]
Nothing == Says("none")
Row(v, p, d, e) == [version |-> v, phase |-> p, disposition |-> d, epoch |-> e]
Scope(f) == Row(f.version, f.phase, f.disposition, f.epoch)
NoJob == [kind |-> None]

\* AutonomousMissionCarryOver: all that one run gives to the next.
CarryOver(scope, token, accepted) == [scope |-> scope, token |-> token, accepted |-> accepted]
ToCarryOver(f) == CarryOver(Scope(f), f.token, f.accepted)

\* AutonomousMissionWorkflowState.from_input: the state of a run before its first
\* await. What it has seen, and its queues, are new.
Opens(n, carry) ==
    [pc |-> "register", n |-> n, version |-> carry.scope.version, phase |-> carry.scope.phase,
     disposition |-> carry.scope.disposition, epoch |-> carry.scope.epoch, token |-> carry.token,
     boundaries |-> 0, accepted |-> carry.accepted, plans |-> <<>>, notices |-> <<>>,
     seen |-> {}, command |-> None, pending |-> FALSE]

MRInit ==
    /\ mrow = Row(1, "DRAFT", "RUNNING", 0)
    /\ frow = [token |-> 0, scope |-> Row(1, "DRAFT", "RUNNING", 0)]
    /\ approved = 0 /\ chain = <<>> /\ opened = 0 /\ settled = {}
    /\ stored = [s \in Plans \cup Controls |-> Nothing]
    /\ input = Nothing
    /\ flow = [Opens(0, CarryOver(mrow, 1, 0)) EXCEPT !.pc = "absent"]
    /\ job = NoJob /\ handling = [c \in Controls |-> Nothing]
    /\ post = [s \in Signals |-> [at |-> "unsent"]]

-----------------------------------------------------------------------------
\* MissionControlFenceService.current: the token names a disposition and an epoch.
FenceNow ==
    IF frow.token = 0 THEN [token |-> 1, scope |-> mrow]
    ELSE [token |-> IF \/ frow.scope.disposition # mrow.disposition
                       \/ frow.scope.epoch # mrow.epoch
                    THEN frow.token + 1 ELSE frow.token,
          scope |-> mrow]

\* The client reads the mission, builds the input and starts the workflow once:
\* a second start attaches to the first.
ReadInput ==
    /\ input = Nothing
    /\ input' = mrow
    /\ UNCHANGED <<mrow, frow, approved, stored, chain, opened, flow, job, handling, post, settled>>

Registration(f) ==
    [kind |-> "register", run |-> f.n, scope |-> Scope(f), token |-> f.token,
     accepted |-> f.accepted, checked |-> FALSE, answer |-> Nothing]

\* How many handlers await an activity.
Handlers == {c \in Controls : handling[c] # Nothing}

\* _rollover_is_safe
RolloverSafe(f, handlers) == handlers = {} /\ f.plans = <<>> /\ f.notices = <<>>

\* _maybe_continue_as_new with a reason: the next run is given what the state
\* carries, and nothing else of this one is left.
ContinuesAsNew(f, handlers) ==
    /\ f.boundaries > 0 /\ RolloverSafe(f, handlers) /\ opened < MaxRuns
    /\ opened' = opened + 1
    /\ flow' = Opens(opened + 1, ToCarryOver(f))
    /\ job' = Registration(flow')

Stays(f, next) == opened' = opened /\ flow' = f /\ job' = next

\* The top of the loop: a new run, the fence of an approved mission, or the wait.
AtTop(f, handlers) ==
    \/ ContinuesAsNew(f, handlers)
    \/ f.phase = "APPROVED" /\ Stays([f EXCEPT !.pc = "fence"], [kind |-> "fence", answer |-> Nothing])
    \/ f.phase # "APPROVED" /\ Stays([f EXCEPT !.pc = "wait"], NoJob)

\* _mark_safe_boundary. That a reason exists is up to thresholds, Temporal and the
\* deployment: pending is either, once a mutation was accepted.
Marked(f, accepted) ==
    LET n == IF accepted THEN 1 ELSE 0 IN
    {[f EXCEPT !.boundaries = @ + n, !.accepted = @ + n, !.pending = due] :
        due \in IF f.boundaries + n > 0 THEN BOOLEAN ELSE {FALSE}}

StartParent ==
    /\ input # Nothing /\ opened = 0
    /\ opened' = 1
    /\ flow' = Opens(1, CarryOver(input, 1, 0))
    /\ job' = Registration(flow')
    /\ UNCHANGED <<mrow, frow, approved, stored, chain, input, handling, post, settled>>

-----------------------------------------------------------------------------
\* register_mission_temporal_run: a run that has its row is answered with it.
\* Mutant: the scope is compared first.
KnownAfterCheck(j) == FALSE
Known(j) == \E i \in DOMAIN chain : chain[i].run = j.run

\* The comparison, which also brings the fence up to date.
RegisterCheck ==
    /\ job.kind = "register" /\ job.answer = Nothing /\ ~job.checked
    /\ IF Known(job)
       THEN job' = [job EXCEPT !.answer = Says("registered")] /\ UNCHANGED frow
       ELSE /\ frow' = FenceNow
            /\ job' = IF job.scope = mrow /\ job.token = FenceNow.token
                      THEN [job EXCEPT !.checked = TRUE] ELSE [job EXCEPT !.answer = Says("refused")]
    /\ UNCHANGED <<mrow, approved, stored, chain, input, opened, flow, handling, post, settled>>

\* The triggers of autonomous_mission_temporal_runs.
Extends(j) ==
    /\ j.run = Len(chain) + 1
    /\ chain # <<>> => chain[Len(chain)].accepted <= j.accepted
    /\ j.scope = mrow /\ frow.scope = mrow /\ frow.token = j.token

\* The insert; a trigger that aborts it has the activity tried again.
RegisterInsert ==
    /\ job.kind = "register" /\ job.checked /\ job.answer = Nothing
    /\ IF Extends(job)
       THEN /\ chain' = Append(chain, [run |-> job.run, previous |-> job.run - 1,
                                       scope |-> job.scope, token |-> job.token,
                                       accepted |-> job.accepted])
            /\ job' = [job EXCEPT !.answer = Says("registered")]
       ELSE job' = [job EXCEPT !.checked = FALSE] /\ UNCHANGED chain
    /\ UNCHANGED <<mrow, frow, approved, stored, input, opened, flow, handling, post, settled>>

\* A refused run waits for nothing, for ever; its handlers go on.
TakeRegistered ==
    /\ flow.pc = "register" /\ job.answer # Nothing
    /\ IF job.answer.is = "refused"
       THEN Stays([flow EXCEPT !.pc = "unregistered"], job)
       ELSE AtTop(flow, Handlers)
    /\ UNCHANGED <<mrow, frow, approved, stored, chain, input, handling, post, settled>>

\* A worker dies, or the answer is lost: the activity is executed again.
LoseAnswer ==
    /\ \/ /\ job.kind # None /\ job.answer.is \notin {"none", "failed", "refused"}
          /\ job' = IF job.kind = "register"
                    THEN [job EXCEPT !.answer = Nothing, !.checked = FALSE]
                    ELSE [job EXCEPT !.answer = Nothing]
          /\ UNCHANGED handling
       \/ \E c \in Handlers :
          /\ handling[c].answer.is \notin {"none", "rejected"}
          /\ handling' = [handling EXCEPT ![c].answer = Nothing]
          /\ UNCHANGED job
    /\ UNCHANGED <<mrow, frow, approved, stored, chain, input, opened, flow, post, settled>>

-----------------------------------------------------------------------------
\* The commands name the mission as their sender sees it.
Command == [at |-> "sent", version |-> mrow.version, phase |-> mrow.phase,
            token |-> FenceNow.token, again |-> FALSE]

\* A client sends a command with the version and token it sees; an approval is
\* told after it was given. A client that is in doubt sends the same again.
Send(s) ==
    /\ opened > 0
    /\ \/ /\ post[s].at = "unsent"
          /\ s \in Notices => approved # 0
          /\ post' = [post EXCEPT ![s] = Command]
          /\ frow' = IF s \in Controls THEN FenceNow ELSE frow
       \/ /\ post[s].at = "delivered" /\ ~post[s].again
          /\ post' = [post EXCEPT ![s].at = "sent", ![s].again = TRUE]
          /\ UNCHANGED frow
    /\ UNCHANGED <<mrow, approved, stored, chain, input, opened, flow, job, handling, settled>>

\* request_autonomous_planning, autonomous_backlog_approved and the control
\* signals: what this run has seen is not queued or handled again.
Deliver(s) ==
    /\ post[s].at = "sent"
    /\ post' = [post EXCEPT ![s].at = "delivered"]
    /\ LET new == s \notin flow.seen IN
       /\ flow' = IF ~new THEN flow
                  ELSE [flow EXCEPT !.seen = @ \cup {s},
                            !.plans = IF s \in Plans THEN Append(@, s) ELSE @,
                            !.notices = IF s \in Notices THEN Append(@, s) ELSE @]
       /\ handling' = IF new /\ s \in Controls THEN [handling EXCEPT ![s] = [answer |-> Nothing]]
                      ELSE handling
    /\ UNCHANGED <<mrow, frow, approved, stored, chain, input, opened, job, settled>>

\* The wait ends with a command or with a reason to continue as a new run. The
\* command leaves its queue before the mission is known to be runnable.
Wake ==
    /\ flow.pc = "wait"
    /\ flow.plans # <<>> \/ flow.notices # <<>> \/ flow.pending
    /\ \/ ContinuesAsNew(flow, Handlers)
       \/ flow.plans # <<>> /\ Stays([flow EXCEPT !.pc = "runnable", !.plans = Tail(@),
                                          !.command = Head(flow.plans)], NoJob)
       \/ /\ flow.plans = <<>> /\ flow.notices # <<>>
          /\ Stays([flow EXCEPT !.pc = "approving", !.notices = Tail(@)],
                   [kind |-> "approval", answer |-> Nothing])
    /\ UNCHANGED <<mrow, frow, approved, stored, chain, input, handling, post, settled>>

\* _wait_until_mission_runnable, and what follows it. A mission that was denied
\* its approval has no authority to enter development with: the workflow's code
\* raises, and its task is retried without end.
GoOn ==
    /\ flow.pc = "runnable" /\ Handlers = {} /\ flow.disposition = "RUNNING"
    /\ \/ ContinuesAsNew(flow, {})
       \/ flow.command # None
          /\ Stays([flow EXCEPT !.pc = "planning"],
                   [kind |-> "plan", of |-> flow.command, step |-> 0, answer |-> Nothing])
       \/ /\ flow.command = None
          /\ Stays([flow EXCEPT !.pc = "developing"], NoJob)
    /\ UNCHANGED <<mrow, frow, approved, stored, chain, input, handling, post, settled>>

-----------------------------------------------------------------------------
\* _planning_phase_steps, from the phase of the version the sender saw; the last
\* step is the presentation of the verified proposal.
StepsFrom(phase) ==
    CASE phase = "DRAFT" -> <<"SPECIFICATION_ANALYSIS", "BACKLOG_GENERATION",
                              "WAITING_FOR_BACKLOG_APPROVAL">>
      [] phase = "SPECIFICATION_ANALYSIS" -> <<"BACKLOG_GENERATION", "WAITING_FOR_BACKLOG_APPROVAL">>
      [] phase = "BACKLOG_GENERATION" -> <<"WAITING_FOR_BACKLOG_APPROVAL">>
      [] phase = "WAITING_FOR_BACKLOG_APPROVAL" -> <<"BACKLOG_GENERATION", "WAITING_FOR_BACKLOG_APPROVAL">>
      [] OTHER -> <<>>

PlanningResult(scope, duplicate) == [is |-> "planned", scope |-> scope, duplicate |-> duplicate]

\* One transaction of _run_autonomous_planning_sync: a step made before under the
\* command's id is answered as made, another one needs its exact version.
PlanStep ==
    /\ job.kind = "plan" /\ job.answer = Nothing
    /\ LET p == job.of
           steps == StepsFrom(post[p].phase)
           done == IF stored[p] = Nothing THEN 0 ELSE stored[p].steps
       IN
       \/ /\ steps # <<>> /\ done = Len(steps)
          /\ job' = [job EXCEPT !.answer = PlanningResult(stored[p].scope, job.step = 0)]
          /\ UNCHANGED <<mrow, stored>>
       \/ /\ done < Len(steps) /\ mrow.version = post[p].version + done
          /\ mrow.disposition = "RUNNING"
          /\ mrow' = [mrow EXCEPT !.version = @ + 1, !.phase = steps[done + 1]]
          /\ stored' = [stored EXCEPT ![p] = [steps |-> done + 1, scope |-> mrow']]
          /\ job' = [job EXCEPT !.step = 1]
       \/ /\ done < Len(steps) \/ steps = <<>>
          /\ job' = [job EXCEPT !.answer = Says("failed")]
          /\ UNCHANGED <<mrow, stored>>
    /\ UNCHANGED <<frow, approved, chain, input, opened, flow, handling, post, settled>>

\* _apply_planning_result; a failed command leaves the state as it was.
TakePlanning ==
    /\ job.kind = "plan" /\ job.answer # Nothing
    /\ settled' = settled \cup {job.of}
    /\ LET f == [flow EXCEPT !.command = None] IN
       IF job.answer.is = "failed" THEN AtTop(f, Handlers)
       ELSE \E g \in Marked([f EXCEPT !.version = job.answer.scope.version,
                                      !.phase = job.answer.scope.phase,
                                      !.disposition = job.answer.scope.disposition],
                            ~job.answer.duplicate) : AtTop(g, Handlers)
    /\ UNCHANGED <<mrow, frow, approved, stored, chain, input, handling, post>>

\* A person approves the presented backlog: revision, epoch and phase in one
\* transaction of approve_and_start, bound to the registered workflow.
Approve ==
    /\ chain # <<>> /\ mrow.phase = "WAITING_FOR_BACKLOG_APPROVAL" /\ mrow.disposition = "RUNNING"
    /\ mrow' = Row(mrow.version + 1, "APPROVED", "RUNNING", 1)
    /\ approved' = mrow.version + 1
    /\ UNCHANGED <<frow, stored, chain, input, opened, flow, job, handling, post, settled>>

ApprovalResult(granted) == [is |-> "approval", scope |-> mrow, granted |-> granted]

\* _revalidate_autonomous_approval_sync: granted for the approved version only.
Revalidate ==
    /\ job.kind = "approval" /\ job.answer = Nothing
    /\ job' = [job EXCEPT !.answer = ApprovalResult(
          /\ approved # 0 /\ mrow.version = approved
          /\ mrow.phase = "APPROVED" /\ mrow.disposition = "RUNNING")]
    /\ UNCHANGED <<mrow, frow, approved, stored, chain, input, opened, flow, handling, post, settled>>

\* _apply_approval_result: scope and epoch, not the fence's token.
TakeApproval ==
    /\ job.kind = "approval" /\ job.answer # Nothing
    /\ LET seen == job.answer.scope
           f == [flow EXCEPT !.version = seen.version, !.phase = seen.phase,
                             !.disposition = seen.disposition,
                             !.epoch = IF job.answer.granted THEN seen.epoch ELSE @]
       IN \E g \in IF job.answer.granted THEN Marked(f, TRUE) ELSE Marked(f, FALSE) :
              AtTop(g, Handlers)
    /\ UNCHANGED <<mrow, frow, approved, stored, chain, input, handling, post, settled>>

\* read_autonomous_mission_control_fence and _apply_control_snapshot
ReadFence ==
    /\ job.kind = "fence"
    /\ frow' = FenceNow
    /\ Stays([flow EXCEPT !.pc = "runnable", !.version = mrow.version, !.phase = mrow.phase,
                          !.disposition = mrow.disposition, !.epoch = mrow.epoch,
                          !.token = FenceNow.token], NoJob)
    /\ UNCHANGED <<mrow, approved, stored, chain, input, handling, post, settled>>

-----------------------------------------------------------------------------
ControlResult(result, duplicate) == [is |-> "applied", result |-> result, duplicate |-> duplicate]

\* apply_autonomous_mission_control: a result is repeated, another command needs
\* the version and the token its sender saw.
ApplyControl(c) ==
    LET from == IF c \in Pauses THEN "RUNNING" ELSE "PAUSED"
        to == IF c \in Pauses THEN "PAUSED" ELSE "RUNNING"
    IN
    /\ c \in Handlers /\ handling[c].answer = Nothing
    /\ IF stored[c] # Nothing
       THEN /\ handling' = [handling EXCEPT ![c].answer = ControlResult(stored[c], TRUE)]
            /\ UNCHANGED <<mrow, frow, stored>>
       ELSE IF /\ post[c].version = mrow.version /\ post[c].token = FenceNow.token
               /\ mrow.disposition = from
       THEN /\ mrow' = [mrow EXCEPT !.version = @ + 1, !.disposition = to]
            /\ frow' = [token |-> FenceNow.token + 1, scope |-> mrow']
            /\ stored' = [stored EXCEPT ![c] = [scope |-> mrow', token |-> FenceNow.token + 1]]
            /\ handling' = [handling EXCEPT ![c].answer = ControlResult(stored'[c], FALSE)]
       ELSE /\ frow' = FenceNow
            /\ handling' = [handling EXCEPT ![c].answer = Says("rejected")]
            /\ UNCHANGED <<mrow, stored>>
    /\ UNCHANGED <<approved, chain, input, opened, flow, job, post, settled>>

\* The rest of _apply_control_command: a result of an earlier token is ignored.
TakeControl(c) ==
    /\ c \in Handlers /\ handling[c].answer # Nothing
    /\ handling' = [handling EXCEPT ![c] = Nothing]
    /\ LET answer == handling[c].answer IN
       \/ /\ \/ answer.is = "rejected"
             \/ answer.is # "rejected" /\ answer.result.token < flow.token
          /\ UNCHANGED flow
       \/ /\ answer.is # "rejected" /\ answer.result.token >= flow.token
          /\ flow' \in Marked([flow EXCEPT !.version = answer.result.scope.version,
                                           !.phase = answer.result.scope.phase,
                                           !.disposition = answer.result.scope.disposition,
                                           !.token = answer.result.token],
                              ~answer.duplicate)
    /\ UNCHANGED <<mrow, frow, approved, stored, chain, input, opened, job, post, settled>>

MRNext ==
    \/ ReadInput \/ StartParent \/ RegisterCheck \/ RegisterInsert \/ TakeRegistered \/ LoseAnswer
    \/ Wake \/ GoOn \/ PlanStep \/ TakePlanning \/ Approve \/ Revalidate \/ TakeApproval \/ ReadFence
    \/ \E s \in Signals : Send(s) \/ Deliver(s)
    \/ \E c \in Controls : ApplyControl(c) \/ TakeControl(c)

MRSpec == MRInit /\ [][MRNext]_mrvars

-----------------------------------------------------------------------------
\* The ledger is the chain of the runs Temporal started: in order, only the newest
\* may be missing, and a run that is refused has no row, also when the answer of
\* its registration was lost and the mission moved before it was tried again. Along
\* it the fence's token never falls, and one token names one disposition and epoch.
OneChain ==
    /\ \A i \in DOMAIN chain : chain[i].run = i
    /\ Len(chain) \in {opened, opened - 1}
    /\ flow.pc = "unregistered" => Len(chain) < opened
    /\ \A i, j \in DOMAIN chain : i < j =>
          /\ chain[i].token <= chain[j].token /\ chain[i].accepted <= chain[j].accepted
          /\ chain[i].token = chain[j].token =>
                /\ chain[i].scope.disposition = chain[j].scope.disposition
                /\ chain[i].scope.epoch = chain[j].scope.epoch

\* "Every run starts by appending its exact run ID ..." (docs/autonomous-mission-
\* planning.md): no run is refused that names the mission as it is.
EveryRunRegistered == flow.pc = "unregistered" => job.scope # mrow

\* "It never rolls over while ... queued planning or approval command ... is
\* active" (docs/autonomous-mission-planning.md): a planning command that reached
\* the workflow is queued, at work, or was answered.
NoCommandLost ==
    \A p \in Plans : post[p].at = "delivered" =>
        p \in settled \/ flow.command = p \/ \E i \in DOMAIN flow.plans : flow.plans[i] = p
=============================================================================
