--------------------------- MODULE MissionDelivery ---------------------------
(* An approved mission delivered item by item: the Temporal parent and its     *)
(* children (orchestration/temporal/workflows.py), the activities they run     *)
(* (orchestration/temporal/activities.py) and the jobs those write             *)
(* (coding_delivery.py), with the owner's commands coming in between.          *)
(*                                                                             *)
(* An activity is scheduled with what the workflow knows and runs later over   *)
(* the database; a command is a signal whose handler runs an activity of its   *)
(* own, takes its result into the parent and passes a notice to the child.     *)
(* A fenced activity raises an error that is not retried.                      *)
EXTENDS Naturals, Sequences, FiniteSets

CONSTANTS
    NItems,     \* executable items of the active revision, in their order
    Orders,     \* control and handoff commands of the owner
    OrderActions,    \* what they may ask for
    Failing,    \* what may fail by itself: "environment", "stage"
    MaxJobs, MaxKills       \* bounds of the model

\* The items of a revision are counted.
ASSUME ItemsAssumption == NItems \in Nat

VARIABLES
    md,         \* the mission row and its control fence
    todo,       \* the active revision's items: status and attempt_count
    jobs,       \* autonomous_child_jobs with the rows that refer to each
    order,      \* a command: how far it is, what it claims, what it returned
    parent,     \* the parent workflow: its state, and where its run method is
    act,        \* the activity its run method waits for
    child,      \* the child workflow of parent.job
    mail,       \* notices on their way to the child
    kills       \* activities killed so far

dvars == <<md, todo, jobs, order, parent, act, child, mail, kills>>

DItems == 1..NItems
NoAct == [name |-> "none"]
NoChild == [job |-> 0, pc |-> "ended", status |-> "none"]

InHandler == {"sent", "applied", "waiting", "completing", "activated"}
HandlersIn(as) == {c \in Orders : order[c].at \in InHandler /\ order[c].action \in as}
ControlOrHandoff == HandlersIn(OrderActions)
HandoffHandlers == HandlersIn({"HANDOFF"})

\* _wait_until_mission_runnable
Runnable == ControlOrHandoff = {} /\ parent.disposition = "RUNNING"

\* assert_allows: the fence still is what the activity was scheduled with.
Allows(tok, e) == md.disposition = "RUNNING" /\ md.token = tok /\ md.epoch = e

StageLease == child.pc = "inferring"
NextItemLease == act.name = "prepare" /\ act.at \in {"choose", "reserve", "insert", "again"}

DInit ==
    /\ md = [phase |-> "approved", disposition |-> "RUNNING", version |-> 1, token |-> 1,
             epoch |-> 1]
    /\ todo = [i \in DItems |-> [status |-> "READY", attempt |-> 0]]
    /\ jobs = <<>>
    /\ order = [c \in Orders |-> [at |-> "unsent", action |-> "none"]]
    /\ parent = [pc |-> "top", phase |-> "approved", disposition |-> "RUNNING", version |-> 1,
                 token |-> 1, prepared |-> 0, job |-> 0, active |-> FALSE, retry |-> 0,
                 handoff |-> FALSE]
    /\ act = NoAct /\ child = NoChild /\ mail = <<>> /\ kills = 0

-----------------------------------------------------------------------------
(* The owner's commands.                                                     *)

\* open_job: of the active epoch, neither reconciled nor asked to retry.
OpenJobs == {j \in 1..Len(jobs) : /\ jobs[j].epoch = md.epoch /\ ~jobs[j].reconciled
                                  /\ jobs[j].retry = "none"}
OpenJob == IF OpenJobs = {} THEN 0 ELSE CHOOSE j \in OpenJobs : \A k \in OpenJobs : j <= k

\* A signal with the version, token and child that the owner sees.
Order(c, a) ==
    /\ order[c].at = "unsent" /\ parent.pc # "done"
    /\ order' = [order EXCEPT ![c] = [at |-> "sent", action |-> a, version |-> md.version,
                                      token |-> md.token, job |-> OpenJob]]
    /\ UNCHANGED <<md, todo, jobs, parent, act, child, mail, kills>>

\* apply and _apply_retry: what each action asks of the mission and the child.
Legal(o) ==
    /\ md.version = o.version /\ md.token = o.token
    /\ \/ o.action \in {"PAUSE", "HANDOFF"} /\ md.disposition = "RUNNING"
       \/ o.action = "RESUME" /\ md.disposition \in {"PAUSED", "STOPPED"}
       \/ /\ o.action = "RETRY" /\ md.disposition = "RUNNING" /\ o.job # 0
          /\ jobs[o.job].epoch = md.epoch /\ ~jobs[o.job].completed /\ jobs[o.job].retry = "none"
          /\ todo[jobs[o.job].item].status = "RUNNING"

After(o) == CASE o.action = "PAUSE" -> "PAUSED"
              [] o.action = "HANDOFF" -> "STOPPED"
              [] OTHER -> "RUNNING"

\* apply_autonomous_mission_control and prepare_autonomous_epoch_handoff: the
\* command commits, or the activity fails and its handler returns.
ApplyOrder(c) ==
    LET o == order[c]
        moved == [md EXCEPT !.disposition = After(o), !.token = @ + 1,
                            !.version = IF o.action = "RETRY" THEN @ ELSE @ + 1]
    IN
    /\ o.at = "sent"
    /\ IF Legal(o)
       THEN /\ md' = moved
            /\ jobs' = IF o.action = "RETRY" THEN [jobs EXCEPT ![o.job].retry = "asked"] ELSE jobs
            /\ order' = [order EXCEPT ![c] = [o EXCEPT !.at = "applied", !.version = moved.version,
                                                       !.token = moved.token]]
       ELSE order' = [order EXCEPT ![c].at = "refused"] /\ UNCHANGED <<md, jobs>>
    /\ UNCHANGED <<todo, parent, act, child, mail, kills>>

\* A notice goes to the child the parent holds; one that closed does not get it.
Tell(o) == mail' = IF parent.active /\ parent.job # 0 /\ child.pc # "ended"
                   THEN Append(mail, o) ELSE mail

\* _apply_control_command after its activity: a result of a superseded token is
\* ignored.
TakeResult(c) ==
    LET o == order[c] IN
    /\ o.at = "applied" /\ o.action # "HANDOFF"
    /\ order' = [order EXCEPT ![c].at = "done"]
    /\ IF o.token < parent.token THEN UNCHANGED <<parent, mail>>
       ELSE /\ parent' = [parent EXCEPT !.version = o.version, !.token = o.token,
                             !.disposition = After(o),
                             !.retry = IF o.action = "RETRY" THEN o.job ELSE @]
            /\ Tell(o)
    /\ UNCHANGED <<md, todo, jobs, act, child, kills>>

\* _apply_epoch_handoff_command after the preparation: it waits for the child
\* only if the parent holds that child.
TakePreparation(c) ==
    LET o == order[c] IN
    /\ o.at = "applied" /\ o.action = "HANDOFF"
    /\ parent' = [parent EXCEPT !.version = o.version, !.token = o.token,
                                !.disposition = "STOPPED", !.handoff = TRUE]
    /\ IF parent.active /\ parent.job = o.job
       THEN order' = [order EXCEPT ![c].at = "waiting"] /\ Tell(o)
       ELSE order' = [order EXCEPT ![c].at = "completing"] /\ UNCHANGED mail
    /\ UNCHANGED <<md, todo, jobs, act, child, kills>>

SeeChildGone(c) ==
    /\ order[c].at = "waiting" /\ ~parent.active
    /\ order' = [order EXCEPT ![c].at = "completing"]
    /\ UNCHANGED <<md, todo, jobs, parent, act, child, mail, kills>>

\* complete_autonomous_epoch_handoff (EpochHandoff has its steps): at the safe
\* boundary the next epoch and the resume; a boundary that is not reached in
\* time, or a mission that moved, leaves the handoff to recovery.
CompleteHandoff(c) ==
    LET o == order[c] IN
    /\ o.at = "completing"
    /\ \/ /\ ~StageLease /\ ~NextItemLease /\ md.version = o.version
          /\ md' = [md EXCEPT !.epoch = @ + 1, !.version = @ + 2, !.token = @ + 1,
                              !.disposition = "RUNNING"]
          /\ order' = [order EXCEPT ![c] = [o EXCEPT !.at = "activated", !.version = md'.version,
                                                     !.token = md'.token]]
       \/ /\ StageLease \/ NextItemLease \/ md.version # o.version
          /\ order' = [order EXCEPT ![c].at = "failed"]
          /\ UNCHANGED md
    /\ UNCHANGED <<todo, jobs, parent, act, child, mail, kills>>

TakeCompletion(c) ==
    LET o == order[c] IN
    /\ o.at = "activated"
    /\ order' = [order EXCEPT ![c].at = "done"]
    /\ parent' = [parent EXCEPT !.version = o.version, !.token = o.token, !.job = 0,
                     !.disposition = "RUNNING", !.retry = 0, !.handoff = FALSE]
    /\ UNCHANGED <<md, todo, jobs, act, child, mail, kills>>

-----------------------------------------------------------------------------
(* The parent's run method.                                                  *)

ScheduleAct(name, at) ==
    act' = [name |-> name, at |-> at, version |-> parent.version, token |-> parent.token,
            job |-> parent.job, made |-> 0]

Waits(pc) == parent' = [parent EXCEPT !.pc = pc]

\* An activity or a child failed: a handoff under way is waited for, anything
\* else is NEEDS_ATTENTION and wait_condition(lambda: False).
Failed == Waits(IF HandoffHandlers # {} \/ parent.handoff THEN "superseded" ELSE "stuck")

ActFails == act' = NoAct /\ IF act.name = "enter" THEN Waits("stuck") ELSE Failed

\* read_autonomous_mission_control_fence and its result.
ReadControlFence ==
    /\ parent.pc = "top" /\ parent.phase = "approved" /\ act = NoAct
    /\ act' = [name |-> "fence", at |-> "read", fence |-> md]
    /\ UNCHANGED <<md, todo, jobs, order, parent, child, mail, kills>>

TakeFence ==
    /\ act.name = "fence"
    /\ act' = NoAct
    /\ parent' = [parent EXCEPT !.pc = "entering", !.phase = act.fence.phase,
                     !.version = act.fence.version, !.token = act.fence.token,
                     !.disposition = act.fence.disposition]
    /\ UNCHANGED <<md, todo, jobs, order, child, mail, kills>>

ScheduleEnter ==
    /\ parent.pc = "entering" /\ act = NoAct /\ Runnable
    /\ ScheduleAct("enter", "check")
    /\ UNCHANGED <<md, todo, jobs, order, parent, child, mail, kills>>

\* enter_autonomous_development: the approval is bound to the version it
\* resulted in, the environment must be ready.
EnterCheck ==
    /\ act.name = "enter" /\ act.at = "check"
    /\ \/ /\ act.version = 1 /\ Allows(act.token, md.epoch)
          /\ act' = [act EXCEPT !.at = "moves"] /\ UNCHANGED parent
       \/ ~(act.version = 1 /\ Allows(act.token, md.epoch)) /\ ActFails
       \/ "environment" \in Failing /\ act' = NoAct /\ Waits("top")
    /\ UNCHANGED <<md, todo, jobs, order, child, mail, kills>>

\* The transitions each makes, in order; the last one ends the activity.
Phases == [enter |-> <<"discovery", "bootstrap", "development">>,
           complete |-> <<"validation", "completed">>]

\* enter_development and complete_mission: one transition after the other, each
\* with the version the last one made.
MakeTransition ==
    LET to == Phases[act.name][act.made + 1] IN
    /\ act.name \in {"enter", "complete"} /\ act.at = "moves" /\ act.made < Len(Phases[act.name])
    /\ \/ /\ md.version = act.version + act.made
          /\ md' = [md EXCEPT !.phase = to, !.version = @ + 1]
          /\ act' = [act EXCEPT !.made = @ + 1, !.token = md.token] /\ UNCHANGED parent
       \/ md.version # act.version + act.made /\ ActFails /\ UNCHANGED md
    /\ UNCHANGED <<todo, jobs, order, child, mail, kills>>

TakePhase ==
    /\ act.name \in {"enter", "complete"} /\ act.at = "moves" /\ act.made = Len(Phases[act.name])
    /\ act' = NoAct
    /\ parent' = [parent EXCEPT !.pc = IF act.name = "enter" THEN "top" ELSE "done",
                     !.phase = Phases[act.name][act.made], !.version = act.version + act.made,
                     !.disposition = "RUNNING", !.token = act.token]
    /\ UNCHANGED <<md, todo, jobs, order, child, mail, kills>>

SchedulePrepare ==
    /\ parent.pc = "top" /\ parent.phase = "development" /\ act = NoAct /\ Runnable
    /\ ScheduleAct("prepare", "begin")
    /\ Waits("preparing")
    /\ UNCHANGED <<md, todo, jobs, order, child, mail, kills>>

\* prepare_autonomous_child_job: the operation is admitted by the fence.
PrepareBegin ==
    /\ act.name = "prepare" /\ act.at \in {"begin", "again"}
    /\ IF md.version = act.version /\ Allows(act.token, md.epoch)
       THEN act' = [act EXCEPT !.at = "choose"] /\ UNCHANGED parent
       ELSE ActFails
    /\ UNCHANGED <<md, todo, jobs, order, child, mail, kills>>

\* The items a child may be prepared for, the first one first.
Offered == {i \in DItems : todo[i].status \in {"READY", "RUNNING"}}
Candidate == CHOOSE i \in Offered : \A k \in Offered : i <= k

\* all_complete and progress: every executable item is DONE.
AllComplete == \A i \in DItems : todo[i].status = "DONE"

\* open_job, or the next item, or the end of the revision.
Choose ==
    /\ act.name = "prepare" /\ act.at = "choose"
    /\ \/ OpenJob # 0 /\ act' = [act EXCEPT !.at = "ready", !.job = OpenJob]
       \/ OpenJob = 0 /\ Offered # {} /\ act' = [act EXCEPT !.at = "reserve", !.job = 0]
       \/ OpenJob = 0 /\ Offered = {}
          /\ act' = [act EXCEPT !.at = IF AllComplete THEN "all" ELSE "blocked"]
    /\ UNCHANGED <<md, todo, jobs, order, parent, child, mail, kills>>

\* prepare_job: the fence again, and a ready item becomes running.
Reserve ==
    /\ act.name = "prepare" /\ act.at = "reserve"
    /\ IF Offered # {} /\ Allows(act.token, md.epoch)
       THEN /\ todo' = IF todo[Candidate].status = "READY"
                       THEN [todo EXCEPT ![Candidate] = [status |-> "RUNNING", attempt |-> @.attempt + 1]]
                       ELSE todo
            /\ act' = [act EXCEPT !.at = "insert"] /\ UNCHANGED parent
       ELSE ActFails /\ UNCHANGED todo
    /\ UNCHANGED <<md, jobs, order, child, mail, kills>>

\* prepare_job: an attempt of an item has one child in an epoch.
NewAttempt(i) == \A j \in 1..Len(jobs) : ~(/\ jobs[j].item = i /\ jobs[j].epoch = md.epoch
                                            /\ jobs[j].attempt = todo[i].attempt)

\* prepare_job's second transaction and the triggers on autonomous_child_jobs: a
\* child of the attempt was prepared under another token, a conflict.
InsertJob ==
    /\ act.name = "prepare" /\ act.at = "insert"
    /\ IF NewAttempt(Candidate) /\ Allows(act.token, md.epoch)
       THEN /\ Len(jobs) < MaxJobs
            /\ jobs' = Append(jobs, [item |-> Candidate, attempt |-> todo[Candidate].attempt,
                                     epoch |-> md.epoch, authorized |-> FALSE, evidence |-> FALSE,
                                     completed |-> FALSE, checkpoint |-> FALSE,
                                     reconciled |-> FALSE, retry |-> "none"])
            /\ act' = [act EXCEPT !.at = "ready", !.job = Len(jobs) + 1] /\ UNCHANGED parent
       ELSE ActFails /\ UNCHANGED jobs
    /\ UNCHANGED <<md, todo, order, child, mail, kills>>

TakePrepared ==
    /\ act.name = "prepare" /\ act.at \in {"ready", "all", "blocked"}
    /\ act' = NoAct
    /\ parent' = CASE act.at = "all" -> [parent EXCEPT !.pc = "finished"]
                   [] act.at = "blocked" -> [parent EXCEPT !.pc = "stuck"]
                   [] OTHER -> [parent EXCEPT !.pc = "prepared", !.prepared = act.job,
                                              !.job = act.job]
    /\ UNCHANGED <<md, todo, jobs, order, child, mail, kills>>

ScheduleComplete ==
    /\ parent.pc = "finished" /\ act = NoAct /\ Runnable
    /\ ScheduleAct("complete", "check")
    /\ UNCHANGED <<md, todo, jobs, order, parent, child, mail, kills>>

\* complete_autonomous_mission: the fence and the progress of the revision.
CompleteCheck ==
    /\ act.name = "complete" /\ act.at = "check"
    /\ IF Allows(act.token, md.epoch) /\ AllComplete
       THEN act' = [act EXCEPT !.at = "moves"] /\ UNCHANGED parent
       ELSE ActFails
    /\ UNCHANGED <<md, todo, jobs, order, child, mail, kills>>

\* start_child_workflow; until the parent holds the handle no notice is passed.
StartChild ==
    /\ parent.pc = "prepared" /\ Runnable
    /\ child' = [job |-> parent.prepared, pc |-> "validate", token |-> parent.token,
                 paused |-> FALSE, retry |-> FALSE, handoff |-> FALSE, deed |-> 0,
                 status |-> "none"]
    /\ mail' = <<>>
    /\ Waits("starting")
    /\ UNCHANGED <<md, todo, jobs, order, act, kills>>

HoldChild ==
    /\ parent.pc = "starting"
    /\ parent' = [parent EXCEPT !.pc = "child", !.active = TRUE]
    /\ UNCHANGED <<md, todo, jobs, order, act, child, mail, kills>>

\* The child closed.  A child that retries without the command's result raises:
\* the workflow task fails, and fails again.
TakeChild ==
    LET status == child.status
        next == CASE status = "retrying" /\ parent.retry = child.job -> "settling"
                  [] status = "superseded" -> "superseded"
                  [] status = "completed" -> "accepted"
                  [] status = "failed" /\ (HandoffHandlers # {} \/ parent.handoff) -> "superseded"
                  [] OTHER -> "stuck"
    IN
    /\ parent.pc = "child" /\ child.pc = "ended"
    /\ parent' = [parent EXCEPT !.pc = next, !.active = FALSE]
    /\ UNCHANGED <<md, todo, jobs, order, act, child, mail, kills>>

AfterHandoff ==
    /\ parent.pc = "superseded" /\ HandoffHandlers = {} /\ act = NoAct
    /\ Waits("top")
    /\ UNCHANGED <<md, todo, jobs, order, act, child, mail, kills>>

ScheduleSettle ==
    /\ parent.pc = "settling" /\ act = NoAct
    /\ act' = [name |-> "settle", at |-> "check", job |-> child.job]
    /\ UNCHANGED <<md, todo, jobs, order, parent, child, mail, kills>>

\* Mutant: settle_retry does not look for a completion.
SettlesAnyway(j) == jobs[j].retry # "none"

\* settle_retry: an accepted child is not retried.
Settles(j) == jobs[j].retry # "none" /\ ~jobs[j].completed

\* settle_retry: the checks, the item failed and ready again, the settlement.
Settle ==
    LET j == act.job
        i == jobs[j].item
        ItemBecomes(s) == todo' = [todo EXCEPT ![i].status = s]
    IN
    /\ act.name = "settle" /\ act.at \in {"check", "fail", "ready", "insert"}
    /\ \/ /\ act.at = "check" /\ Settles(j)
          /\ act' = [act EXCEPT !.at = IF jobs[j].retry = "settled" THEN "settled"
                                       ELSE CASE todo[i].status = "RUNNING" -> "fail"
                                              [] todo[i].status = "FAILED" -> "ready"
                                              [] OTHER -> "insert"]
          /\ UNCHANGED <<todo, jobs, parent>>
       \/ act.at = "check" /\ ~Settles(j) /\ ActFails /\ UNCHANGED <<todo, jobs>>
       \/ act.at = "fail" /\ ItemBecomes("FAILED") /\ act' = [act EXCEPT !.at = "ready"]
          /\ UNCHANGED <<jobs, parent>>
       \/ act.at = "ready" /\ ItemBecomes("READY") /\ act' = [act EXCEPT !.at = "insert"]
          /\ UNCHANGED <<jobs, parent>>
       \/ /\ act.at = "insert" /\ jobs' = [jobs EXCEPT ![j].retry = "settled"]
          /\ act' = [act EXCEPT !.at = "settled"] /\ UNCHANGED <<todo, parent>>
    /\ UNCHANGED <<md, order, child, mail, kills>>

TakeSettled ==
    /\ act.name = "settle" /\ act.at = "settled"
    /\ act' = NoAct
    /\ parent' = [parent EXCEPT !.pc = "top", !.retry = 0, !.job = 0]
    /\ UNCHANGED <<md, todo, jobs, order, child, mail, kills>>

ScheduleReconcile ==
    /\ parent.pc = "accepted" /\ act = NoAct /\ Runnable
    /\ act' = [name |-> "reconcile", at |-> "check", version |-> parent.version,
               token |-> parent.token, job |-> child.job]
    /\ UNCHANGED <<md, todo, jobs, order, parent, child, mail, kills>>

\* reconcile_autonomous_child_job and reconcile_job: the fence, the item DONE, its
\* checkpoint under the version of the call, the reconciliation.
ReconcileItem ==
    LET j == act.job
        i == jobs[j].item
    IN
    /\ act.name = "reconcile" /\ act.at \in {"check", "item", "checkpoint", "insert"}
    /\ \/ /\ act.at = "check" /\ Allows(act.token, jobs[j].epoch) /\ jobs[j].completed
          /\ act' = [act EXCEPT !.at = IF jobs[j].reconciled THEN "reconciled"
                                       ELSE IF todo[i].status = "DONE" THEN "checkpoint" ELSE "item"]
          /\ UNCHANGED <<md, todo, jobs, parent>>
       \/ /\ act.at = "item"
          /\ todo' = [todo EXCEPT ![i].status = "DONE"]
          /\ act' = [act EXCEPT !.at = "checkpoint"] /\ UNCHANGED <<md, jobs, parent>>
       \/ /\ act.at = "checkpoint" /\ (md.version = act.version \/ jobs[j].checkpoint)
          /\ jobs' = [jobs EXCEPT ![j].checkpoint = TRUE]
          /\ md' = [md EXCEPT !.version = IF jobs[j].checkpoint THEN @ ELSE @ + 1]
          /\ act' = [act EXCEPT !.at = "insert"] /\ UNCHANGED <<todo, parent>>
       \/ /\ act.at = "insert" /\ jobs' = [jobs EXCEPT ![j].reconciled = TRUE]
          /\ act' = [act EXCEPT !.at = "reconciled"] /\ UNCHANGED <<md, todo, parent>>
       \/ /\ \/ act.at = "check" /\ ~(Allows(act.token, jobs[j].epoch) /\ jobs[j].completed)
             \/ act.at = "checkpoint" /\ md.version # act.version /\ ~jobs[j].checkpoint
          /\ ActFails /\ UNCHANGED <<md, todo, jobs>>
    /\ UNCHANGED <<order, child, mail, kills>>

TakeReconciled ==
    /\ act.name = "reconcile" /\ act.at = "reconciled"
    /\ act' = NoAct
    /\ parent' = [parent EXCEPT !.pc = "top", !.version = act.version + 1, !.job = 0]
    /\ UNCHANGED <<md, todo, jobs, order, child, mail, kills>>

\* A worker is killed in an activity: it is run again from its beginning.
KillAct ==
    /\ kills < MaxKills /\ act.name \in {"prepare", "settle", "reconcile"}
    /\ act.at \notin {"begin", "again", "check"}
    /\ act' = [act EXCEPT !.at = IF act.name = "prepare" THEN "again" ELSE "check"]
    /\ kills' = kills + 1
    /\ UNCHANGED <<md, todo, jobs, order, parent, child, mail>>

-----------------------------------------------------------------------------
(* The child's run method.                                                   *)

Becomes(pc) == child' = [child EXCEPT !.pc = pc]
Ends(s) == child' = [child EXCEPT !.pc = "ended", !.status = s]

\* Its signal handlers: a notice of an older token is ignored.
ReadMail ==
    /\ mail # <<>> /\ child.pc # "ended"
    /\ mail' = Tail(mail)
    /\ LET n == Head(mail) IN
       child' = IF n.token < child.token THEN child
                ELSE [child EXCEPT !.token = n.token,
                         !.paused = CASE n.action = "PAUSE" -> TRUE
                                      [] n.action = "RETRY" -> @
                                      [] OTHER -> FALSE,
                         !.retry = @ \/ n.action = "RETRY",
                         !.handoff = @ \/ n.action = "HANDOFF"]
    /\ UNCHANGED <<md, todo, jobs, order, parent, act, kills>>

Works == [validate |-> "validating", stage |-> "waiting", finalize |-> "finalizing"]

\* _wait_until_runnable before and after an activity: a pause holds the child, a
\* handoff or a retry ends it; then the next activity is scheduled with the
\* token the child knows.
ChildGoesOn ==
    /\ child.pc \in {"validate", "stage", "finalize", "close"}
    /\ \/ child.handoff /\ Ends("superseded")
       \/ ~child.handoff /\ child.retry /\ Ends("retrying")
       \/ /\ ~child.handoff /\ ~child.retry /\ ~child.paused
          /\ IF child.pc = "close" THEN Ends("completed")
             ELSE child' = [child EXCEPT !.pc = Works[child.pc], !.deed = child.token]
    /\ UNCHANGED <<md, todo, jobs, order, parent, act, mail, kills>>

\* validate_autonomous_child_job
Validate ==
    /\ child.pc = "validating"
    /\ IF Allows(child.deed, jobs[child.job].epoch)
       THEN Becomes("stage") /\ jobs' = [jobs EXCEPT ![child.job].authorized = TRUE]
       ELSE Ends("failed") /\ UNCHANGED jobs
    /\ UNCHANGED <<md, todo, order, parent, act, mail, kills>>

HandoffPrepared(j) == \E c \in Orders : /\ order[c].action = "HANDOFF" /\ order[c].job = j
                                        /\ order[c].at \notin {"sent", "refused"}

\* execute_agentfactory_stage and _await_autonomous_stage_fence: the stage waits at
\* the fence, leaves at a handoff or a retry, and is admitted with the token
\* it finds there.
AdmitStage ==
    /\ child.pc = "waiting"
    /\ \/ HandoffPrepared(child.job) /\ Becomes("superseding")
       \/ /\ ~HandoffPrepared(child.job) /\ jobs[child.job].retry = "asked"
          /\ Becomes("retiring")
       \/ /\ ~HandoffPrepared(child.job) /\ jobs[child.job].retry # "asked"
          /\ md.disposition = "RUNNING" /\ md.epoch = jobs[child.job].epoch
          /\ Becomes("inferring")
    /\ UNCHANGED <<md, todo, jobs, order, parent, act, mail, kills>>

\* The result of such a stage passes _wait_until_runnable before it is looked at.
LeaveStage ==
    /\ child.pc \in {"superseding", "retiring"}
    /\ child.handoff \/ child.retry \/ ~child.paused
    /\ Ends(IF child.handoff THEN "superseded" ELSE IF child.retry THEN "retrying"
            ELSE IF child.pc = "superseding" THEN "superseded" ELSE "retrying")
    /\ UNCHANGED <<md, todo, jobs, order, parent, act, mail, kills>>

\* The provider's answer; its stages and repairs are one here.
FinishStage ==
    /\ child.pc = "inferring"
    /\ \/ Becomes("finalize") /\ jobs' = [jobs EXCEPT ![child.job].evidence = TRUE]
       \/ "stage" \in Failing /\ (Ends("failed") \/ Ends("attention")) /\ UNCHANGED jobs
    /\ UNCHANGED <<md, todo, order, parent, act, mail, kills>>

\* finalize_autonomous_child_job and complete_job: the scope is read, then the
\* completion inserted; one that exists is returned.
CheckScope ==
    /\ child.pc = "finalizing"
    /\ IF /\ Allows(child.deed, jobs[child.job].epoch)
          /\ jobs[child.job].authorized /\ jobs[child.job].evidence
       THEN Becomes("completing") ELSE Ends("failed")
    /\ UNCHANGED <<md, todo, jobs, order, parent, act, mail, kills>>

InsertCompletion ==
    /\ child.pc = "completing"
    /\ jobs' = [jobs EXCEPT ![child.job].completed = TRUE]
    /\ Becomes("completed")
    /\ UNCHANGED <<md, todo, order, parent, act, mail, kills>>

TakeCompleted ==
    /\ child.pc = "completed"
    /\ Becomes("close")
    /\ UNCHANGED <<md, todo, jobs, order, parent, act, mail, kills>>

KillFinalize ==
    /\ child.pc = "completed" /\ kills < MaxKills
    /\ Becomes("finalizing")
    /\ kills' = kills + 1
    /\ UNCHANGED <<md, todo, jobs, order, parent, act, mail>>

-----------------------------------------------------------------------------
DNext ==
    \/ \E c \in Orders : \/ \E a \in OrderActions : Order(c, a)
                         \/ ApplyOrder(c) \/ TakeResult(c) \/ TakePreparation(c)
                         \/ SeeChildGone(c) \/ CompleteHandoff(c) \/ TakeCompletion(c)
    \/ ReadControlFence \/ TakeFence \/ ScheduleEnter \/ EnterCheck \/ MakeTransition \/ TakePhase
    \/ SchedulePrepare \/ PrepareBegin \/ Choose \/ Reserve \/ InsertJob \/ TakePrepared
    \/ ScheduleComplete \/ CompleteCheck
    \/ StartChild \/ HoldChild \/ TakeChild \/ AfterHandoff
    \/ ScheduleSettle \/ Settle \/ TakeSettled
    \/ ScheduleReconcile \/ ReconcileItem \/ TakeReconciled \/ KillAct
    \/ ReadMail \/ ChildGoesOn \/ Validate \/ AdmitStage \/ LeaveStage \/ FinishStage
    \/ CheckScope \/ InsertCompletion \/ TakeCompleted \/ KillFinalize

DSpec == DInit /\ [][DNext]_dvars

-----------------------------------------------------------------------------
\* A child is either accepted or retried, and an item is accepted at most once in
\* an epoch, however pauses, retries and a kill come between the completion
\* and its report (complete_job, settle_retry, open_job).
AcceptedOnce ==
    \A j \in 1..Len(jobs) :
        /\ jobs[j].retry = "settled" => ~jobs[j].completed
        /\ \A k \in 1..(j - 1) :
              ~(/\ jobs[j].completed /\ jobs[k].completed
                /\ jobs[j].item = jobs[k].item /\ jobs[j].epoch = jobs[k].epoch)

\* docs/development/temporal.md: STOPPED is a resumable disposition, not a mission
\* failure.  A parent that only met the owner's commands goes on.
ContinuableAfterControl == parent.pc # "stuck"
=============================================================================
