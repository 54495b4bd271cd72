---------------------------- MODULE MissionControl ----------------------------
(***************************************************************************)
(* MissionControlFenceService of control_plane.py with the disposition     *)
(* transitions of autonomous_mission.py and the callers that perform       *)
(* operations under it.  Every operation of a mission is admitted under    *)
(* the token of the control fence it was scheduled with and holds a lease  *)
(* until it is over; pause, resume, stop and retry are commands bound to   *)
(* the mission version and token their sender saw.                         *)
(*                                                                         *)
(* Each method is a read or two followed by one transaction under SQLite's *)
(* write lock; the steps below are those transactions.                     *)
(***************************************************************************)
EXTENDS Integers, FiniteSets

CONSTANTS
    Ops,            \* operation ids
    ChildOps,       \* those of the child job a retry supersedes
    Sweeping,       \* those whose caller finishes the lease also when refused
    Overlapping,    \* those Temporal executes again beside or after an execution
    Runners,        \* executions of an operation
    Does,           \* the operation each executes
    Mortal,         \* the executions that may be killed
    Commands,       \* ids of control commands
    MaxVersion      \* bound of the model: versions other changes lead to

ASSUME ControlAssumption ==
    /\ ChildOps \subseteq Ops /\ Sweeping \subseteq Ops /\ Overlapping \subseteq Ops
    /\ Does \in [Runners -> Ops]
    /\ Mortal \subseteq Runners
    /\ MaxVersion \in Nat

VARIABLES
    version,        \* autonomous_missions.version
    disposition,    \* autonomous_missions.disposition, and that of the fence
    epoch,          \* autonomous_missions.active_execution_epoch_id
    token,          \* autonomous_mission_control_fences.fencing_token
    fenced,         \* the execution epoch of the control fence
    retried,        \* whether the child has a retry request
    lease,          \* autonomous_mission_operation_leases.status, "none" without a row
    claim,          \* the fence an operation was scheduled with, bound by its digest
    pc,             \* how far an execution is
    cmd             \* the control commands and what their senders saw

vars == <<version, disposition, epoch, token, fenced, retried, lease, claim, pc, cmd>>
mission == <<version, disposition, epoch>>
fence == <<token, fenced, retried>>
executions == <<claim, pc>>

-----------------------------------------------------------------------------
Actions == {"PAUSE", "RESUME", "STOP", "RETRY"}
Dispositions == {"RUNNING", "PAUSED", "STOPPED"}
Unbound == [token |-> 0, epoch |-> 0, disposition |-> "RUNNING"]
Unsent == [at |-> "unsent", action |-> "PAUSE", version |-> 0, token |-> 0, epoch |-> 0]

ReleasingAtOnce(ops) ==
    [op \in Ops |-> IF op \in ops /\ lease[op] = "ACTIVE" THEN "RELEASED" ELSE lease[op]]

\* Leases of these operations are asked to end at their next boundary.
Releasing(ops) ==
    [op \in Ops |-> IF op \in ops /\ lease[op] = "ACTIVE" THEN "RELEASING" ELSE lease[op]]

\* The token of a new scope.
NextToken == token + 1

\* current: the fence follows the mission row.
Reconcile ==
    /\ fenced' = epoch
    /\ token' = IF fenced # epoch THEN NextToken ELSE token
    /\ lease' = IF fenced # epoch THEN Releasing(Ops) ELSE lease
    /\ UNCHANGED retried

Init ==
    /\ version = 1 /\ disposition = "RUNNING" /\ epoch = 1
    /\ token = 1 /\ fenced = 1 /\ retried = FALSE
    /\ lease = [op \in Ops |-> "none"]
    /\ claim = [op \in Ops |-> Unbound]
    /\ pc = [r \in Runners |-> "idle"]
    /\ cmd = [c \in Commands |-> Unsent]

-----------------------------------------------------------------------------
\* An operation is scheduled: its id, and its request, carry the fence read now.
Schedule(op) ==
    /\ claim[op] = Unbound
    /\ claim' = [claim EXCEPT ![op] =
                    [token |-> token, epoch |-> fenced, disposition |-> disposition]]
    /\ UNCHANGED <<mission, fence, lease, pc, cmd>>

\* What begin_operation requires of the mission and of this fence.
Admits(op, tok, ep) ==
    disposition = "RUNNING" /\ claim[op].token = tok /\ claim[op].epoch = ep

\* The comparison under the lock.
StillAdmits(op) == Admits(op, token, epoch)

\* Where a refused caller goes: its finally block may finish the operation.
Refusal(r) == IF Does[r] \in Sweeping THEN "leaving" ELSE "over"

\* An execution follows one that was killed, unless Temporal timed that out or
\* lost its answer.
MayExecute(r) ==
    \A s \in Runners : s # r /\ Does[s] = Does[r] =>
        Does[r] \in Overlapping \/ pc[s] \in {"idle", "killed"}

\* assert_allows: the fence is brought up to date and the claim compared.
Ask(r) ==
    /\ pc[r] = "idle" /\ claim[Does[r]] # Unbound /\ MayExecute(r)
    /\ Reconcile
    /\ pc' = [pc EXCEPT ![r] =
                 IF Admits(Does[r], token', fenced') THEN "asked" ELSE Refusal(r)]
    /\ UNCHANGED <<mission, claim, cmd>>

\* begin_operation, under the lock: a row that exists answers whatever its
\* status is, otherwise an ACTIVE one is inserted.
Begin(r) ==
    LET op == Does[r] IN
    /\ pc[r] = "asked"
    /\ \/ /\ StillAdmits(op)
          /\ lease' = [lease EXCEPT ![op] = IF @ = "none" THEN "ACTIVE" ELSE @]
          /\ pc' = [pc EXCEPT ![r] = "running"]
       \/ /\ ~StillAdmits(op)
          /\ pc' = [pc EXCEPT ![r] = Refusal(r)]
          /\ UNCHANGED lease
    /\ UNCHANGED <<mission, fence, claim, cmd>>

\* The operation reached its boundary.
Work(r) ==
    /\ pc[r] = "running"
    /\ pc' = [pc EXCEPT ![r] = "leaving"]
    /\ UNCHANGED <<mission, fence, lease, claim, cmd>>

\* Mutant: only an ACTIVE lease is finished.
FinishedIfActive(status) == IF status = "ACTIVE" THEN "FINISHED" ELSE status

\* The status finish_operation leaves behind.
Finished(status) ==
    CASE status = "RELEASING" -> "RELEASED"
      [] status = "ACTIVE" -> "FINISHED"
      [] OTHER -> status

\* finish_operation.
Finish(r) ==
    /\ pc[r] = "leaving"
    /\ lease' = [lease EXCEPT ![Does[r]] = Finished(@)]
    /\ pc' = [pc EXCEPT ![r] = "over"]
    /\ UNCHANGED <<mission, fence, claim, cmd>>

\* The process that executes an operation is killed.
Kill(r) ==
    /\ r \in Mortal /\ pc[r] \in {"asked", "running", "leaving"}
    /\ pc' = [pc EXCEPT ![r] = "killed"]
    /\ UNCHANGED <<mission, fence, lease, claim, cmd>>

-----------------------------------------------------------------------------
\* A command is sent with the version, token and epoch its sender sees.
Send(c, action) ==
    /\ cmd[c].at = "unsent"
    /\ cmd' = [cmd EXCEPT ![c] = [at |-> "sent", action |-> action, version |-> version,
                                  token |-> token, epoch |-> fenced]]
    /\ UNCHANGED <<mission, fence, lease, executions>>

\* Mutant: a resume does not wait.
SafeToResumeAlways == TRUE

SafeToResume == \A op \in Ops : lease[op] # "RELEASING"

\* The command names the mission as it is, and this token.
SawAll(c, tok) == cmd[c].version = version /\ cmd[c].token = tok /\ cmd[c].epoch = epoch

\* apply, outside the lock: the claims are compared with a fence brought up to
\* date, and a resume waits for the leases being released.
Check(c) ==
    /\ cmd[c].at = "sent"
    /\ Reconcile
    /\ LET good == /\ SawAll(c, token')
                   /\ cmd[c].action = "RESUME" => SafeToResume
       IN cmd' = [cmd EXCEPT ![c].at = IF good THEN "checked" ELSE "refused"]
    /\ UNCHANGED <<mission, executions>>

\* Mutant: what was compared before the lock is not compared under it.
CurrentUnread(c) == TRUE

\* The comparison under the lock.
Current(c) == SawAll(c, token)

\* The disposition transitions of lifecycle.py a control command can ask for.
Target(action) ==
    CASE action = "PAUSE" -> "PAUSED" [] action = "STOP" -> "STOPPED" [] OTHER -> "RUNNING"
Allowed ==
    {<<"RUNNING", "PAUSED">>, <<"RUNNING", "STOPPED">>, <<"PAUSED", "RUNNING">>,
     <<"PAUSED", "STOPPED">>, <<"STOPPED", "RUNNING">>}

\* AutonomousMissionService._transition for PAUSE, RESUME and STOP.
Transition(c) ==
    LET to == Target(cmd[c].action) IN
    /\ cmd[c].at = "checked" /\ cmd[c].action # "RETRY"
    /\ Current(c) /\ <<disposition, to>> \in Allowed
    /\ version' = version + 1
    /\ disposition' = to
    /\ token' = NextToken
    /\ fenced' = epoch
    /\ lease' = IF to = "STOPPED" THEN Releasing(Ops) ELSE lease
    /\ cmd' = [cmd EXCEPT ![c].at = "applied"]
    /\ UNCHANGED <<epoch, retried, executions>>

\* _apply_retry: the child's operations are released under a new token.
Retry(c) ==
    /\ cmd[c].at = "checked" /\ cmd[c].action = "RETRY"
    /\ Current(c) /\ disposition = "RUNNING" /\ ~retried
    /\ token' = NextToken
    /\ retried' = TRUE
    /\ lease' = Releasing(ChildOps)
    /\ cmd' = [cmd EXCEPT ![c].at = "applied"]
    /\ UNCHANGED <<mission, fenced, executions>>

\* The transaction refuses what is stale or not allowed.
Refuse(c) ==
    /\ cmd[c].at = "checked"
    /\ \/ ~Current(c)
       \/ cmd[c].action = "RETRY" /\ (disposition # "RUNNING" \/ retried)
       \/ cmd[c].action # "RETRY" /\ <<disposition, Target(cmd[c].action)>> \notin Allowed
    /\ cmd' = [cmd EXCEPT ![c].at = "refused"]
    /\ UNCHANGED <<mission, fence, lease, executions>>

\* _transition for transition_phase, a change that is no control command.
OtherChange ==
    /\ version < MaxVersion /\ disposition = "RUNNING"
    /\ version' = version + 1
    /\ fenced' = epoch
    /\ token' = IF fenced # epoch THEN NextToken ELSE token
    /\ UNCHANGED <<disposition, epoch, retried, lease, executions, cmd>>

Next ==
    \/ \E op \in Ops : Schedule(op)
    \/ \E r \in Runners : Ask(r) \/ Begin(r) \/ Work(r) \/ Finish(r) \/ Kill(r)
    \/ \E c \in Commands :
          \/ \E action \in Actions : Send(c, action)
          \/ Check(c) \/ Transition(c) \/ Retry(c) \/ Refuse(c)
    \/ OtherChange

Spec == Init /\ [][Next]_vars

\* Executions go on unless they are killed, and Temporal retries what was
\* killed; how commands are sent is left open.
Retries(r) == Ask(r) /\ \E s \in Runners : Does[s] = Does[r] /\ pc[s] = "killed"
Fairness == \A r \in Runners : WF_vars(Begin(r)) /\ WF_vars(Work(r)) /\ WF_vars(Finish(r))
                                /\ WF_vars(Retries(r))
FairSpec == Spec /\ Fairness

-----------------------------------------------------------------------------
Open == {"ACTIVE", "RELEASING"}

\* Types of the tables' columns and of the callers' variables.
TypeOK ==
    /\ version \in Nat /\ disposition \in Dispositions /\ epoch \in Nat
    /\ token \in Nat /\ fenced \in Nat /\ retried \in BOOLEAN
    /\ lease \in [Ops -> Open \cup {"none", "FINISHED", "RELEASED"}]
    /\ claim \in [Ops -> [token : Nat, epoch : Nat, disposition : Dispositions]]
    /\ pc \in [Runners -> {"idle", "asked", "running", "leaving", "over", "killed"}]
    /\ cmd \in [Commands -> [at : {"unsent", "sent", "checked", "applied", "refused"},
                             action : Actions, version : Nat, token : Nat, epoch : Nat]]

\* An operation at work holds a lease, so that a stop, a retry and a handoff
\* see it, whoever was killed or refused before.
WorkHoldsLease == \A r \in Runners : pc[r] = "running" => lease[Does[r]] \in Open

\* Under a stop nothing holds a lease that was not asked to end, also when its
\* caller compared the fence before the stop.
StopReleasesAll == disposition = "STOPPED" => \A op \in Ops : lease[op] # "ACTIVE"

\* A token names one scope: who was scheduled with the token of the fence was
\* scheduled under the disposition and epoch of the fence.
TokenNamesScope ==
    \A op \in Ops : claim[op].token = token =>
        claim[op].epoch = fenced /\ claim[op].disposition = disposition

\* The inductive invariant: the properties above and what they rest on.  One
\* execution of an operation is between asking and its end, and a lease ends
\* only with it; nobody saw a token the fence has yet to reach; and a resume
\* that was checked and is still current still finds no lease being released,
\* since none is asked to end without a new token.
Alone ==
    \A r, s \in Runners : r # s /\ Does[r] = Does[s] /\ pc[r] \notin {"idle", "killed"} =>
        pc[s] \in {"idle", "killed"}
EndsWithWork ==
    \A op \in Ops : lease[op] \in {"FINISHED", "RELEASED"} =>
        \E r \in Runners : Does[r] = op /\ pc[r] = "over"
TokensSeen ==
    /\ token > 0
    /\ \A op \in Ops : claim[op].token <= token
    /\ \A c \in Commands : cmd[c].token <= token
ResumeStillSafe ==
    \A c \in Commands :
        cmd[c].at = "checked" /\ cmd[c].action = "RESUME" /\ cmd[c].token = token =>
            SafeToResume
IInv ==
    /\ TypeOK
    /\ Alone /\ EndsWithWork /\ WorkHoldsLease
    /\ StopReleasesAll
    /\ TokensSeen /\ TokenNamesScope
    /\ ResumeStillSafe

\* "Mission cannot resume before stop/retry operations reach a safe boundary":
\* nothing admitted before a stop, nor an operation a retry superseded, is
\* still at work when the mission resumes.
ResumeAtBoundary ==
    [][disposition # "RUNNING" /\ disposition' = "RUNNING" =>
          \A r \in Runners : pc[r] = "running" =>
              disposition = "PAUSED" /\ lease[Does[r]] = "ACTIVE"]_vars

\* A stopped mission can be resumed in the end: no lease stays open for ever,
\* however many executions are killed.
StopSettles == disposition = "STOPPED" ~>
                  disposition # "STOPPED" \/ \A op \in Ops : lease[op] \notin Open

\* The fence implements a gate over the operations at work.
AtWork == {r \in Runners : pc[r] = "running"}
Mode == CASE disposition = "RUNNING" -> "open" [] disposition = "PAUSED" -> "held"
          [] OTHER -> "shut"
Gate == INSTANCE MissionGate WITH Workers <- Runners, gate <- Mode, inside <- AtWork, age <- epoch
RefinesGate == Gate!Spec
=============================================================================
