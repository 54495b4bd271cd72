--------------------------- MODULE MissionPlanning ---------------------------
(* From a specification to an approved backlog: the planning pipeline and its *)
(* authority (autonomous_planning_pipeline.py, autonomous_authorization.py),  *)
(* the specification's head (mission_intake.py), verification of a proposal   *)
(* and its approval (autonomous_proposal_verifier.py,                         *)
(* autonomous_backlog_approval.py).                                           *)
(*                                                                            *)
(* A pipeline is executed by a command that may be repeated after a kill, or  *)
(* beside an execution that only seemed lost.  It invokes the roles in order, *)
(* each with a bounded number of attempts, closes its authority, and creates, *)
(* binds and completes one revision in transactions of their own; the owner   *)
(* may change the specification between any two of them.                      *)
EXTENDS Naturals, Sequences, FiniteSets

CONSTANTS
    PipelineRuns,   \* runs: a manifest and a planning authority, one of each
    RoleOrder,      \* the planning roles in their order
    Executors,      \* executions of the pipeline command
    Deciders,       \* calls of verify_and_present and approve_and_start
    MaxTries,       \* max_attempts_per_role
    MaxSources, MaxReports, MaxPlanVersion      \* bounds of the model

VARIABLES
    plan,           \* autonomous_missions before approval, and what it approved
    content,        \* the bytes of each specification source; the last is the head
    run,            \* a run: its manifest's source, its authority, how it ended
    tries,          \* its invocations of each role: whether each was valid
    proposals,      \* autonomous_backlog_revisions
    reports,        \* autonomous_proposal_verifications
    executor,       \* how far an execution is
    decision        \* a decision between its reading and its commit

plvars == <<plan, content, run, tries, proposals, reports, executor, decision>>

RoleSet == {RoleOrder[i] : i \in 1..Len(RoleOrder)}
CurrentSource == Len(content)
Stale(r) == run[r].source # CurrentSource
Preapproval == plan.phase # "approved"
Schedulable == Preapproval /\ plan.disposition = "RUNNING"
Closed(r) == run[r].authority \in {"completing", "failing", "owner"}
Artifacts(r) == {k \in RoleSet : \E i \in 1..Len(tries[r][k]) : tries[r][k][i]}
Resting == [pc |-> "idle"]

-----------------------------------------------------------------------------
PInit ==
    /\ plan = [version |-> 1, phase |-> "generation", disposition |-> "RUNNING", approved |-> 0]
    /\ content = <<1>>
    /\ run = [r \in PipelineRuns |-> [source |-> 0, authority |-> "none", started |-> FALSE,
                 revision |-> 0, bound |-> FALSE, completed |-> FALSE, failed |-> FALSE]]
    /\ tries = [r \in PipelineRuns |-> [k \in RoleSet |-> <<>>]]
    /\ proposals = <<>>
    /\ reports = <<>>
    /\ executor = [x \in Executors |-> Resting]
    /\ decision = [c \in Deciders |-> Resting]

\* create_manifest and grant_planning_authority: the run's source is the head.
PrepareRun(r) ==
    /\ run[r].source = 0 /\ Schedulable
    /\ run' = [run EXCEPT ![r].source = CurrentSource, ![r].authority = "open"]
    /\ UNCHANGED <<plan, content, tries, proposals, reports, executor, decision>>

\* close_planning_authority by the owner, or the authority's expiry, which
\* nobody records.
EndAuthority(r, how) ==
    /\ how \in {"owner", "expired"} /\ run[r].authority \in {"open", "expired"} \ {how}
    /\ run' = [run EXCEPT ![r].authority = how]
    /\ UNCHANGED <<plan, content, tries, proposals, reports, executor, decision>>

Goes(x, e) == executor' = [executor EXCEPT ![x] = e]
Raises(x) == Goes(x, Resting)

\* An exception of execute: over a stale manifest it fails the run.
RaisesOrFails(x) ==
    IF Stale(executor[x].run) THEN Goes(x, [executor[x] EXCEPT !.pc = "failing"]) ELSE Raises(x)

\* execute and _create_run: a new run is checked under the lock, an existing one
\* goes on with the artifacts it has; one that ended is answered at once.
StartRun(x, r) ==
    /\ executor[x].pc = "idle" /\ run[r].source # 0
    /\ ~run[r].completed /\ ~run[r].failed
    /\ run[r].started \/ (Schedulable /\ ~Stale(r) /\ ~Closed(r))
    /\ run' = [run EXCEPT ![r].started = TRUE]
    /\ Goes(x, [pc |-> "role", run |-> r, have |-> Artifacts(r), try |-> 0])
    /\ UNCHANGED <<plan, content, tries, proposals, reports, decision>>

NextRole(x) == RoleOrder[CHOOSE i \in 1..Len(RoleOrder) :
                            /\ RoleOrder[i] \notin executor[x].have
                            /\ \A j \in 1..(i - 1) : RoleOrder[j] \in executor[x].have]

\* _execute_role and create_context: the attempts are counted once, then by the
\* loop. Attempts used up and a stale manifest fail the run; a mission that may
\* not be planned makes the call raise and the run stays as it is.
AskRole(x) ==
    LET e == executor[x]
        n == IF e.try = 0 THEN Len(tries[e.run][NextRole(x)]) + 1 ELSE e.try
    IN
    /\ e.pc = "role" /\ e.have # RoleSet
    /\ \/ (n > MaxTries \/ Stale(e.run)) /\ Goes(x, [e EXCEPT !.pc = "failing"])
       \/ /\ n <= MaxTries /\ ~Stale(e.run)
          /\ IF Schedulable THEN Goes(x, [e EXCEPT !.pc = "asked", !.try = n]) ELSE Raises(x)
    /\ UNCHANGED <<plan, content, run, tries, proposals, reports, decision>>

\* _record_invocation: an attempt another execution recorded counts as it is; a
\* second artifact of a role violates its uniqueness.
RecordRole(x, valid) ==
    LET e == executor[x]
        k == NextRole(x)
        done == tries[e.run][k]
        counts == IF e.try <= Len(done) THEN done[e.try] ELSE valid
    IN
    /\ e.pc = "invoking"
    /\ IF Stale(e.run) THEN Goes(x, [e EXCEPT !.pc = "failing"]) /\ UNCHANGED tries
       ELSE IF e.try > Len(done) /\ valid /\ k \in Artifacts(e.run) THEN Raises(x) /\ UNCHANGED tries
       ELSE /\ tries' = IF e.try <= Len(done) THEN tries
                        ELSE [tries EXCEPT ![e.run][k] = Append(@, valid)]
            /\ Goes(x, IF counts THEN [e EXCEPT !.pc = "role", !.have = @ \cup {k}, !.try = 0]
                       ELSE [e EXCEPT !.pc = "role", !.try = @ + 1])
    /\ UNCHANGED <<plan, content, run, proposals, reports, decision>>

\* resolve, _resolve_planning: a decision for this one invocation.
AuthorizeRole(x) ==
    LET e == executor[x] IN
    /\ e.pc = "asked"
    /\ IF Schedulable /\ run[e.run].authority = "open"
       THEN Goes(x, [e EXCEPT !.pc = "invoking"]) ELSE RaisesOrFails(x)
    /\ UNCHANGED <<plan, content, run, tries, proposals, reports, decision>>

\* close_planning_authority after the last role, replayed by its command.
CloseAuthority(x) ==
    LET r == executor[x].run IN
    /\ executor[x].pc = "role" /\ executor[x].have = RoleSet
    /\ IF Closed(r) /\ run[r].authority # "completing" THEN RaisesOrFails(x) /\ UNCHANGED run
       ELSE /\ run' = [run EXCEPT ![r].authority = "completing"]
            /\ Goes(x, [executor[x] EXCEPT !.pc = "proposing"])
    /\ UNCHANGED <<plan, content, tries, proposals, reports, decision>>

\* _complete: create_revision, replayed by its command;
\* autonomous_planning_revision_source_valid asks for the head.
Propose(x) ==
    LET r == executor[x].run IN
    /\ executor[x].pc = "proposing"
    /\ \/ run[r].completed /\ Raises(x) /\ UNCHANGED <<run, proposals>>
       \/ /\ ~run[r].completed /\ run[r].revision = 0 /\ Stale(r)
          /\ RaisesOrFails(x) /\ UNCHANGED <<run, proposals>>
       \/ /\ ~run[r].completed /\ (run[r].revision # 0 \/ ~Stale(r))
          /\ IF run[r].revision # 0 THEN UNCHANGED <<run, proposals>>
             ELSE /\ proposals' = Append(proposals, [run |-> r, source |-> CurrentSource, invalid |-> FALSE])
                  /\ run' = [run EXCEPT ![r].revision = Len(proposals) + 1]
          /\ Goes(x, [executor[x] EXCEPT !.pc = "binding"])
    /\ UNCHANGED <<plan, content, tries, reports, decision>>

\* bind_revision: the manifest is current before and under the lock.
BindRevision(x) ==
    LET r == executor[x].run IN
    /\ executor[x].pc = "binding"
    /\ IF Stale(r) THEN RaisesOrFails(x) /\ UNCHANGED run
       ELSE /\ run' = [run EXCEPT ![r].bound = TRUE]
            /\ Goes(x, [executor[x] EXCEPT !.pc = "finishing"])
    /\ UNCHANGED <<plan, content, tries, proposals, reports, decision>>

\* autonomous_planning_completion_scope_valid
Completable(r) ==
    /\ run[r].bound /\ ~run[r].failed /\ ~Stale(r)
    /\ ~proposals[run[r].revision].invalid /\ Artifacts(r) = RoleSet

CompleteRun(x) ==
    LET r == executor[x].run IN
    /\ executor[x].pc = "finishing"
    /\ IF run[r].completed \/ ~Completable(r) THEN RaisesOrFails(x) /\ UNCHANGED run
       ELSE Raises(x) /\ run' = [run EXCEPT ![r].completed = TRUE]
    /\ UNCHANGED <<plan, content, tries, proposals, reports, decision>>

\* _close_and_fail: one that was closed otherwise is left so.
CloseFailed(x) ==
    LET r == executor[x].run IN
    /\ executor[x].pc = "failing"
    /\ run' = [run EXCEPT ![r].authority = IF Closed(r) THEN @ ELSE "failing"]
    /\ Goes(x, [executor[x] EXCEPT !.pc = "closed"])
    /\ UNCHANGED <<plan, content, tries, proposals, reports, decision>>

\* _fail_run, and autonomous_planning_failure_scope_valid.
FailRun(x) ==
    LET r == executor[x].run IN
    /\ executor[x].pc = "closed"
    /\ run' = [run EXCEPT ![r].failed = @ \/ ~run[r].completed]
    /\ Raises(x)
    /\ UNCHANGED <<plan, content, tries, proposals, reports, decision>>

KillExecutor(x) ==
    /\ executor[x].pc # "idle" /\ Raises(x)
    /\ UNCHANGED <<plan, content, run, tries, proposals, reports, decision>>

-----------------------------------------------------------------------------
Advance(new) == plan.version < MaxPlanVersion /\ plan' = [new EXCEPT !.version = plan.version + 1]

\* _attach of other content or another media type: revisions of other bytes are
\* invalidated and planning goes back a phase, which needs a running mission.
AttachSource(bytes) ==
    /\ Preapproval /\ CurrentSource < MaxSources
    /\ plan.phase = "analysis" \/ plan.disposition = "RUNNING"
    /\ content' = Append(content, bytes)
    /\ proposals' = [i \in 1..Len(proposals) |->
          [proposals[i] EXCEPT !.invalid = @ \/ content[proposals[i].source] # bytes]]
    /\ Advance([plan EXCEPT !.phase = IF plan.phase = "waiting" THEN "generation" ELSE "analysis"])
    /\ UNCHANGED <<run, tries, reports, executor, decision>>

\* create_revision by a person, whenever.
ReviseByHand ==
    /\ Len(proposals) <= Cardinality(PipelineRuns)
    /\ \A i \in 1..Len(proposals) : proposals[i].run \in PipelineRuns
    /\ proposals' = Append(proposals, [run |-> "none", source |-> CurrentSource, invalid |-> FALSE])
    /\ UNCHANGED <<plan, content, run, tries, reports, executor, decision>>

\* transition_phase and transition_disposition by the owner. Once a run has
\* completed, or a proposal was verified, the ways forward are theirs:
\* autonomous_waiting_requires_verified_proposal and the approval's trigger.
MovePlan(from, to) ==
    /\ Schedulable /\ plan.phase = from
    /\ \/ <<from, to>> \in {<<"analysis", "generation">>, <<"generation", "analysis">>,
                            <<"waiting", "generation">>}
       \/ <<from, to>> = <<"generation", "waiting">> /\ \A r \in PipelineRuns : ~run[r].completed
       \/ <<from, to>> = <<"waiting", "approved">> /\ reports = <<>>
    /\ Advance([plan EXCEPT !.phase = to])
    /\ UNCHANGED <<content, run, tries, proposals, reports, executor, decision>>

HoldPlan(d) ==
    /\ plan.disposition # d
    /\ Advance([plan EXCEPT !.disposition = d])
    /\ UNCHANGED <<content, run, tries, proposals, reports, executor, decision>>

-----------------------------------------------------------------------------
\* verify_and_present: every check is made on the reading; the proposal's own
\* content passes or not.
ReadVerify(c, r, passes) ==
    /\ decision[c].pc = "idle" /\ run[r].completed /\ plan.phase \in {"analysis", "generation"}
    /\ decision' = [decision EXCEPT ![c] = [pc |-> "verify", run |-> r, version |-> plan.version,
          ready |-> passes /\ ~Stale(r) /\ ~proposals[run[r].revision].invalid /\ Schedulable]]
    /\ UNCHANGED <<plan, content, run, tries, proposals, reports, executor>>

\* autonomous_ready_proposal_scope_valid
Presentable(r) ==
    /\ plan.phase = "generation" /\ plan.disposition = "RUNNING"
    /\ ~Stale(r) /\ ~proposals[run[r].revision].invalid

CommitVerify(c) ==
    LET d == decision[c] IN
    /\ d.pc = "verify" /\ d.version = plan.version
    /\ Len(reports) < MaxReports
    /\ d.ready => Presentable(d.run)
    /\ reports' = Append(reports, [run |-> d.run, revision |-> run[d.run].revision, ready |-> d.ready,
                                   result |-> IF d.ready THEN plan.version + 1 ELSE 0])
    /\ IF d.ready THEN Advance([plan EXCEPT !.phase = "waiting"]) ELSE UNCHANGED plan
    /\ decision' = [decision EXCEPT ![c] = Resting]
    /\ UNCHANGED <<content, run, tries, proposals, executor>>

\* What approve_and_start asks of the report it is to approve.
Approvable(v) ==
    /\ reports[v].ready /\ plan.approved = 0
    /\ plan.phase = "waiting" /\ plan.disposition = "RUNNING"
    /\ reports[v].result = plan.version
    /\ reports[v].revision = Len(proposals) /\ ~proposals[reports[v].revision].invalid
    /\ ~Stale(reports[v].run)

ReadApprove(c, v) ==
    /\ decision[c].pc = "idle" /\ Approvable(v)
    /\ decision' = [decision EXCEPT ![c] = [pc |-> "approve", report |-> v]]
    /\ UNCHANGED <<plan, content, run, tries, proposals, reports, executor>>

\* Mutant: what the reading found is not asked again.
StillApprovableAsRead(v) == plan.approved = 0

\* approve_and_start under its lock.
StillApprovable(v) == Approvable(v)

CommitApprove(c) ==
    LET d == decision[c] IN
    /\ d.pc = "approve" /\ StillApprovable(d.report)
    /\ Advance([plan EXCEPT !.phase = "approved", !.approved = d.report])
    /\ decision' = [decision EXCEPT ![c] = Resting]
    /\ UNCHANGED <<content, run, tries, proposals, reports, executor>>

GiveUp(c) ==
    /\ decision[c].pc # "idle"
    /\ decision' = [decision EXCEPT ![c] = Resting]
    /\ UNCHANGED <<plan, content, run, tries, proposals, reports, executor>>

PNext ==
    \/ \E r \in PipelineRuns : PrepareRun(r) \/ \E how \in {"owner", "expired"} : EndAuthority(r, how)
    \/ \E x \in Executors :
          \/ \E r \in PipelineRuns : StartRun(x, r)
          \/ AskRole(x) \/ AuthorizeRole(x) \/ (\E valid \in BOOLEAN : RecordRole(x, valid))
          \/ CloseAuthority(x) \/ Propose(x) \/ BindRevision(x) \/ CompleteRun(x)
          \/ CloseFailed(x) \/ FailRun(x) \/ KillExecutor(x)
    \/ \E bytes \in {1, 2} : AttachSource(bytes)
    \/ ReviseByHand
    \/ \E from, to \in {"analysis", "generation", "waiting", "approved"} : MovePlan(from, to)
    \/ \E d \in {"RUNNING", "STOPPED"} : HoldPlan(d)
    \/ \E c \in Deciders :
          \/ \E r \in PipelineRuns, passes \in BOOLEAN : ReadVerify(c, r, passes)
          \/ \E v \in 1..Len(reports) : ReadApprove(c, v)
          \/ CommitVerify(c) \/ CommitApprove(c) \/ GiveUp(c)

PSpec == PInit /\ [][PNext]_plvars

-----------------------------------------------------------------------------
\* Types of the planning tables and of the executions under way.
PTypeOK ==
    /\ plan \in [version : 1..MaxPlanVersion, phase : {"analysis", "generation", "waiting", "approved"},
                 disposition : {"RUNNING", "STOPPED"}, approved : 0..MaxReports]
    /\ content \in Seq({1, 2})
    /\ run \in [PipelineRuns -> [source : 0..MaxSources, started : BOOLEAN, revision : Nat,
          authority : {"none", "open", "expired", "completing", "failing", "owner"},
          bound : BOOLEAN, completed : BOOLEAN, failed : BOOLEAN]]
    /\ tries \in [PipelineRuns -> [RoleSet -> Seq(BOOLEAN)]]
    /\ \A x \in Executors : executor[x].pc \in {"idle", "role", "asked", "invoking", "proposing", "binding",
                                                "finishing", "failing", "closed"}

\* docs/autonomous-mission-planning.md: a failed run closes its authority and
\* cannot "leave a partial proposal that looks complete". With two executions of
\* a command at work and killed at any step, no run both fails and completes, a
\* completed one has every role's artifact and its revision, and neither keeps
\* an authority to invoke anybody.
NoPartialProposal ==
    \A r \in PipelineRuns :
        /\ ~(run[r].completed /\ run[r].failed)
        /\ run[r].completed \/ run[r].failed => Closed(r)
        /\ run[r].completed => /\ Artifacts(r) = RoleSet /\ run[r].bound
                               /\ proposals[run[r].revision].run = r

\* A mission is approved on one verified proposal, planned in a run that
\* completed from the specification that is still in force; changing the
\* specification, the proposal or the phase between verification, presentation
\* and approval gets in the way.
ApprovedFromCurrentSource ==
    plan.approved # 0 =>
        LET v == reports[plan.approved] IN
        /\ v.ready /\ run[v.run].completed /\ ~run[v.run].failed
        /\ ~Stale(v.run) /\ ~proposals[v.revision].invalid

\* The two together: no approval of a proposal that is partial or out of date.
ProposalsSound == NoPartialProposal /\ ApprovedFromCurrentSource
=============================================================================
