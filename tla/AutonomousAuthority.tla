------------------------- MODULE AutonomousAuthority -------------------------
(* The authority an approved mission executes under                           *)
(* (autonomous_authorization.py): granted for one revision, epoch and policy, *)
(* revoked by the owner, carried to a new epoch by a handoff, and consulted   *)
(* again for every job and every attempt of a live stage (coding_delivery.py). *)
(*                                                                            *)
(* A grant reads the mission and the policy before it takes the write lock and *)
(* compares them under it; a decision reads everything and is recorded in one *)
(* transaction, and what is made of it is written in the next.                *)
EXTENDS Naturals, Sequences, FiniteSets

CONSTANTS
    Carriers,       \* processes that complete the handoff
    Stagers,        \* activity workers that authorize jobs and stages
    StageAgents,    \* agents a worker may be configured with for the stage
    MaxPolicy, MaxRevs, MaxHandoffs, MaxJobs    \* bounds of the model

ASSUME AuthorityAssumption ==
    /\ "none" \notin StageAgents
    /\ {MaxPolicy, MaxRevs, MaxHandoffs, MaxJobs} \subseteq Nat

VARIABLES
    am,         \* the mission: active revision and epoch, phase, disposition
    revs,       \* its backlog revisions: origin, and whether a human stands behind it
    bases,      \* epochs: the revision each is bound to
    policy,     \* policy_state
    grants,     \* autonomous_local_authorizations with their revocations
    handoff,    \* the handoff under way and the commands it has completed
    carry,      \* a carrier's reading
    jobs,       \* autonomous_child_jobs with their authorization and stage assignment
    stager,     \* what each worker is at
    given       \* agents handed out with a provider authorization, by job

aavars == <<am, revs, bases, policy, grants, handoff, carry, jobs, stager, given>>

NoStager == [pc |-> "idle"]

AAInit ==
    /\ am = [rev |-> 1, epoch |-> 1, phase |-> "exec", run |-> TRUE]
    /\ revs = <<[origin |-> "human", human |-> TRUE]>>
    /\ bases = <<1>>
    /\ policy = [version |-> 1, stop |-> FALSE]
    /\ grants = <<[rev |-> 1, epoch |-> 1, version |-> 1, revoked |-> FALSE]>>
    /\ handoff = [open |-> FALSE, rev |-> 1, from |-> 1, epoch |-> 0, grant |-> 0]
    /\ carry = [c \in Carriers |-> NoStager]
    /\ jobs = <<>>
    /\ stager = [w \in Stagers |-> NoStager]
    /\ given = <<>>

-----------------------------------------------------------------------------
\* An agent's material revision that came after revision r.
MaterialAfter(r) == \E n \in DOMAIN revs : n > r /\ revs[n].origin = "material"

\* Mutant: the decision does not compare the epoch.
CoversAnyEpoch(g) ==
    /\ ~grants[g].revoked
    /\ grants[g].version = policy.version
    /\ grants[g].rev = am.rev
    /\ ~MaterialAfter(grants[g].rev)

\* _resolve_execution: the grant is the exact scope of this moment.
Covers(g) ==
    /\ ~grants[g].revoked
    /\ grants[g].version = policy.version
    /\ grants[g].rev = am.rev /\ grants[g].epoch = am.epoch
    /\ ~MaterialAfter(grants[g].rev)

\* For a job: its own revision and epoch are the request's.
Allows(j) ==
    /\ Covers(jobs[j].grant)
    /\ am.phase = "exec" /\ am.run

-----------------------------------------------------------------------------
\* Emergency stop, and its end.
SwitchPolicy ==
    /\ policy.version < MaxPolicy
    /\ policy' = [version |-> policy.version + 1, stop |-> ~policy.stop]
    /\ UNCHANGED <<am, revs, bases, grants, handoff, carry, jobs, stager, given>>

RevokeAuthority(g) ==
    /\ ~grants[g].revoked
    /\ grants' = [grants EXCEPT ![g].revoked = TRUE]
    /\ UNCHANGED <<am, revs, bases, policy, handoff, carry, jobs, stager, given>>

\* create_revision by an agent; apply_revision of it leaves the execution phases.
ProposeMaterial ==
    /\ Len(revs) < MaxRevs
    /\ revs' = Append(revs, [origin |-> "material", human |-> FALSE])
    /\ UNCHANGED <<am, bases, policy, grants, handoff, carry, jobs, stager, given>>

RouteMaterial ==
    /\ am.phase = "exec" /\ am.run /\ revs[Len(revs)].origin = "material"
    /\ am' = [am EXCEPT !.phase = "waiting"]
    /\ UNCHANGED <<revs, bases, policy, grants, handoff, carry, jobs, stager, given>>

\* A human revision, created and applied.
ApplyHuman ==
    /\ am.phase = "exec" /\ am.run /\ Len(revs) < MaxRevs
    /\ revs' = Append(revs, [origin |-> "human", human |-> TRUE])
    /\ am' = [am EXCEPT !.rev = Len(revs')]
    /\ UNCHANGED <<bases, policy, grants, handoff, carry, jobs, stager, given>>

\* The owner's stop and resume.
Control(run) ==
    /\ am.run # run /\ am' = [am EXCEPT !.run = run]
    /\ UNCHANGED <<revs, bases, policy, grants, handoff, carry, jobs, stager, given>>

-----------------------------------------------------------------------------
\* begin_epoch_handoff: the mission is stopped for a new epoch of its revision.
BeginHandoff ==
    /\ ~handoff.open /\ am.phase = "exec" /\ Len(bases) <= MaxHandoffs
    /\ handoff' = [open |-> TRUE, rev |-> am.rev, from |-> am.epoch, epoch |-> 0, grant |-> 0]
    /\ am' = [am EXCEPT !.run = FALSE]
    /\ UNCHANGED <<revs, bases, policy, grants, carry, jobs, stager, given>>

CarryTo(c, to) == carry' = [carry EXCEPT ![c] = to]

\* complete_epoch_handoff: the epoch, made by whoever comes first.
CarryEpoch(c) ==
    /\ carry[c].pc = "idle" /\ handoff.open
    /\ IF handoff.epoch # 0
       THEN UNCHANGED <<am, bases, handoff>>
       ELSE /\ ~am.run /\ am.rev = handoff.rev /\ am.epoch = handoff.from
            /\ bases' = Append(bases, am.rev)
            /\ am' = [am EXCEPT !.epoch = Len(bases')]
            /\ handoff' = [handoff EXCEPT !.epoch = Len(bases')]
    /\ CarryTo(c, [pc |-> "read"])
    /\ UNCHANGED <<revs, policy, grants, jobs, stager, given>>

\* What a grant demands of the mission and its revision, at its reading and again
\* under the lock.
Grantable ==
    /\ am.phase = "exec" /\ am.rev = handoff.rev /\ am.epoch = handoff.epoch
    /\ revs[am.rev].human /\ ~MaterialAfter(am.rev)

\* grant_execution_authority: the command replays, or the scope is read.
GrantRead(c) ==
    /\ carry[c].pc = "read"
    /\ \/ handoff.grant # 0 /\ CarryTo(c, [pc |-> "resume"])
       \/ /\ handoff.grant = 0
          /\ IF Grantable /\ bases[handoff.epoch] = am.rev /\ ~policy.stop
             THEN CarryTo(c, [pc |-> "commit", version |-> policy.version])
             ELSE CarryTo(c, NoStager)
    /\ UNCHANGED <<am, revs, bases, policy, grants, handoff, jobs, stager, given>>

\* One grant for a mission, revision, epoch and policy, also a revoked one.
Unique(version) ==
    ~\E g \in DOMAIN grants : grants[g].rev = am.rev /\ grants[g].epoch = am.epoch
                              /\ grants[g].version = version

GrantCommit(c) ==
    /\ carry[c].pc = "commit"
    /\ \/ handoff.grant # 0 /\ CarryTo(c, [pc |-> "resume"]) /\ UNCHANGED <<grants, handoff>>
       \/ /\ handoff.grant = 0
          /\ IF Grantable /\ policy.version = carry[c].version /\ Unique(carry[c].version)
             THEN /\ grants' = Append(grants, [rev |-> am.rev, epoch |-> am.epoch,
                                               version |-> carry[c].version, revoked |-> FALSE])
                  /\ handoff' = [handoff EXCEPT !.grant = Len(grants')]
                  /\ CarryTo(c, [pc |-> "resume"])
             ELSE CarryTo(c, NoStager) /\ UNCHANGED <<grants, handoff>>
    /\ UNCHANGED <<am, revs, bases, policy, jobs, stager, given>>

CarryResume(c) ==
    /\ carry[c].pc = "resume"
    /\ am' = IF handoff.open THEN [am EXCEPT !.run = TRUE] ELSE am
    /\ handoff' = [handoff EXCEPT !.open = FALSE]
    /\ CarryTo(c, NoStager)
    /\ UNCHANGED <<revs, bases, policy, grants, jobs, stager, given>>

KillCarrier(c) ==
    /\ carry[c].pc # "idle" /\ CarryTo(c, NoStager)
    /\ UNCHANGED <<am, revs, bases, policy, grants, handoff, jobs, stager, given>>

-----------------------------------------------------------------------------
\* The grants prepare_job chooses from, and its trigger demands.
ForScope == {g \in DOMAIN grants : ~grants[g].revoked /\ grants[g].rev = am.rev
                                   /\ grants[g].epoch = am.epoch}

PrepareJob ==
    /\ Len(jobs) < MaxJobs /\ am.phase = "exec" /\ am.run
    /\ \E g \in ForScope :
          /\ \A h \in ForScope : h <= g
          /\ jobs' = Append(jobs, [grant |-> g, child |-> FALSE, agent |-> "none"])
    /\ given' = Append(given, {})
    /\ UNCHANGED <<am, revs, bases, policy, grants, handoff, carry, stager>>

StageTo(w, to) == stager' = [stager EXCEPT ![w] = to]

\* authorize_job: an earlier authorization answers, otherwise a decision.
DecideJob(w, j) ==
    /\ stager[w].pc = "idle" /\ ~jobs[j].child /\ Allows(j)
    /\ StageTo(w, [pc |-> "child", job |-> j])
    /\ UNCHANGED <<am, revs, bases, policy, grants, handoff, carry, jobs, given>>

RecordJob(w) ==
    /\ stager[w].pc = "child"
    /\ jobs' = [jobs EXCEPT ![stager[w].job].child = TRUE]
    /\ StageTo(w, NoStager)
    /\ UNCHANGED <<am, revs, bases, policy, grants, handoff, carry, given>>

\* authorize_stage: the agent a worker proposes must be the one of the attempt
\* before.
ViewStage(w, j, a) ==
    /\ stager[w].pc = "idle" /\ jobs[j].child
    /\ jobs[j].agent \in {"none", a}
    /\ StageTo(w, [pc |-> "decide", job |-> j, agent |-> a])
    /\ UNCHANGED <<am, revs, bases, policy, grants, handoff, carry, jobs, given>>

DecideStage(w) ==
    /\ stager[w].pc = "decide"
    /\ IF Allows(stager[w].job) THEN StageTo(w, [stager[w] EXCEPT !.pc = "assign"])
                                ELSE StageTo(w, NoStager)
    /\ UNCHANGED <<am, revs, bases, policy, grants, handoff, carry, jobs, given>>

Assignable(w) == jobs[stager[w].job].agent \in {"none", stager[w].agent}

\* provider_authorization, for the decision that was just made.
HandOut(o) == given' = [given EXCEPT ![o.job] = @ \cup {o.agent}]

AssignStage(w) ==
    LET o == stager[w] IN
    /\ o.pc = "assign"
    /\ IF Assignable(w)
       THEN /\ jobs' = [jobs EXCEPT ![o.job].agent = IF @ = "none" THEN o.agent ELSE @]
            /\ HandOut(o)
       ELSE UNCHANGED <<jobs, given>>
    /\ StageTo(w, NoStager)
    /\ UNCHANGED <<am, revs, bases, policy, grants, handoff, carry>>

AANext ==
    \/ SwitchPolicy \/ ProposeMaterial \/ RouteMaterial \/ ApplyHuman \/ BeginHandoff
    \/ \E g \in DOMAIN grants : RevokeAuthority(g)
    \/ \E run \in BOOLEAN : Control(run)
    \/ \E c \in Carriers :
          CarryEpoch(c) \/ GrantRead(c) \/ GrantCommit(c) \/ CarryResume(c) \/ KillCarrier(c)
    \/ PrepareJob
    \/ \E w \in Stagers :
          \/ RecordJob(w) \/ DecideStage(w) \/ AssignStage(w)
          \/ \E j \in DOMAIN jobs :
                DecideJob(w, j) \/ \E a \in StageAgents : ViewStage(w, j, a)

AASpec == AAInit /\ [][AANext]_aavars

-----------------------------------------------------------------------------
\* At most one authority can be used at any moment, however handoffs, revocations,
\* emergency stops and revisions follow on each other, and it stands for an epoch
\* of a revision that a human approved, outside an emergency stop
\* (_resolve_execution, grant_execution_authority).
OneAuthorityInForce ==
    LET inForce == {g \in DOMAIN grants : Covers(g)} IN
    /\ \A g, h \in inForce : g = h
    /\ \A g \in inForce : /\ revs[grants[g].rev].human /\ ~policy.stop
                          /\ bases[grants[g].epoch] = grants[g].rev

\* Every attempt of a stage that is given a provider authorization runs as one and
\* the same agent, also when two workers with different settings authorize it at
\* once (authorize_stage).
OneAgentPerStage == \A j \in DOMAIN given : \A a, b \in given[j] : a = b

\* One authority, and under it one agent for a stage (grant_execution_authority and
\* authorize_stage).
AuthoritySound == OneAuthorityInForce /\ OneAgentPerStage

MissionTyped ==
    /\ revs \in Seq([origin : {"human", "material"}, human : BOOLEAN])
    /\ bases \in Seq(Nat)
    /\ am \in [rev : DOMAIN revs, epoch : DOMAIN bases, phase : {"exec", "waiting"}, run : BOOLEAN]
    /\ handoff \in [open : BOOLEAN, rev : Nat, from : Nat, epoch : Nat, grant : Nat]

GrantsTyped ==
    /\ policy \in [version : Nat, stop : BOOLEAN]
    /\ grants \in Seq([rev : Nat, epoch : Nat, version : Nat, revoked : BOOLEAN])

CarryTyped ==
    carry \in [Carriers -> [pc : {"idle", "read", "resume"}] \cup [pc : {"commit"}, version : Nat]]

StagesTyped ==
    /\ jobs \in Seq([grant : Nat, child : BOOLEAN, agent : StageAgents \cup {"none"}])
    /\ given \in Seq(SUBSET StageAgents) /\ Len(given) = Len(jobs)
    /\ stager \in [Stagers -> [pc : {"idle"}] \cup [pc : {"child"}, job : DOMAIN jobs]
                             \cup [pc : {"decide", "assign"}, job : DOMAIN jobs, agent : StageAgents]]

AATypeOK == MissionTyped /\ GrantsTyped /\ CarryTyped /\ StagesTyped

\* What makes the two inductive: a grant, and a reading that may still become one,
\* is of a policy version without the stop; the epoch of a handoff is bound to its
\* revision; no two grants have one scope; and an agent that was handed out is the
\* one of the assignment.
Permitted(version) ==
    version <= policy.version /\ (version = policy.version => ~policy.stop)

GrantsSound ==
    /\ \A g, h \in DOMAIN grants :
          grants[g].rev = grants[h].rev /\ grants[g].epoch = grants[h].epoch
              /\ grants[g].version = grants[h].version => g = h
    /\ \A g \in DOMAIN grants :
          /\ grants[g].rev \in DOMAIN revs /\ revs[grants[g].rev].human
          /\ grants[g].epoch \in DOMAIN bases /\ bases[grants[g].epoch] = grants[g].rev
          /\ Permitted(grants[g].version)
    /\ handoff.epoch # 0 => /\ handoff.epoch \in DOMAIN bases
                            /\ bases[handoff.epoch] = handoff.rev
    /\ \A c \in Carriers : carry[c].pc = "commit" => Permitted(carry[c].version)

HandedOutAssigned == \A j \in DOMAIN given : given[j] \subseteq {jobs[j].agent}

AuthorityInv == AATypeOK /\ GrantsSound /\ HandedOutAssigned
=============================================================================
