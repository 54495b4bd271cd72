--------------------------- MODULE BlueprintLifecycle ---------------------------
(***************************************************************************)
(* From the intake of a mission to the mission that runs: readiness of the *)
(* intake (mission_intake.py), the versions of its factory blueprint and   *)
(* the owner's signature (blueprint.py), architecture decisions that amend *)
(* it (adr.py) and the bootstrap of a mission (mission_bootstrap.py).      *)
(*                                                                         *)
(* The services read first and write in a transaction of their own, so     *)
(* that a call is two steps with other processes in between.  "called"     *)
(* holds what a process read.  Rows are append-only (triggers).            *)
(***************************************************************************)
EXTENDS Naturals, Sequences
LOCAL INSTANCE SequencesExt

CONSTANTS
    Clerks,       \* processes that call the services
    Intake,       \* the intake that was recorded: its sources and its findings
    Drafts,       \* what the owner or an architect submits for a version
    MaxVersions, MaxDecisions, MaxAttempts   \* bounds of the model

VARIABLES
    answers,      \* mission_owner_resolutions: gaps the owner answered
    assessments,  \* mission_readiness_assessments: the gaps each one found, by sequence
    versions,     \* factory_blueprints, by id
    signatures,   \* blueprint_approvals: [blueprint, decision]
    authorized,   \* blueprint_execution_authorizations: their blueprints
    decisions,    \* architecture_decisions, by id, with analysis and approval
    contracts,    \* adr_workflow_contract_versions of one contract: their decisions
    attempts,     \* mission_bootstrap_attempts, by id, with their outcome
    missions,     \* bootstrapped_missions: [blueprint, attempt]
    called        \* [Clerks -> what the call in progress has read]

intakeRows == <<answers, assessments>>
blueprintRows == <<versions, signatures, authorized>>
decisionRows == <<decisions, contracts>>
bootRows == <<attempts, missions>>
blvars == <<intakeRows, blueprintRows, decisionRows, bootRows, called>>

RequiredSections == {"modules", "workforce", "tools", "context", "verification", "budgets",
                     "policies", "recovery"}
NoCall == [op |-> "none"]

BLInit ==
    /\ answers = {} /\ assessments = <<>>
    /\ versions = <<>> /\ signatures = {} /\ authorized = {}
    /\ decisions = <<>> /\ contracts = <<>> /\ attempts = <<>> /\ missions = {}
    /\ called = [c \in Clerks |-> NoCall]

\* A call reads, and keeps what it read.
Reads(c, call) ==
    /\ called[c] = NoCall
    /\ called' = [called EXCEPT ![c] = call]
    /\ UNCHANGED <<intakeRows, blueprintRows, decisionRows, bootRows>>
Returns(c) == called' = [called EXCEPT ![c] = NoCall]
\* A call is refused by a constraint, or its process dies.
Fails(c) ==
    /\ called[c] # NoCall
    /\ Returns(c) /\ UNCHANGED <<intakeRows, blueprintRows, decisionRows, bootRows>>

-----------------------------------------------------------------------------
\* The intake.

Active(source) == source.authority = "authoritative" /\ ~source.superseded

\* create: subjects on which two active authoritative sources differ.
ConflictedSubjects ==
    {s.subject : s \in {x \in Intake.sources : Active(x) /\
        \E y \in Intake.sources : Active(y) /\ y.subject = x.subject /\ y.content # x.content}}

\* assess: what the owner has to answer, by kind.
AllGaps ==
    Intake.findings \cup {[kind |-> "source_conflict", detail |-> s] : s \in ConflictedSubjects}

Verdict(gaps) ==
    LET kinds == {gap.kind : gap \in gaps}
    IN  IF "infeasible" \in kinds THEN "INFEASIBLE"
        ELSE IF kinds \cap {"high_risk", "reduced_scope"} # {} THEN "NEEDS_HUMAN_REVIEW"
        ELSE IF gaps # {} THEN "NEEDS_CLARIFICATION" ELSE "READY_FOR_BLUEPRINT"

NewestGaps == assessments[Len(assessments)]
IntakeReady == assessments # <<>> /\ Verdict(NewestGaps) = "READY_FOR_BLUEPRINT"

\* assess reads the answers, and later the newest assessment.
AssessReads(c) == Reads(c, [op |-> "assess", gaps |-> AllGaps \ answers])

\* The newest assessment is returned if it says the same; a document that was
\* recorded earlier is refused (assessment_digest is UNIQUE).
AssessWrites(c) ==
    /\ called[c].op = "assess"
    /\ Returns(c)
    /\ LET gaps == called[c].gaps
       IN  IF gaps \in ToSet(assessments) THEN UNCHANGED assessments
           ELSE assessments' = Append(assessments, gaps)
    /\ UNCHANGED <<answers, blueprintRows, decisionRows, bootRows>>

\* resolve_gap by the mission owner: a gap of the newest assessment; a second answer
\* is refused (UNIQUE).  A proposal to reduce the scope is accepted by it.
AnswerReads(c) ==
    /\ assessments # <<>>
    /\ \E gap \in NewestGaps \ answers : Reads(c, [op |-> "answer", gap |-> gap])
AnswerWrites(c) ==
    /\ called[c].op = "answer"
    /\ answers' = answers \cup {called[c].gap}
    /\ Returns(c) /\ UNCHANGED <<assessments, blueprintRows, decisionRows, bootRows>>

-----------------------------------------------------------------------------
\* Versions of the blueprint.

Latest(b) == \A other \in DOMAIN versions : versions[other].version <= versions[b].version
Approved(b) == [blueprint |-> b, decision |-> "approved"] \in signatures
Cited(draft, refs) == UNION {d[refs] : d \in draft.decisions}

\* _trace: the decisions cover every section, active authoritative source and
\* risk, and everything the draft declares; they refer to nothing else.
Traced(draft) ==
    /\ {d.section : d \in draft.decisions} = RequiredSections
    /\ \A d \in draft.decisions : d.sources # {}
    /\ Cited(draft, "sources") \subseteq {s.key : s \in Intake.sources}
    /\ {s.key : s \in {x \in Intake.sources : Active(x)}} \subseteq Cited(draft, "sources")
    /\ Cited(draft, "risks") = {f.detail : f \in {g \in Intake.findings : g.kind = "high_risk"}}
    /\ Cited(draft, "assumptions") = draft.assumptions /\ draft.assumptions # {}
    /\ Cited(draft, "alternatives") = draft.alternatives /\ draft.alternatives # {}

\* The impact names exactly the sections that change.
ImpactExact(draft) == draft.impact # {} /\ draft.impact = draft.changed

\* _dependencies, and what create and amend_in_transaction read before they write.
VersionReads(c, parent, adr) ==
    /\ IntakeReady
    /\ \E draft \in Drafts : Traced(draft) /\ (parent # 0 => ImpactExact(draft))
    /\ Reads(c, [op |-> "version", parent |-> parent, adr |-> adr,
                 assessment |-> Len(assessments)])

CreateReads(c) == versions = <<>> /\ VersionReads(c, 0, 0)
AmendReads(c) == \E parent \in DOMAIN versions : Latest(parent) /\ VersionReads(c, parent, 0)

\* ADRService.apply: of an approved decision, while its blueprint is the latest.
ApplyReads(c) ==
    \E adr \in DOMAIN decisions :
        /\ decisions[adr].status = "approved" /\ Latest(decisions[adr].blueprint)
        /\ VersionReads(c, decisions[adr].blueprint, adr)

NextVersion(parent) == IF parent = 0 THEN 1 ELSE versions[parent].version + 1

\* Mutant: a version may be written twice.
AnyVersion(version) == TRUE

\* UNIQUE(blueprint_key,version)
VersionFree(version) == \A b \in DOMAIN versions : versions[b].version # version

\* apply, in the transaction of the new version: the contracts' versions and what the
\* decision reaches, and its status.
Applies(adr) ==
    IF adr = 0 THEN UNCHANGED decisionRows
    ELSE /\ decisions[adr].status = "approved"
         /\ decisions' = [decisions EXCEPT ![adr].status = "applied"]
         /\ contracts' = Append(contracts, adr)

\* _create_version
VersionWrites(c) ==
    LET call == called[c]
    IN  /\ call.op = "version" /\ Len(versions) < MaxVersions
        /\ VersionFree(NextVersion(call.parent))
        /\ versions' = Append(versions, [version |-> NextVersion(call.parent),
               parent |-> call.parent, adr |-> call.adr, assessment |-> call.assessment])
        /\ Applies(call.adr)
        /\ Returns(c) /\ UNCHANGED <<intakeRows, signatures, authorized, bootRows>>

\* sign: the exact latest version, once, by the mission owner.
SignReads(c) ==
    \E b \in DOMAIN versions, decision \in {"approved", "rejected"} :
        /\ Latest(b) /\ \A s \in signatures : s.blueprint # b
        /\ Reads(c, [op |-> "sign", blueprint |-> b, decision |-> decision])
SignWrites(c) ==
    /\ called[c].op = "sign"
    /\ \A s \in signatures : s.blueprint # called[c].blueprint
    /\ signatures' = signatures \cup
           {[blueprint |-> called[c].blueprint, decision |-> called[c].decision]}
    /\ Returns(c) /\ UNCHANGED <<intakeRows, versions, authorized, decisionRows, bootRows>>

\* authorize_execution: the latest version, if its owner approved it.
AuthorizeReads(c) ==
    \E b \in DOMAIN versions \ authorized :
        Latest(b) /\ Approved(b) /\ Reads(c, [op |-> "authorize", blueprint |-> b])
AuthorizeWrites(c) ==
    /\ called[c].op = "authorize" /\ called[c].blueprint \notin authorized
    /\ authorized' = authorized \cup {called[c].blueprint}
    /\ Returns(c) /\ UNCHANGED <<intakeRows, versions, signatures, decisionRows, bootRows>>

-----------------------------------------------------------------------------
\* Architecture decisions.

\* propose: against the latest version.
ProposeReads(c) ==
    \E b \in DOMAIN versions : Latest(b) /\ Reads(c, [op |-> "propose", blueprint |-> b])
ProposeWrites(c) ==
    /\ called[c].op = "propose" /\ Len(decisions) < MaxDecisions
    /\ decisions' = Append(decisions,
           [blueprint |-> called[c].blueprint, status |-> "proposed", analyzed |-> FALSE])
    /\ Returns(c) /\ UNCHANGED <<intakeRows, blueprintRows, contracts, bootRows>>

Decides(adr, decision) ==
    /\ decisions' = [decisions EXCEPT ![adr] = decision]
    /\ UNCHANGED <<intakeRows, blueprintRows, contracts, bootRows, called>>

\* analyze_impact: once, before the decision (what it reads does not change before
\* the UNIQUE row it writes).
AnalyzeImpact(adr) ==
    /\ decisions[adr].status = "proposed" /\ ~decisions[adr].analyzed
    /\ Decides(adr, [decisions[adr] EXCEPT !.analyzed = TRUE])

\* decide, by the human architecture owner: the approval and the status at once.
Decide(adr) ==
    /\ decisions[adr].status = "proposed" /\ decisions[adr].analyzed
    /\ \E chosen \in {"approved", "rejected"} :
          Decides(adr, [decisions[adr] EXCEPT !.status = chosen])

-----------------------------------------------------------------------------
\* The bootstrap of a mission.  What it creates (project, root work item, run with
\* its stages and claim, manifests, checkpoint) comes with the mission's row.

Bootstrapped(b) == \E m \in missions : m.blueprint = b
ResourceState == missions

\* bootstrap: _blueprint, the replay of a mission and the state of the rollback point.
BootReads(c) ==
    \E b \in authorized :
        /\ Latest(b) /\ ~Bootstrapped(b)
        /\ Reads(c, [op |-> "attempt", blueprint |-> b, state |-> ResourceState])

BootAttempts(c) ==
    /\ called[c].op = "attempt" /\ Len(attempts) < MaxAttempts
    /\ attempts' = Append(attempts, [blueprint |-> called[c].blueprint, outcome |-> "none"])
    /\ called' = [called EXCEPT ![c] = [op |-> "build", attempt |-> Len(attempts) + 1,
                                        state |-> called[c].state]]
    /\ UNCHANGED <<intakeRows, blueprintRows, decisionRows, missions>>

\* One immediate transaction with all of it; bootstrapped_missions has UNIQUE(blueprint_id).
BootBuilds(c) ==
    LET attempt == called[c].attempt
        b == attempts[attempt].blueprint
    IN  /\ called[c].op = "build" /\ ~Bootstrapped(b)
        /\ missions' = missions \cup {[blueprint |-> b, attempt |-> attempt]}
        /\ attempts' = [attempts EXCEPT ![attempt].outcome = "succeeded"]
        /\ Returns(c) /\ UNCHANGED <<intakeRows, blueprintRows, decisionRows>>

\* An error anywhere in it: everything is rolled back and compared with the state read
\* before the attempt, which counts the resources of all missions.
BootFails(c) ==
    /\ called[c].op = "build"
    /\ attempts' = [attempts EXCEPT ![called[c].attempt].outcome =
           IF ResourceState = called[c].state THEN "verified" ELSE "unverified"]
    /\ Returns(c) /\ UNCHANGED <<intakeRows, blueprintRows, decisionRows, missions>>

-----------------------------------------------------------------------------
Assess(c) == AssessReads(c) \/ AssessWrites(c)
Resolve(c) == AnswerReads(c) \/ AnswerWrites(c)
Versions(c) == CreateReads(c) \/ AmendReads(c) \/ ApplyReads(c) \/ VersionWrites(c)
Signs(c) == SignReads(c) \/ SignWrites(c) \/ AuthorizeReads(c) \/ AuthorizeWrites(c)
Proposes(c) == ProposeReads(c) \/ ProposeWrites(c)
Bootstraps(c) == BootReads(c) \/ BootAttempts(c) \/ BootBuilds(c) \/ BootFails(c)

BLNext ==
    \/ \E c \in Clerks : Assess(c) \/ Resolve(c) \/ Versions(c) \/ Signs(c) \/ Proposes(c)
                            \/ Bootstraps(c) \/ Fails(c)
    \/ \E adr \in DOMAIN decisions : AnalyzeImpact(adr) \/ Decide(adr)

BLSpec == BLInit /\ [][BLNext]_blvars

-----------------------------------------------------------------------------
\* Each version is the next one of the version it amends, made when every gap the
\* intake had was answered.
VersionsInLine ==
    \A b \in DOMAIN versions :
        /\ versions[b].version = b /\ versions[b].parent = b - 1
        /\ assessments[versions[b].assessment] = {} /\ AllGaps \subseteq answers

\* An architecture decision is applied by one version, which amends the one it was
\* proposed for.
DecisionsApplied ==
    \A adr \in DOMAIN decisions :
        LET applied == {b \in DOMAIN versions : versions[b].adr = adr}
        IN  IF decisions[adr].status # "applied" THEN applied = {}
            ELSE \E b \in applied : applied = {b} /\ versions[b].parent = decisions[adr].blueprint

\* The contracts are those of the applied decisions, in the order of the versions.
ContractsFollow ==
    /\ {contracts[n] : n \in DOMAIN contracts} = {versions[b].adr : b \in DOMAIN versions} \ {0}
    /\ \A n, k \in DOMAIN contracts, b, d \in DOMAIN versions :
          n < k /\ versions[b].adr = contracts[n] /\ versions[d].adr = contracts[k] => b < d

\* A blueprint becomes one mission at most, after its owner approved it.
MissionsApproved ==
    \A m \in missions :
        /\ m.blueprint \in authorized /\ Approved(m.blueprint)
        /\ \A other \in missions : other.blueprint = m.blueprint => other = m

\* An attempt that failed or died leaves no mission.
AttemptsTell ==
    \A a \in DOMAIN attempts :
        attempts[a].outcome = "succeeded" <=> \E m \in missions : m.attempt = a

\* The versions of a blueprint are one line of amendments, each architecture decision
\* is in exactly one of them, and each blueprint becomes one approved mission at most,
\* whatever calls overlap, fail or die.
\* (_create_version, ADRService.apply, MissionBootstrapService.bootstrap)
OneBlueprintLine ==
    VersionsInLine /\ DecisionsApplied /\ ContractsFollow /\ MissionsApproved /\ AttemptsTell
=============================================================================
