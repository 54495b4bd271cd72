---------------------------- MODULE AuthoritySchema ----------------------------
(***************************************************************************)
(* What the database itself holds a mission to between its specification   *)
(* and the revision it works from: the tables of storage.py for sources,   *)
(* revisions, verifications, approvals, authorizations and authorities,    *)
(* with the CHECKs, UNIQUEs and triggers a statement must pass.  An action *)
(* is one statement, by any writer, in any order; rows are append-only     *)
(* (every table refuses UPDATE and DELETE) but for the mission's row and   *)
(* the specification head.  A digest column names the row it digests.      *)
(***************************************************************************)
EXTENDS Naturals, Sequences

CONSTANTS
    Dispositions,   \* the dispositions a writer uses, RUNNING among them
    MaxSources, MaxRevisions, MaxRows, MaxMissionVersion   \* bounds of the model

VARIABLES
    missionRow,     \* autonomous_missions
    sourceRows,     \* how many autonomous_mission_specification_sources
    headRow,        \* autonomous_mission_specification_heads
    superseded,     \* autonomous_specification_supersessions: to which source
    revisionRows,   \* autonomous_backlog_revisions
    invalidRows,    \* autonomous_backlog_revision_invalidations
    manifestRows,   \* sources with an autonomous_planning_manifest
    planRows,       \* pipeline completions with their manifest's source
    verificationRows, epochRows, approvalRows, grantRows, completionRows, authorityRows

asvars == <<missionRow, sourceRows, headRow, superseded, revisionRows, invalidRows, manifestRows,
            planRows, verificationRows, epochRows, approvalRows, grantRows, completionRows, authorityRows>>
specification == <<sourceRows, headRow, superseded>>
proposal == <<revisionRows, invalidRows, manifestRows, planRows, verificationRows>>
authority == <<epochRows, approvalRows, grantRows, completionRows, authorityRows>>

Revisions == DOMAIN revisionRows
Waiting == "WAITING_FOR_BACKLOG_APPROVAL"
Planning == {"DRAFT", "SPECIFICATION_ANALYSIS", "BACKLOG_GENERATION", Waiting}
Executing == {"APPROVED", "ENVIRONMENT_DISCOVERY", "ENVIRONMENT_BOOTSTRAP", "DEVELOPMENT",
              "VALIDATION", "INTEGRATION", "FINAL_VALIDATION"}
Origins == {"HUMAN", "AGENT_MATERIAL", "TECHNICAL_SUBTASK"}

\* A mission whose specification was given and is being planned.
ASInit ==
    /\ missionRow = [phase |-> "BACKLOG_GENERATION", disposition |-> "RUNNING",
                     revision |-> 0, epoch |-> 0, version |-> 3]
    /\ sourceRows = 1 /\ headRow = 1 /\ superseded = {}
    /\ revisionRows = <<>> /\ invalidRows = {} /\ manifestRows = {} /\ planRows = {}
    /\ verificationRows = <<>>
    /\ epochRows = <<>> /\ approvalRows = <<>> /\ grantRows = <<>>
    /\ completionRows = <<>> /\ authorityRows = <<>>

-----------------------------------------------------------------------------
\* autonomous_specification_source_phase_valid, ..._sequence_valid
InsertSource ==
    /\ missionRow.phase \in Planning /\ sourceRows < MaxSources
    /\ sourceRows' = sourceRows + 1
    /\ UNCHANGED <<missionRow, headRow, superseded, proposal, authority>>

\* autonomous_specification_supersession_scope_valid: by the next version.
InsertSupersession(s) ==
    /\ s \in 2..sourceRows /\ s \notin superseded
    /\ superseded' = superseded \cup {s}
    /\ UNCHANGED <<missionRow, sourceRows, headRow, proposal, authority>>

\* autonomous_specification_head_scope_valid_update: along a supersession.
UpdateHead ==
    /\ headRow + 1 \in superseded
    /\ headRow' = headRow + 1
    /\ UNCHANGED <<missionRow, sourceRows, superseded, proposal, authority>>

\* autonomous_backlog_revisions: numbered, of one source document.
InsertRevision(origin, parent, source) ==
    /\ Len(revisionRows) < MaxRevisions
    /\ revisionRows' = Append(revisionRows,
                              [origin |-> origin, parent |-> parent, source |-> source])
    /\ UNCHANGED <<missionRow, specification, invalidRows, manifestRows, planRows, verificationRows,
                   authority>>

\* autonomous_revision_invalidation_scope_valid: a source was superseded by
\* another document than the revision's own.
InsertInvalidation(r) ==
    /\ r \notin invalidRows /\ \E s \in superseded : s # revisionRows[r].source
    /\ invalidRows' = invalidRows \cup {r}
    /\ UNCHANGED <<missionRow, specification, revisionRows, manifestRows, planRows, verificationRows,
                   authority>>

\* autonomous_planning_manifest_scope_valid: of the head.
InsertManifest ==
    /\ missionRow.phase \in Planning /\ headRow \notin manifestRows
    /\ manifestRows' = manifestRows \cup {headRow}
    /\ UNCHANGED <<missionRow, specification, revisionRows, invalidRows, planRows, verificationRows,
                   authority>>

\* autonomous_planning_binding_scope_valid, autonomous_planning_completion_scope_valid:
\* a revision once, of the head still, and not invalidated.
InsertPlan(r) ==
    /\ headRow \in manifestRows /\ r \notin invalidRows
    /\ \A p \in planRows : p.revision # r
    /\ planRows' = planRows \cup {[revision |-> r, source |-> headRow]}
    /\ UNCHANGED <<missionRow, specification, revisionRows, invalidRows, manifestRows,
                   verificationRows, authority>>

\* autonomous_proposal_verification_scope_valid, autonomous_ready_proposal_scope_valid.
\* A blocked report leads to no version.
ReadyScope(p) ==
    /\ missionRow.phase = "BACKLOG_GENERATION" /\ missionRow.disposition = "RUNNING"
    /\ p.source = headRow /\ p.revision \notin invalidRows
InsertVerification(p, ready) ==
    /\ p \in planRows /\ Len(verificationRows) < MaxRows
    /\ ready => ReadyScope(p)
    /\ verificationRows' = Append(verificationRows,
           [revision |-> p.revision, source |-> p.source,
            result |-> IF ready THEN missionRow.version + 1 ELSE 0])
    /\ UNCHANGED <<missionRow, specification, revisionRows, invalidRows, manifestRows, planRows,
                   authority>>

-----------------------------------------------------------------------------
\* The CHECKs of autonomous_mission_execution_epochs for an initial epoch and
\* its sequence, revision and predecessor triggers. Its activation version is
\* any.
InsertFirstEpoch(r, v) ==
    /\ epochRows = <<>>
    /\ epochRows' = <<[base |-> r, activation |-> v]>>
    /\ UNCHANGED <<missionRow, specification, proposal, approvalRows, grantRows, completionRows,
                   authorityRows>>

\* autonomous_backlog_approval_scope_valid: an approval names the first epoch,
\* which is unique among the approvals.
ApprovalScope(v) ==
    LET ready == verificationRows[v] IN
    /\ missionRow.phase = Waiting /\ missionRow.disposition = "RUNNING"
    /\ missionRow.revision = 0 /\ missionRow.epoch = 0
    /\ ready.result = missionRow.version /\ ready.source = headRow
    /\ ready.revision \notin invalidRows /\ ready.revision = Len(revisionRows)
    /\ epochRows # <<>>
    /\ epochRows[1] = [base |-> ready.revision, activation |-> missionRow.version + 1]
InsertApproval(v) ==
    /\ ApprovalScope(v) /\ approvalRows = <<>>
    /\ approvalRows' = <<[revision |-> verificationRows[v].revision,
                          result |-> missionRow.version + 1]>>
    /\ UNCHANGED <<missionRow, specification, proposal, epochRows, grantRows, completionRows,
                   authorityRows>>

\* autonomous_local_authorization_scope_valid: for the active revision and epoch,
\* or those of an approval whose execution authorization it is; one for a revision,
\* as long as the policy does not change.
InsertGrant(r) ==
    /\ Len(grantRows) < MaxRows /\ epochRows # <<>>
    /\ \/ missionRow.revision = r /\ missionRow.epoch = 1
       \/ \E a \in DOMAIN approvalRows : approvalRows[a].revision = r
    /\ \A g \in DOMAIN grantRows : grantRows[g] # r
    /\ grantRows' = Append(grantRows, r)
    /\ UNCHANGED <<missionRow, specification, proposal, epochRows, approvalRows, completionRows,
                   authorityRows>>

\* autonomous_backlog_approval_completion_scope_valid, unique by approval.
InsertCompletion(g) ==
    /\ approvalRows # <<>> /\ completionRows = <<>>
    /\ grantRows[g] = approvalRows[1].revision
    /\ completionRows' = <<approvalRows[1].result>>
    /\ UNCHANGED <<missionRow, specification, proposal, epochRows, approvalRows, grantRows,
                   authorityRows>>

\* An approval of r that was completed, leading to version v (any when 0).
Approves(r, v) ==
    completionRows # <<>> /\ approvalRows[1].revision = r /\ (v = 0 \/ completionRows[1] = v)

\* Mutant: a change that waits for the owner counts as applied.
AppliesWaiting(r, v) ==
    \E a \in DOMAIN authorityRows :
        authorityRows[a].revision = r /\ (v = 0 \/ authorityRows[a].result = v)

\* An authority applied r, leading to version v (any when 0).
Applies(r, v) ==
    \E a \in DOMAIN authorityRows :
        /\ authorityRows[a].revision = r /\ revisionRows[r].origin # "AGENT_MATERIAL"
        /\ v = 0 \/ authorityRows[a].result = v

\* autonomous_revision_authority_scope_valid and the CHECK that ties the outcome
\* to the origin: an agent's material change waits, the others are applied.
InsertAuthority(r) ==
    LET parent == revisionRows[r].parent IN
    /\ missionRow.phase \in Executing /\ missionRow.disposition = "RUNNING"
    /\ parent # 0 /\ parent = missionRow.revision /\ r = Len(revisionRows)
    /\ r \notin invalidRows
    /\ Approves(parent, 0) \/ Applies(parent, 0)
    /\ \A a \in DOMAIN authorityRows : authorityRows[a].revision # r
    /\ authorityRows' = Append(authorityRows, [revision |-> r, result |-> missionRow.version + 1])
    /\ UNCHANGED <<missionRow, specification, proposal, epochRows, approvalRows, grantRows,
                   completionRows>>

-----------------------------------------------------------------------------
\* autonomous_missions_phase_transition, as migration 65 leaves it.
PhaseSteps ==
    [p \in Planning \cup Executing \cup {"COMPLETED"} |->
        (CASE p = "DRAFT" -> {"SPECIFICATION_ANALYSIS"}
           [] p = "SPECIFICATION_ANALYSIS" -> {"BACKLOG_GENERATION"}
           [] p = "BACKLOG_GENERATION" -> {"SPECIFICATION_ANALYSIS"}
           [] p = Waiting -> {"BACKLOG_GENERATION", "APPROVED"}
           [] p = "APPROVED" -> {"ENVIRONMENT_DISCOVERY"}
           [] p = "ENVIRONMENT_DISCOVERY" -> {"ENVIRONMENT_BOOTSTRAP"}
           [] p = "ENVIRONMENT_BOOTSTRAP" -> {"DEVELOPMENT"}
           [] p = "DEVELOPMENT" -> {"VALIDATION", "FINAL_VALIDATION"}
           [] p = "VALIDATION" -> {"DEVELOPMENT", "INTEGRATION"}
           [] p = "INTEGRATION" -> {"DEVELOPMENT", "FINAL_VALIDATION"}
           [] p = "FINAL_VALIDATION" -> {"DEVELOPMENT", "COMPLETED"}
           [] OTHER -> {})
        \cup IF p \in Executing \cup {"BACKLOG_GENERATION"} THEN {Waiting} ELSE {}]

\* autonomous_missions_disposition_transition
DispositionSteps ==
    [d \in Dispositions |-> Dispositions \cap
        (CASE d = "RUNNING" -> Dispositions \ {"RUNNING"}
           [] d = "PAUSED" -> {"RUNNING", "STOPPED", "FAILED"}
           [] d = "STOPPED" -> {"RUNNING", "RECOVERING", "FAILED"}
           [] d = "NEEDS_ATTENTION" -> {"RUNNING", "STOPPED", "REPLANNING", "FAILED"}
           [] d = "NEEDS_HUMAN_ACTION" -> {"RUNNING", "STOPPED", "RECOVERING", "FAILED"}
           [] d = "REPLANNING" -> {"RUNNING", "PAUSED", "STOPPED", "NEEDS_ATTENTION", "FAILED"}
           [] d = "RECOVERING" -> {"RUNNING", "STOPPED", "NEEDS_ATTENTION",
                                   "NEEDS_HUMAN_ACTION", "FAILED"}
           [] OTHER -> {"RECOVERING", "STOPPED"})]

\* autonomous_waiting_requires_verified_proposal
WaitsVerified(new) ==
    missionRow.phase = "BACKLOG_GENERATION" /\ new.phase = Waiting /\ planRows # {} =>
        \E v \in DOMAIN verificationRows : verificationRows[v].result = new.version

\* autonomous_approved_requires_exact_approval
ApprovedExactly(new) ==
    missionRow.phase = Waiting /\ new.phase = "APPROVED" /\ verificationRows # <<>> =>
        Approves(new.revision, new.version) /\ new.epoch = 1

\* autonomous_revision_activation_requires_authority and
\* autonomous_invalidated_revision_not_activatable
ActivatesWithAuthority(new) ==
    new.revision # missionRow.revision =>
        /\ new.revision \notin invalidRows
        /\ verificationRows # <<>> =>
              Approves(new.revision, new.version) \/ Applies(new.revision, new.version)

\* autonomous_material_wait_requires_authority
WaitsForMaterial(new) ==
    missionRow.phase \in Executing /\ new.phase = Waiting =>
        \E a \in DOMAIN authorityRows :
            /\ revisionRows[authorityRows[a].revision].origin = "AGENT_MATERIAL"
            /\ authorityRows[a].result = new.version

\* UPDATE of the mission's row, its evidence in autonomous_mission_state_versions
\* written before: one version on, phase or disposition, the phase only while
\* running and never after completion.
UpdateMission(phase, disposition, revision, epoch) ==
    LET new == [phase |-> phase, disposition |-> disposition, revision |-> revision,
                epoch |-> epoch, version |-> missionRow.version + 1]
    IN
    /\ missionRow.phase # "COMPLETED" /\ missionRow.version < MaxMissionVersion
    /\ WaitsVerified(new) /\ ApprovedExactly(new)
    /\ ActivatesWithAuthority(new) /\ WaitsForMaterial(new)
    /\ missionRow' = new
    /\ UNCHANGED <<specification, proposal, authority>>

UpdatePhase ==
    /\ missionRow.disposition = "RUNNING"
    /\ \E p \in PhaseSteps[missionRow.phase], r \in Revisions \cup {0}, e \in 0..Len(epochRows) :
          UpdateMission(p, "RUNNING", r, e)
UpdateOther ==
    \E d \in DispositionSteps[missionRow.disposition] \cup {missionRow.disposition},
       r \in Revisions \cup {0}, e \in 0..Len(epochRows) :
          UpdateMission(missionRow.phase, d, r, e)

ASNext ==
    \/ InsertSource \/ UpdateHead \/ InsertManifest \/ \E s \in 2..MaxSources : InsertSupersession(s)
    \/ \E o \in Origins, p \in Revisions \cup {0}, s \in 1..sourceRows : InsertRevision(o, p, s)
    \/ \E r \in Revisions :
          \/ InsertInvalidation(r) \/ InsertPlan(r)
          \/ InsertGrant(r) \/ InsertAuthority(r)
          \/ \E v \in 2..MaxMissionVersion : InsertFirstEpoch(r, v)
    \/ \E p \in planRows, ready \in BOOLEAN : InsertVerification(p, ready)
    \/ \E v \in DOMAIN verificationRows : InsertApproval(v)
    \/ \E g \in DOMAIN grantRows : InsertCompletion(g)
    \/ UpdatePhase \/ UpdateOther

ASSpec == ASInit /\ [][ASNext]_asvars

-----------------------------------------------------------------------------
\* The approved revision, or one applied to what descends from it, along a line of
\* revisions in force: every change on the way is the owner's or a subtask of what
\* was approved.
DescendsFromApproved(revision) ==
    \E line \in SUBSET Revisions :
        /\ revision \in line
        /\ \A r \in line :
              \/ Approves(r, 0)
              \/ /\ Applies(r, 0) /\ revisionRows[r].origin # "AGENT_MATERIAL"
                 /\ revisionRows[r].parent \in line /\ revisionRows[r].parent < r

\* "SQLite fences reject a direct phase or revision activation that lacks the
\* exact completion evidence" (autonomous-mission-planning.md): whatever
\* statements are sent, in whatever order, a mission that was approved executes
\* only what descends from the approval, and keeps it.
ExecutesApproved ==
    approvalRows # <<>> /\ (missionRow.phase \in Executing \/ missionRow.revision # 0) =>
        DescendsFromApproved(missionRow.revision)
=============================================================================
