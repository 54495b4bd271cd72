---------------------------- MODULE MissionRecovery ----------------------------
(* What LocalRecoveryService.reconstruct_mission (local_recovery.py) reads while *)
(* the mission goes on: the mission with its control fence in one statement,     *)
(* then its checkpoint, Git and every open operation, each by a look of its own, *)
(* and at last the record.  OperationJournal has the journal's side of the pass  *)
(* and takes observers to be truthful; here the observers are what they read.    *)
(*                                                                               *)
(* One operation of one class is followed; service stands for the classes        *)
(* without an observer of their own.  Its executor is gone when a pass looks; the *)
(* owner, other commands and Git are not.                                        *)
EXTENDS Naturals

CONSTANTS RKeys,            \* keys of recovery passes
          MaxRVersion       \* bound of the model: versions of the mission

Classes == {"worktree", "git_integration", "checkpoint", "revision_transition",
            "epoch_transition", "service"}
NoPass == [key |-> "none", at |-> "none"]

VARIABLES
    row,        \* autonomous_missions: phase, disposition, version and its three pointers
    fence,      \* autonomous_mission_control_fences: the scope it was projected from
    ledger,     \* how many execution epochs and checkpoints exist
    repo,       \* the repository: its branch, lost commits, the operation's merge and
                \* worktree; evidence says whether verify_restore finds the database intact
    job,        \* the operation: class, scope, lifecycle; did says whether it happened
    scan,       \* the recovery pass under way
    records     \* autonomous_mission_recoveries, by key

rvars == <<row, fence, ledger, repo, job, scan, records>>

Scope(m) == [phase |-> m.phase, disposition |-> m.disposition, rev |-> m.rev, epoch |-> m.epoch]

\* An operation of the journal before it is reserved.
Unreserved(c) == [class |-> c, life |-> "absent", at |-> 0, base |-> 0, target |-> 0,
                  did |-> FALSE]

\* get_mission_recovery
Recorded(k) == records[k].disposition # "none"

RInit ==
    /\ row \in [phase : {"approved", "development"}, disposition : {"RUNNING"}, version : {1}, rev : {1},
               epoch : {1}, checkpoint : {0}]
    /\ fence = [version |-> 1, scope |-> Scope(row)]
    /\ ledger = [epochs |-> 1, checkpoints |-> 0]
    /\ repo = [branch |-> TRUE, lost |-> {}, merged |-> FALSE, tree |-> "none",
               evidence |-> TRUE]
    /\ job \in {Unreserved(c) : c \in Classes}
    /\ scan = NoPass
    /\ records = [k \in RKeys |-> [disposition |-> "none"]]

-----------------------------------------------------------------------------
(* The mission moves.                                                        *)

\* verify_checkpoint: its document, digests and references, then its commit.
RowIntact == repo.evidence
CommitFound(c) == c \notin repo.lost
Verifies(c) == RowIntact /\ CommitFound(c)

Advance(new) ==
    /\ row.version < MaxRVersion /\ row.phase # "completed"
    /\ row' = [new EXCEPT !.version = row.version + 1]

\* _transition: a control command or the next phase; the fence follows in its
\* transaction.
Transition ==
    /\ \/ Advance([row EXCEPT !.disposition = IF @ = "RUNNING" THEN "PAUSED" ELSE "RUNNING"])
       \/ row.disposition = "RUNNING" /\ Advance([row EXCEPT !.phase =
                                                  IF @ = "approved" THEN "development"
                                                  ELSE "completed"])
    /\ fence' = [version |-> row'.version, scope |-> Scope(row')]
    /\ UNCHANGED <<ledger, repo, job, scan, records>>

\* MissionControlFenceService.current: the projection catches up.
SyncFence ==
    /\ fence' = [version |-> row.version, scope |-> Scope(row)]
    /\ fence' # fence
    /\ UNCHANGED <<row, ledger, repo, job, scan, records>>

\* set_active_backlog_revision, create_epoch and record_checkpoint move the
\* mission and leave the fence behind.
SetRevision(r) == r # row.rev /\ Advance([row EXCEPT !.rev = r]) /\ UNCHANGED ledger
CreateEpoch ==
    /\ row.checkpoint # 0 /\ Verifies(row.checkpoint)
    /\ Advance([row EXCEPT !.epoch = ledger.epochs + 1])
    /\ ledger' = [ledger EXCEPT !.epochs = @ + 1]
RecordCheckpoint ==
    /\ Advance([row EXCEPT !.checkpoint = ledger.checkpoints + 1])
    /\ ledger' = [ledger EXCEPT !.checkpoints = @ + 1]

OthersMove ==
    /\ (\E r \in 1..2 : SetRevision(r)) \/ CreateEpoch \/ RecordCheckpoint
    /\ UNCHANGED <<fence, repo, job, scan, records>>

\* Git moves under the mission: a branch is deleted, a commit is lost, a worktree
\* is changed, broken or removed; or the database's evidence is damaged.
RepoMoves ==
    /\ row.version < MaxRVersion
    /\ repo' \in {[repo EXCEPT !.branch = FALSE],
                  [repo EXCEPT !.lost = @ \cup {row.checkpoint}],
                  [repo EXCEPT !.tree = IF @ = "none" THEN @ ELSE "other"],
                  [repo EXCEPT !.tree = IF @ = "none" THEN @ ELSE "broken"],
                  [repo EXCEPT !.tree = "none"],
                  [repo EXCEPT !.evidence = FALSE]}
    /\ repo' # repo
    /\ UNCHANGED <<row, fence, ledger, job, scan, records>>

-----------------------------------------------------------------------------
(* The operation and its executor.                                           *)

NoScan == scan = NoPass

\* reserve: bound to the version, the revision and the epoch of its moment.
Reserve ==
    /\ NoScan /\ job.life = "absent" /\ row.disposition = "RUNNING" /\ fence.scope = Scope(row)
    /\ job' = [job EXCEPT !.life = "reserved", !.at = row.version,
                  !.base = CASE job.class = "revision_transition" -> row.rev
                             [] job.class = "epoch_transition" -> row.epoch
                             [] OTHER -> 0,
                  !.target = CASE job.class = "revision_transition" -> 3 - row.rev
                               [] job.class = "epoch_transition" -> ledger.epochs + 1
                               [] job.class = "checkpoint" -> ledger.checkpoints + 1
                               [] OTHER -> 0]
    /\ UNCHANGED <<row, fence, ledger, repo, scan, records>>

StartJob ==
    /\ NoScan /\ job.life = "reserved"
    /\ job' = [job EXCEPT !.life = "running"]
    /\ UNCHANGED <<row, fence, ledger, repo, scan, records>>

\* The effect; a mutation of the mission is made for the version it was reserved
\* under.
Perform ==
    /\ NoScan /\ job.life = "running" /\ ~job.did
    /\ job' = [job EXCEPT !.did = TRUE]
    /\ CASE job.class = "revision_transition" -> row.version = job.at /\ SetRevision(job.target)
         [] job.class = "epoch_transition" -> row.version = job.at /\ CreateEpoch
         [] job.class = "checkpoint" -> row.version = job.at /\ RecordCheckpoint
         [] OTHER -> UNCHANGED <<row, ledger>>
    /\ job.class = "git_integration" => repo.branch
    /\ repo' = CASE job.class = "git_integration" -> [repo EXCEPT !.merged = TRUE]
                 [] job.class = "worktree" -> [repo EXCEPT !.tree = "right"]
                 [] OTHER -> repo
    /\ UNCHANGED <<fence, scan, records>>

ReportJob ==
    /\ NoScan /\ job.life = "running" /\ job.did
    /\ job' = [job EXCEPT !.life = "completed"]
    /\ UNCHANGED <<row, fence, ledger, repo, scan, records>>

-----------------------------------------------------------------------------
(* The observers.                                                            *)

Present == "present"
Absent == "absent"
Conflict == "conflict"
Indeterminate == "indeterminate"

\* _observe_checkpoint_operation
ObserveCheckpoint ==
    IF ledger.checkpoints < job.target THEN Absent
    ELSE IF Verifies(job.target) THEN Present ELSE Conflict

\* _observe_revision_transition
ObserveRevision ==
    IF row.rev = job.target THEN Present ELSE IF row.rev = job.base THEN Absent ELSE Conflict

\* Mutant: whatever is not the target did not happen.
ObserveEpochLoosely == IF row.epoch = job.target THEN Present ELSE Absent

\* _observe_epoch_transition
ObserveEpoch ==
    IF ledger.epochs < job.target THEN Absent
    ELSE IF row.epoch = job.target THEN Present
    ELSE IF row.epoch = job.base THEN Absent ELSE Conflict

\* GitOperationReconciler: a worktree is compared with the branch and the commit
\* of the request.
ObserveWorktree ==
    CASE repo.tree = "none" -> Absent
      [] repo.tree = "broken" -> Indeterminate
      [] repo.tree = "other" -> Conflict
      [] OTHER -> Present

\* Its integration: the commit exists, the branch does, and holds the commit.
ObserveIntegration ==
    IF ~repo.branch THEN Absent ELSE IF repo.merged THEN Present ELSE Conflict

\* observe_authority, of a checkpoint's commit or the epoch's base.
AuthorityPresent(c) == repo.branch /\ c \notin repo.lost

Observation ==
    CASE job.class = "checkpoint" -> ObserveCheckpoint
      [] job.class = "revision_transition" -> ObserveRevision
      [] job.class = "epoch_transition" -> ObserveEpoch
      [] job.class = "worktree" -> ObserveWorktree
      [] job.class = "git_integration" -> ObserveIntegration
      [] OTHER -> Indeterminate      \* no handler is configured

-----------------------------------------------------------------------------
(* The scan.                                                                 *)

\* control_fence: the fence has the mission's scope; before development it need not.
FenceSound == \/ fence.scope = Scope(row) /\ fence.version <= row.version
              \/ row.phase = "approved" /\ fence.scope.disposition = row.disposition

\* One statement reads the mission with its fence; a record of the key returns.
BeginPass(k) ==
    /\ NoScan /\ ~Recorded(k)
    /\ scan' = [key |-> k, at |-> "checkpoint", seen |-> row,
                sound |-> FenceSound /\ repo.evidence,
                heard |-> "nothing", safe |-> TRUE]
    /\ UNCHANGED <<row, fence, ledger, repo, job, records>>

\* verify_checkpoint of the pointer the pass read.
VerifyPointer ==
    /\ scan.at = "checkpoint"
    /\ scan' = [scan EXCEPT !.at = "git",
                    !.sound = @ /\ (scan.seen.checkpoint = 0 \/ Verifies(scan.seen.checkpoint))]
    /\ UNCHANGED <<row, fence, ledger, repo, job, records>>

VerifyGit ==
    /\ scan.at = "git"
    /\ scan' = [scan EXCEPT !.at = "operation",
                    !.sound = @ /\ AuthorityPresent(scan.seen.checkpoint)]
    /\ UNCHANGED <<row, fence, ledger, repo, job, records>>

Becomes(l) == job' = [job EXCEPT !.life = l]

\* A reservation that never ran is ready; one that ran is unknown.
Sort ==
    /\ scan.at = "operation" /\ job.life \in {"reserved", "running"}
    /\ IF job.life = "reserved" /\ scan.sound
       THEN Becomes("retry_ready") ELSE Becomes("unknown")
    /\ UNCHANGED <<row, fence, ledger, repo, scan, records>>

\* reconcile_unknown: the observer looks outside the write lock.
Observe ==
    /\ scan.at = "operation" /\ job.life = "unknown"
    /\ scan' = [scan EXCEPT !.at = "decide",
                            !.heard = IF scan.sound THEN Observation ELSE Indeterminate]
    /\ UNCHANGED <<row, fence, ledger, repo, job, records>>

\* reconcile_unknown: the event of what it saw (policy verify_then_retry).
Decide ==
    /\ scan.at = "decide"
    /\ Becomes(CASE scan.heard = Present -> "reconciled"
                 [] scan.heard = Absent -> "retry_ready"
                 [] OTHER -> "needs_attention")
    /\ scan' = [scan EXCEPT !.at = "operation"]
    /\ UNCHANGED <<row, fence, ledger, repo, records>>

\* The loop's end: an operation that needs attention blocks; a second listing,
\* the services, the active task and the Temporal run fill the snapshot.
EndLoop ==
    /\ scan.at = "operation" /\ job.life \notin {"reserved", "running", "unknown"}
    /\ scan' = [scan EXCEPT !.at = "record", !.safe = job.life # "needs_attention"]
    /\ UNCHANGED <<row, fence, ledger, repo, job, records>>

\* The last transaction's check, and autonomous_mission_recovery_scope_valid.
SameMission == row.version = scan.seen.version

\* The decision over what was read at the beginning.
Disposition ==
    IF ~(scan.sound /\ scan.safe) THEN "NEEDS_ATTENTION"
    ELSE IF scan.seen.phase = "completed" THEN "COMPLETED"
    ELSE IF scan.seen.disposition = "PAUSED" THEN "PAUSED"
    ELSE "RESUME_SAFE"

\* _operation_summary
Summary == [class |-> job.class, life |-> job.life]

\* The snapshot with the decision; at keeps the mission of that moment for the property.
Entry == [disposition |-> Disposition, snapshot |-> scan.seen, at |-> row, held |-> Summary]

\* The record is inserted, or the pass raises PermissionError.
InsertRecord ==
    /\ scan.at = "record"
    /\ records' = IF SameMission
                  THEN [records EXCEPT ![scan.key] = Entry] ELSE records
    /\ scan' = NoPass
    /\ UNCHANGED <<row, fence, ledger, repo, job>>

PassDies == scan # NoPass /\ scan' = NoPass /\ UNCHANGED <<row, fence, ledger, repo, job, records>>

RNext ==
    \/ Transition \/ SyncFence \/ OthersMove \/ RepoMoves
    \/ Reserve \/ StartJob \/ Perform \/ ReportJob
    \/ \E k \in RKeys : BeginPass(k)
    \/ VerifyPointer \/ VerifyGit \/ Sort \/ Observe \/ Decide \/ EndLoop \/ InsertRecord
    \/ PassDies

RSpec == RInit /\ [][RNext]_rvars

-----------------------------------------------------------------------------
\* A mission goes on from a recovery record only as it is: RESUME_SAFE is recorded
\* of the mission of that very moment, running, with its operation decided, and
\* an operation made ready again never happened if its class cannot be undone,
\* however the owner moves the mission between the scan's reads.
RecoverySound ==
    /\ \A k \in RKeys :
          records[k].disposition = "RESUME_SAFE" =>
             /\ records[k].snapshot = records[k].at
             /\ records[k].at.disposition = "RUNNING"
             /\ records[k].held.life \notin {"unknown", "running", "needs_attention"}
    /\ job.class \in {"epoch_transition", "checkpoint"} /\ job.life = "retry_ready" => ~job.did
=============================================================================
