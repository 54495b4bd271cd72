---------------------------- MODULE MissionLedger ----------------------------
(* What an approved mission is working from: its backlog revisions and which  *)
(* of them is in force (backlog_revisions.py), the states of its items, its   *)
(* execution epochs and checkpoints (mission_checkpoints.py) and the row that *)
(* points to all of them (autonomous_mission.py).                             *)
(*                                                                            *)
(* Every service reads the mission first, outside the write lock, and returns *)
(* to commit what it made of the reading; a call is the two steps. A command  *)
(* that is repeated finds its own result and changes nothing. The mission     *)
(* begins as approve_and_start leaves it: revision 1 approved and active in   *)
(* epoch 1.                                                                   *)
EXTENDS Naturals, Sequences, FiniteSets

CONSTANTS
    Items,          \* the executable items of the backlog
    ItemDeps,       \* item -> the items it depends on
    Edits,          \* how a revision changes them: [Items -> {"same", "light", "material"}]
    LCallers,       \* calls that may be under way together
    MaxRevisions, MaxEpochs, MaxCheckpoints, MaxMoves   \* bounds of the model

VARIABLES
    row,            \* autonomous_missions: version, phase, disposition and pointers
    revisions,      \* autonomous_backlog_revisions with their authority
    work,           \* the latest state row of every item of every revision
    epochs,         \* autonomous_mission_execution_epochs: base checkpoint of each
    checkpoints,    \* autonomous_mission_checkpoints
    call            \* a call between its reading and its commit

lvars == <<row, revisions, work, epochs, checkpoints, call>>

Statuses == {"DONE", "RUNNING", "READY", "BLOCKED", "FAILED", "STALE", "PROPOSED"}
Origins == {"HUMAN", "TECHNICAL_SUBTASK", "AGENT_MATERIAL"}
NoCall == [op |-> "none"]

\* ITEM_STATE_TRANSITIONS
ItemMoves ==
    [s \in Statuses |->
        CASE s = "PROPOSED" -> {"READY", "RUNNING", "BLOCKED", "FAILED"}
          [] s = "READY" -> {"RUNNING", "BLOCKED", "FAILED"}
          [] s = "RUNNING" -> {"DONE", "FAILED", "BLOCKED"}
          [] s = "BLOCKED" -> {"READY", "RUNNING", "FAILED"}
          [] s = "FAILED" -> {"READY", "RUNNING", "BLOCKED"}
          [] s = "STALE" -> {"READY", "RUNNING", "BLOCKED"}
          [] s = "DONE" -> {}]

DoneItems(n) == {i \in Items : work[n][i].status = "DONE"}
Depends(n, i) == \A d \in ItemDeps[i] : work[n][d].status = "DONE"
Latest == Len(revisions)
Authorized == {n \in 1..Latest : revisions[n].authority \in {"approved", "applied"}}

-----------------------------------------------------------------------------
LInit ==
    /\ row = [version |-> 1, phase |-> "executing", disposition |-> "RUNNING",
              active |-> 1, epoch |-> 1, checkpoint |-> 0]
    /\ revisions = <<[parent |-> 0, origin |-> "HUMAN", authority |-> "approved"]>>
    /\ work = <<[i \in Items |-> [status |-> "PROPOSED", seq |-> 1]]>>
    /\ epochs = <<0>>
    /\ checkpoints = <<>>
    /\ call = [c \in LCallers |-> NoCall]

\* _classify_impact and _create_initial_state: what is carried over.
CarriedStatus(status, edit) ==
    CASE edit = "material" /\ status = "DONE" -> "STALE"
      [] edit = "material" /\ status # "DONE" -> "PROPOSED"
      [] OTHER -> status

\* create_revision, in one transaction and in any phase; it leaves the mission
\* and its version alone.
CreateRevision(origin, parent, edit) ==
    /\ Latest < MaxRevisions
    /\ revisions' = Append(revisions, [parent |-> parent, origin |-> origin, authority |-> "none"])
    /\ work' = Append(work, [i \in Items |->
          [status |-> CarriedStatus(work[parent][i].status, edit[i]), seq |-> 1]])
    /\ UNCHANGED <<row, epochs, checkpoints, call>>

\* The scope that apply_revision reads and that its commit, and the trigger on
\* autonomous_backlog_revision_authorities, demand again.
Applicable(n) ==
    /\ row.disposition = "RUNNING" /\ row.phase = "executing"
    /\ row.active # 0 /\ revisions[n].parent = row.active
    /\ row.active \in Authorized
    /\ n = Latest

\* Mutant: what was true when the call read is taken to be true at its commit.
StillAppliesAsRead(c) == call[c].op = "apply"

StillApplies(c) == Applicable(call[c].revision) /\ row.version = call[c].row.version

ReadApply(c, n) ==
    /\ call[c].op = "none" /\ Applicable(n)
    /\ call' = [call EXCEPT ![c] = [op |-> "apply", revision |-> n, row |-> row]]
    /\ UNCHANGED <<row, revisions, work, epochs, checkpoints>>

\* A human's revision and a technical subtask come into force; an agent's
\* material change waits for approval while the old revision stays active.
\* revision_id is unique among the authorities.
CommitApply(c) ==
    LET n == call[c].revision
        waits == revisions[n].origin = "AGENT_MATERIAL"
    IN
    /\ call[c].op = "apply" /\ StillApplies(c)
    /\ revisions[n].authority = "none"
    /\ row.version < MaxMoves
    /\ revisions' = [revisions EXCEPT ![n].authority = IF waits THEN "waiting" ELSE "applied"]
    /\ row' = [row EXCEPT !.version = @ + 1,
                          !.phase = IF waits THEN "waiting" ELSE @,
                          !.active = IF waits THEN @ ELSE n]
    /\ call' = [call EXCEPT ![c] = NoCall]
    /\ UNCHANGED <<work, epochs, checkpoints>>

-----------------------------------------------------------------------------
\* record_item_state: the mission and the state row the caller goes by.
ReadItem(c, i, target) ==
    /\ call[c].op = "none" /\ row.active # 0
    /\ target \in ItemMoves[work[row.active][i].status]
    /\ call' = [call EXCEPT ![c] = [op |-> "item", item |-> i, target |-> target,
                                    seq |-> work[row.active][i].seq, row |-> row]]
    /\ UNCHANGED <<row, revisions, work, epochs, checkpoints>>

\* The commit compares the active revision, the epoch and the state row; whether
\* the mission may schedule is taken from the reading.
CommitItem(c) ==
    LET k == call[c] IN
    /\ k.op = "item"
    /\ row.active = k.row.active /\ row.epoch = k.row.epoch
    /\ work[row.active][k.item].seq = k.seq
    /\ k.target = "RUNNING" => k.row.disposition = "RUNNING" /\ k.row.phase # "completed"
    /\ k.target \in {"RUNNING", "READY"} => Depends(row.active, k.item)
    /\ work' = [work EXCEPT ![row.active][k.item] = [status |-> k.target, seq |-> k.seq + 1]]
    /\ call' = [call EXCEPT ![c] = NoCall]
    /\ UNCHANGED <<row, revisions, epochs, checkpoints>>

-----------------------------------------------------------------------------
\* record_checkpoint: the caller lists the items it finds done.
ReadCheckpoint(c) ==
    /\ call[c].op = "none" /\ row.active # 0 /\ row.epoch # 0
    /\ call' = [call EXCEPT ![c] = [op |-> "checkpoint", completed |-> DoneItems(row.active),
                                    row |-> row]]
    /\ UNCHANGED <<row, revisions, work, epochs, checkpoints>>

\* Mutant: the partition is not compared with the accepted states.
PartitionCovers(completed) == completed \subseteq Items

\* _validate_work_partition
Partition(completed) == completed = DoneItems(row.active)

CommitCheckpoint(c) ==
    LET k == call[c] IN
    /\ k.op = "checkpoint"
    /\ row.version = k.row.version /\ row.active = k.row.active /\ row.epoch = k.row.epoch
    /\ Partition(k.completed)
    /\ Len(checkpoints) < MaxCheckpoints /\ row.version < MaxMoves
    /\ checkpoints' = Append(checkpoints,
          [revision |-> row.active, epoch |-> row.epoch, completed |-> k.completed])
    /\ row' = [row EXCEPT !.version = @ + 1, !.checkpoint = Len(checkpoints) + 1]
    /\ call' = [call EXCEPT ![c] = NoCall]
    /\ UNCHANGED <<revisions, work, epochs>>

\* create_epoch of a restart, from any checkpoint of the mission: its guards
\* are repeated under the lock, what it read before is immutable.
RestartEpoch(k) ==
    /\ row.phase = "executing" /\ row.active # 0
    /\ row.epoch = Len(epochs) /\ Len(epochs) < MaxEpochs
    /\ row.version < MaxMoves
    /\ epochs' = Append(epochs, k)
    /\ row' = [row EXCEPT !.version = @ + 1, !.epoch = Len(epochs) + 1, !.checkpoint = k]
    /\ UNCHANGED <<revisions, work, checkpoints, call>>

-----------------------------------------------------------------------------
Move(new) ==
    /\ row.version < MaxMoves /\ row.phase # "completed"
    /\ row' = [new EXCEPT !.version = row.version + 1]
    /\ UNCHANGED <<revisions, work, epochs, checkpoints, call>>

\* _transition of the disposition: stop and resume stand for all of them.
MoveDisposition(d) == row.disposition # d /\ Move([row EXCEPT !.disposition = d])

\* _transition of the phase; the execution phases are one here. The way from
\* waiting back to executing is the approval, which needs a mission without an
\* active revision and without an epoch.
MovePhase(from, to) ==
    /\ row.phase = from /\ row.disposition = "RUNNING"
    /\ <<from, to>> \in {<<"executing", "completed">>, <<"waiting", "drafting">>,
                         <<"drafting", "waiting">>}
    /\ Move([row EXCEPT !.phase = to])

\* A specification of the same bytes and another media type is attached: the
\* mission loses epoch and checkpoint. Other bytes would invalidate the active
\* revision, and taking it back is refused by
\* autonomous_revision_activation_requires_authority.
SourceChanges ==
    /\ row.phase \in {"waiting", "drafting"}
    /\ row.phase = "waiting" => row.disposition = "RUNNING"
    /\ Move([row EXCEPT !.phase = "drafting", !.epoch = 0, !.checkpoint = 0])

\* The caller is killed, or refused at its commit.
Abandon(c) ==
    /\ call[c].op # "none"
    /\ call' = [call EXCEPT ![c] = NoCall]
    /\ UNCHANGED <<row, revisions, work, epochs, checkpoints>>

LNext ==
    \/ \E origin \in Origins, edit \in Edits, parent \in 1..Latest :
          CreateRevision(origin, parent, edit)
    \/ \E c \in LCallers :
          \/ \E n \in 1..Latest : ReadApply(c, n)
          \/ \E i \in Items, target \in Statuses : ReadItem(c, i, target)
          \/ ReadCheckpoint(c) \/ CommitApply(c) \/ CommitItem(c) \/ CommitCheckpoint(c) \/ Abandon(c)
    \/ \E k \in 1..Len(checkpoints) : RestartEpoch(k)
    \/ \E d \in {"RUNNING", "STOPPED"} : MoveDisposition(d)
    \/ \E from, to \in {"executing", "waiting", "drafting", "completed"} : MovePhase(from, to)
    \/ SourceChanges

LSpec == LInit /\ [][LNext]_lvars

-----------------------------------------------------------------------------
MissionRows ==
    [version : Nat, phase : {"executing", "waiting", "drafting", "completed"},
     disposition : {"RUNNING", "STOPPED"}, active : Nat, epoch : Nat, checkpoint : Nat]
RevisionRows ==
    [parent : Nat, origin : Origins, authority : {"none", "approved", "applied", "waiting"}]
ItemStates == [Items -> [status : Statuses, seq : Nat]]
LCallStates ==
    [op : {"none"}] \cup [op : {"apply"}, revision : DOMAIN revisions, row : MissionRows]
      \cup [op : {"item"}, item : Items, target : Statuses, seq : Nat, row : MissionRows]
      \cup [op : {"checkpoint"}, completed : SUBSET Items, row : MissionRows]

LTypeOK ==
    /\ row \in MissionRows
    /\ revisions \in Seq(RevisionRows)
    /\ work \in Seq(ItemStates) /\ Len(work) = Len(revisions)
    /\ epochs \in Seq(Nat)
    /\ checkpoints \in Seq([revision : Nat, epoch : Nat, completed : SUBSET Items])
    /\ call \in [LCallers -> LCallStates]

\* Of the revisions a mission ever worked from each extends the one before it:
\* no two extend the same one, whatever was proposed and applied at once, and
\* the mission works from the last of them.
OneLineOfAuthority ==
    /\ \A n \in Authorized : revisions[n].authority = "applied" => revisions[n].parent \in Authorized
    /\ \A m, n \in Authorized : revisions[m].parent = revisions[n].parent => m = n
    /\ row.active # 0 => \A n \in Authorized : n <= row.active

\* What a checkpoint calls completed was completed in its revision and is still,
\* and everything else of it was open: an item done between the caller's reading
\* and the commit is in no checkpoint that does not name it.
CheckpointsExact ==
    [][Len(checkpoints') > Len(checkpoints) =>
         LET k == checkpoints'[Len(checkpoints')] IN
         /\ k.completed = {i \in Items : work'[k.revision][i].status = "DONE"}
         /\ k.revision \in Authorized /\ k.epoch = Len(epochs)]_lvars

\* What makes the two inductive: a revision is younger than its parent, the mission
\* always works from a revision that is in force and none in force is younger, and
\* an epoch the mission has is the newest, and it has one when a checkpoint is asked for.
LineGrows ==
    /\ \A n \in DOMAIN revisions : revisions[n].parent < n
    /\ row.active \in Authorized
    /\ revisions[1].authority = "approved"
    /\ \A n \in DOMAIN revisions : revisions[n].authority = "approved" => n = 1
    /\ row.epoch \in {0, Len(epochs)}
    /\ \A c \in LCallers : call[c].op = "checkpoint" => call[c].row.epoch # 0

LedgerInv == LTypeOK /\ OneLineOfAuthority /\ LineGrows
=============================================================================
