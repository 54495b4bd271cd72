----------------------------- MODULE ControlSchema -----------------------------
(***************************************************************************)
(* What the database itself holds the control of a mission to: the tables  *)
(* of storage.py for epochs and checkpoints, the control fence, child      *)
(* jobs, operation leases, retries and handoffs of an epoch, with the      *)
(* CHECKs, UNIQUEs and triggers a statement must pass.  An action is one   *)
(* statement, by any writer, in any order, so that the mission's row and   *)
(* the fence that mirrors it are not updated together.  Rows are           *)
(* append-only but for those two and a lease's status, which is left out.  *)
(* The mission is an approved one; its revision and item stay.             *)
(***************************************************************************)
EXTENDS Naturals, Sequences

CONSTANTS MaxEpochs, MaxCheckpoints, MaxMissionVersion, MaxToken, MaxWork, MaxRequests   \* bounds of the model

VARIABLES
    missionRow,     \* autonomous_missions
    fenceRow,       \* autonomous_mission_control_fences
    epochRows,      \* autonomous_mission_execution_epochs
    checkpointRows, \* autonomous_mission_checkpoints: their epochs
    grantRows,      \* epochs with an unrevoked autonomous_local_authorization
    workRows,       \* autonomous_child_jobs and ..._operation_leases, in order
    settled,        \* child jobs with a reconciliation or a retry request
    requestRows,    \* autonomous_epoch_handoff_requests
    stopRows,       \* requests whose STOP is in autonomous_mission_control_commands
    preparedRows,   \* autonomous_epoch_handoff_preparations: their requests
    resultRows      \* autonomous_epoch_handoff_results

csvars == <<missionRow, fenceRow, epochRows, checkpointRows, grantRows, workRows, settled,
            requestRows, stopRows, preparedRows, resultRows>>
epochs == <<epochRows, checkpointRows, grantRows>>
handoffs == <<requestRows, stopRows, preparedRows, resultRows>>

Epochs == DOMAIN epochRows
IsJob(w) == workRows[w].kind = "job"

CSInit ==
    /\ missionRow = [disposition |-> "RUNNING", epoch |-> 1, checkpoint |-> 0, version |-> 1]
    /\ fenceRow = [token |-> 1, disposition |-> "RUNNING", epoch |-> 1, version |-> 1]
    /\ epochRows = <<[checkpoint |-> 0, origin |-> "INITIAL"]>>
    /\ checkpointRows = <<>> /\ grantRows = {1} /\ workRows = <<>> /\ settled = {}
    /\ requestRows = <<>> /\ stopRows = {} /\ preparedRows = {} /\ resultRows = {}

-----------------------------------------------------------------------------
\* UPDATE of the mission's row: one version on, to any epoch and checkpoint it has.
UpdateMission(disposition, epoch, checkpoint) ==
    /\ missionRow.version < MaxMissionVersion
    /\ missionRow' = [disposition |-> disposition, epoch |-> epoch, checkpoint |-> checkpoint,
                      version |-> missionRow.version + 1]
    /\ UNCHANGED <<fenceRow, epochs, workRows, settled, handoffs>>

\* Mutant: the fence's epoch may change under one token.
FenceStepAnyEpoch(token) ==
    /\ token \in {fenceRow.token, fenceRow.token + 1}
    /\ missionRow.disposition # fenceRow.disposition => token = fenceRow.token + 1

\* autonomous_control_fence_valid_update
FenceStep(token) ==
    /\ token \in {fenceRow.token, fenceRow.token + 1}
    /\ \/ token = fenceRow.token + 1
       \/ missionRow.disposition = fenceRow.disposition /\ missionRow.epoch = fenceRow.epoch

\* autonomous_control_fence_scope_valid: the fence mirrors the mission.
UpdateFence(token) ==
    /\ token <= MaxToken /\ FenceStep(token)
    /\ fenceRow' = [token |-> token, disposition |-> missionRow.disposition,
                    epoch |-> missionRow.epoch, version |-> missionRow.version]
    /\ fenceRow' # fenceRow
    /\ UNCHANGED <<missionRow, epochs, workRows, settled, handoffs>>

\* autonomous_checkpoint_sequence_valid, ..._epoch_valid
InsertCheckpoint(e) ==
    /\ Len(checkpointRows) < MaxCheckpoints
    /\ checkpointRows' = Append(checkpointRows, e)
    /\ UNCHANGED <<missionRow, fenceRow, epochRows, grantRows, workRows, settled, handoffs>>

\* autonomous_epoch_sequence_valid, ..._predecessor_valid, ..._checkpoint_valid: an
\* epoch comes after the last one, supersedes it, and starts from a checkpoint.
InsertEpoch(c, origin) ==
    /\ Len(epochRows) < MaxEpochs
    /\ epochRows' = Append(epochRows, [checkpoint |-> c, origin |-> origin])
    /\ UNCHANGED <<missionRow, fenceRow, checkpointRows, grantRows, workRows, settled, handoffs>>

\* An authorization is written for the active epoch; it is revoked once.
InsertGrant ==
    /\ missionRow.epoch \notin grantRows
    /\ grantRows' = grantRows \cup {missionRow.epoch}
    /\ UNCHANGED <<missionRow, fenceRow, epochRows, checkpointRows, workRows, settled, handoffs>>
InsertRevocation(e) ==
    /\ e \in grantRows
    /\ grantRows' = grantRows \ {e}
    /\ UNCHANGED <<missionRow, fenceRow, epochRows, checkpointRows, workRows, settled, handoffs>>

-----------------------------------------------------------------------------
Running == missionRow.disposition = "RUNNING" /\ fenceRow.disposition = "RUNNING"
InsertWork(kind, child) ==
    /\ Len(workRows) < MaxWork
    /\ workRows' = Append(workRows, [kind |-> kind, token |-> fenceRow.token,
                                     epoch |-> missionRow.epoch, child |-> child])
    /\ UNCHANGED <<missionRow, fenceRow, epochs, settled, handoffs>>

\* autonomous_child_job_scope_valid, autonomous_child_job_control_fence_valid
InsertJob ==
    /\ Running /\ fenceRow.epoch = missionRow.epoch /\ missionRow.epoch \in grantRows
    /\ InsertWork("job", 0)

\* autonomous_operation_lease_scope_valid: the fence's token and the mission's epoch.
InsertLease(child) ==
    /\ Running
    /\ child # 0 => IsJob(child) /\ workRows[child].epoch = missionRow.epoch
    /\ InsertWork("lease", child)

\* A child job is settled by its reconciliation, which names a checkpoint of its
\* epoch, or by a request to retry it, which names a command.
Settle(w) ==
    /\ IsJob(w) /\ w \notin settled
    /\ settled' = settled \cup {w}
    /\ UNCHANGED <<missionRow, fenceRow, epochs, workRows, handoffs>>

-----------------------------------------------------------------------------
\* autonomous_epoch_handoff_request_scope_valid: no open child job, or this one.
OpenJobs(e) == {w \in DOMAIN workRows : IsJob(w) /\ workRows[w].epoch = e /\ w \notin settled}
InsertRequest(origin, c, job) ==
    /\ Running /\ Len(requestRows) < MaxRequests
    /\ IF job = 0 THEN OpenJobs(missionRow.epoch) = {} ELSE job \in OpenJobs(missionRow.epoch)
    /\ requestRows' = Append(requestRows, [origin |-> origin, checkpoint |-> c, job |-> job,
                                           epoch |-> missionRow.epoch])
    /\ UNCHANGED <<missionRow, fenceRow, epochs, workRows, settled, stopRows, preparedRows,
                   resultRows>>

\* The command of a request's safe boundary: command identities are unique.
InsertStop(r) ==
    /\ r \notin stopRows
    /\ stopRows' = stopRows \cup {r}
    /\ UNCHANGED <<missionRow, fenceRow, epochs, workRows, settled, requestRows, preparedRows,
                   resultRows>>

\* autonomous_epoch_handoff_preparation_scope_valid
InsertPreparation(r) ==
    /\ r \in stopRows \ preparedRows
    /\ preparedRows' = preparedRows \cup {r}
    /\ UNCHANGED <<missionRow, fenceRow, epochs, workRows, settled, requestRows, stopRows,
                   resultRows>>

\* The UNIQUEs of autonomous_epoch_handoff_results.
Unclaimed(r, e) == \A x \in resultRows : x.request # r /\ x.epoch # e

\* autonomous_epoch_handoff_result_scope_valid
InsertResult(r) ==
    LET e == missionRow.epoch IN
    /\ r \in preparedRows /\ Unclaimed(r, e)
    /\ e = requestRows[r].epoch + 1
    /\ epochRows[e].checkpoint = requestRows[r].checkpoint
    /\ epochRows[e].origin = requestRows[r].origin
    /\ e \in grantRows
    /\ Running /\ missionRow.checkpoint = requestRows[r].checkpoint /\ fenceRow.epoch = e
    /\ resultRows' = resultRows \cup {[request |-> r, epoch |-> e, token |-> fenceRow.token]}
    /\ UNCHANGED <<missionRow, fenceRow, epochs, workRows, settled, requestRows, stopRows,
                   preparedRows>>

Restarts == {"CHECKPOINT_RESTART", "BACKLOG_REVISION_RESTART"}
CSNext ==
    \/ \E d \in {"RUNNING", "STOPPED"}, e \in Epochs, c \in {0} \cup DOMAIN checkpointRows :
          UpdateMission(d, e, c)
    \/ \E token \in {fenceRow.token, fenceRow.token + 1} : UpdateFence(token)
    \/ \E e \in Epochs : InsertCheckpoint(e) \/ InsertRevocation(e)
    \/ \E c \in DOMAIN checkpointRows, origin \in Restarts : InsertEpoch(c, origin)
    \/ InsertGrant \/ InsertJob \/ InsertLease(0)
    \/ \E w \in DOMAIN workRows :
          InsertLease(w) \/ Settle(w)
    \/ \E origin \in Restarts, c \in DOMAIN checkpointRows, job \in {0} \cup DOMAIN workRows :
          InsertRequest(origin, c, job)
    \/ \E r \in DOMAIN requestRows : InsertStop(r) \/ InsertPreparation(r) \/ InsertResult(r)

CSSpec == CSInit /\ [][CSNext]_csvars

-----------------------------------------------------------------------------
\* "The SQLite control projection monotonically advances its fencing token whenever
\* disposition or execution epoch changes" (autonomous-mission-planning.md): whatever
\* statements are sent, work is taken under tokens that never go back, two child
\* jobs under one token are of one epoch, and an epoch is handed over once. (A
\* lease's token does not name its epoch: it is taken between the mission's update
\* and the fence's.)
TokensNameEpochs ==
    /\ \A v, w \in DOMAIN workRows :
          /\ v < w => workRows[v].token <= workRows[w].token
          /\ IsJob(v) /\ IsJob(w) /\ workRows[v].token = workRows[w].token =>
                workRows[v].epoch = workRows[w].epoch
    /\ \A x, y \in resultRows :
          requestRows[x.request].epoch = requestRows[y.request].epoch => x = y
=============================================================================
