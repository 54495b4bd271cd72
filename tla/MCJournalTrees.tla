---------------------------- MODULE MCJournalTrees ----------------------------
(* The journal's instance, the worktree of an execution epoch, the worktree of *)
(* a task's assignment, the statements the database takes about a mission's    *)
(* authority, and what a recovery pass reads. They share no state: one of them *)
(* moves in a behaviour, chosen at its start.                                  *)
EXTENDS OperationJournal, EpochWorktree, TaskWorktree, AuthoritySchema, MissionRecovery, TLC

CONSTANTS commit, files, c1, c2, c3, c4, k1, k2, k3, k4, e1, e2, w1, w2, t1

MCAbout == [c \in Callers |-> IF c \in {c3, c4} THEN files ELSE commit]

\* Bound of the model: three of the callers call, two when there is a second restart.
MCThreeCalls ==
    Cardinality({c \in Callers : pc[c] # "idle"}) <= IF restarts = MaxRestarts THEN 2 ELSE 3

Alike == Permutations(RecoveryKeys) \cup Permutations({c1, c2}) \cup Permutations({c3, c4})

VARIABLE moving

MCTreesInit ==
    /\ moving \in {"journal", "epochtree", "tasktree", "authority", "recovery"}
    /\ Init /\ EWInit /\ TWInit /\ ASInit /\ RInit
    /\ moving # "recovery" => job.class = "service" /\ row.phase = "development"

MCTreesNext ==
    /\ UNCHANGED moving
    /\ \/ moving = "journal" /\ Next /\ UNCHANGED <<ewvars, twvars, asvars, rvars>>
       \/ moving = "epochtree" /\ EWNext /\ UNCHANGED <<vars, twvars, asvars, rvars>>
       \/ moving = "tasktree" /\ TWNext /\ UNCHANGED <<vars, ewvars, asvars, rvars>>
       \/ moving = "authority" /\ ASNext /\ UNCHANGED <<vars, ewvars, twvars, rvars>>
       \/ moving = "recovery" /\ RNext /\ UNCHANGED <<vars, ewvars, twvars, asvars>>

\* Bound of the model: two callers of an epoch are at work while at most one change
\* was made by others.
MCEpochBound == outside = MaxOutside => \E c \in ECallers : ecall[c].pc = "idle"

\* Bound of the model: missions without verified proposals are left out, an epoch
\* comes once the mission waits and has one proposal, and a second source, a second
\* revision, a pause and a blocked report come one beside another only where the
\* approval may depend on both.
MCAuthorityBound ==
    /\ approvalRows = <<>> => missionRow.revision = 0 /\ missionRow.epoch = 0 /\ grantRows = <<>>
    /\ epochRows # <<>> => /\ missionRow.phase \in {Waiting} \cup Executing
                          /\ epochRows[1].activation \in {5, 6}
                          /\ Cardinality(planRows) = 1 /\ Len(verificationRows) = 1
    /\ missionRow.phase \in {"DRAFT", "SPECIFICATION_ANALYSIS"} => verificationRows = <<>>
    /\ Len(revisionRows) = 2 => sourceRows = 1 \/ epochRows # <<>>
    /\ sourceRows = 2 => Len(verificationRows) <= 1 /\ missionRow.version <= 6
    /\ missionRow.disposition = "PAUSED" =>
          approvalRows # <<>> /\ Len(revisionRows) = 1 /\ sourceRows = 1
    /\ (\E v \in DOMAIN verificationRows : verificationRows[v].result = 0) =>
          Len(revisionRows) = 1 /\ sourceRows = 1

\* Bound of the model: a pass comes after the reservation and ends the behaviour with
\* its record; a damage of the repository, and a change of the mission's pointers,
\* meets the class that reads it.
MCRecoveryBound ==
    /\ job.life = "absent" => scan = NoPass
    /\ \A k \in DOMAIN records : ~Recorded(k)
    /\ row.phase = "approved" => job.class = "service"
    /\ row.rev # 1 => job.class = "revision_transition"
    /\ ledger.epochs # 1 => job.class = "epoch_transition"
    /\ row.checkpoint # 0 => job.class \in {"checkpoint", "epoch_transition"}
    /\ ~repo.branch => job.class = "git_integration"
    /\ repo.lost # {} => job.class \in {"checkpoint", "epoch_transition"} /\ row.version <= 3
    /\ repo.tree \in {"other", "broken"} => job.class = "worktree"
    /\ ~repo.evidence => job.class = "service"

MCTreesSpec == MCTreesInit /\ [][MCTreesNext]_<<moving, vars, ewvars, twvars, asvars, rvars>>
=============================================================================
