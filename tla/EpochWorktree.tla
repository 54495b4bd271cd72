---------------------------- MODULE EpochWorktree ----------------------------
(* The branch and worktree of an execution epoch (worktrees.py): reserved in  *)
(* the database before Git is touched, provisioned by "git worktree add", and *)
(* observed again and again, each observation appended to the epoch's events. *)
(* The repository belongs to everybody: workers commit, people move branches  *)
(* and delete directories between any two of these steps.                     *)
EXTENDS Naturals, FiniteSets

CONSTANTS
    ECallers,       \* processes that provision or reconcile the epoch
    MaxOutside      \* bound of the model: changes made by others

VARIABLES
    last,       \* the epoch's latest event, "none" before its authority is reserved
    git,        \* the epoch branch's head, and what is at the epoch's path
    saved,      \* heads with a checkpoint of this epoch
    ecall,      \* what each caller is at
    handed,     \* the head of the worktree its last provision returned
    outside

ewvars == <<last, git, saved, ecall, handed, outside>>

\* The approved base, a descendant of it, and a commit of another history.
Heads == {"base", "later", "foreign"}
Descends == {"base", "later"}
NoECall == [pc |-> "idle"]

EWInit ==
    /\ last = "none" /\ saved = {} /\ outside = 0
    /\ git = [ref |-> "none", at |-> "nothing", on |-> FALSE, dirty |-> FALSE,
              entry |-> FALSE, elsewhere |-> FALSE]
    /\ ecall = [c \in ECallers |-> NoECall]
    /\ handed = [c \in ECallers |-> "none"]

\* _authorized_epoch_head: the base, or a checkpointed descendant.
LineageHead(h) == h = "base" \/ h \in saved \cap Descends

\* The trigger on autonomous_epoch_worktree_events.
Follows(previous, new) ==
    CASE previous \in {"RESERVED"} -> new # "RESERVED"
      [] previous = "MISSING" -> new \in {"PROVISIONING", "READY", "MISSING", "CONFLICT"}
      [] OTHER -> new \in {"READY", "DIRTY", "MISSING", "CONFLICT"}

-----------------------------------------------------------------------------
\* reserve_epoch: the authority and its first event, or the one there is.
Provision(c) ==
    /\ ecall[c].pc = "idle"
    /\ last' = IF last = "none" THEN "RESERVED" ELSE last
    /\ ecall' = [ecall EXCEPT ![c] = [pc |-> "look", op |-> "provision"]]
    /\ handed' = [handed EXCEPT ![c] = "none"]
    /\ UNCHANGED <<git, saved, outside>>

ReconcileEpoch(c) ==
    /\ ecall[c].pc = "idle" /\ last # "none"
    /\ ecall' = [ecall EXCEPT ![c] = [pc |-> "look", op |-> "reconcile"]]
    /\ UNCHANGED <<last, git, saved, handed, outside>>

Returns(c) == ecall' = [ecall EXCEPT ![c] = NoECall]

\* The commit the worktree has checked out.
TreeHead == IF git.on THEN git.ref ELSE "foreign"

Sees(c, status) ==
    ecall' = [ecall EXCEPT ![c] = [pc |-> "record", op |-> ecall[c].op, head |-> TreeHead,
                                   status |-> status]]

\* The first half of _observe_epoch_worktree: registrations and the branch.
LookAtRefs(c) ==
    /\ ecall[c].pc = "look"
    /\ IF git.ref # "none" /\ ~LineageHead(git.ref)
       THEN Sees(c, "CONFLICT")
       ELSE ecall' = [ecall EXCEPT ![c] = [pc |-> "inspect", op |-> ecall[c].op, ref |-> git.ref,
                                           entry |-> git.entry, elsewhere |-> git.elsewhere]]
    /\ UNCHANGED <<last, git, saved, handed, outside>>

\* Mutant: the worktree's HEAD is not compared with the branch that was judged.
JudgeByBranch(o) ==
    CASE git.at = "nothing" -> IF o.entry \/ o.elsewhere THEN "CONFLICT" ELSE "MISSING"
      [] git.at = "tree" /\ o.entry -> IF git.dirty THEN "DIRTY" ELSE "READY"
      [] OTHER -> "CONFLICT"

\* The second half: the directory, against what was read of the refs.
Judge(o) ==
    CASE git.at = "nothing" -> IF o.entry \/ o.elsewhere THEN "CONFLICT" ELSE "MISSING"
      [] git.at = "tree" /\ o.entry /\ git.on /\ git.ref = o.ref ->
            IF git.dirty THEN "DIRTY" ELSE "READY"
      [] OTHER -> "CONFLICT"

LookAtTree(c) ==
    /\ ecall[c].pc = "inspect"
    /\ Sees(c, Judge(ecall[c]))
    /\ UNCHANGED <<last, git, saved, handed, outside>>

\* append_autonomous_epoch_worktree_event, and what provision_epoch makes of it.
\* An event the trigger refuses raises, and the call ends.
Record(c) ==
    LET o == ecall[c]
        taken == Follows(last, o.status)
    IN
    /\ o.pc = "record"
    /\ last' = IF taken THEN o.status ELSE last
    /\ ecall' = [ecall EXCEPT ![c] = IF taken /\ o.op = "provision" /\ o.status = "MISSING"
                                     THEN [pc |-> "preflight"] ELSE NoECall]
    /\ handed' = IF taken /\ o.op # "reconcile" /\ o.status = "READY"
                 THEN [handed EXCEPT ![c] = o.head] ELSE handed
    /\ UNCHANGED <<git, saved, outside>>

\* _epoch_reservation_observation again: the branch must not be checked out
\* anywhere nor have left its lineage.
Preflight(c) ==
    /\ ecall[c].pc = "preflight"
    /\ ecall' = [ecall EXCEPT ![c] =
          IF git.entry \/ git.elsewhere \/ (git.ref # "none" /\ ~LineageHead(git.ref))
          THEN [pc |-> "record", op |-> "fails", head |-> TreeHead, status |-> "CONFLICT"]
          ELSE [pc |-> "intend", create |-> git.ref = "none"]]
    /\ UNCHANGED <<last, git, saved, handed, outside>>

\* The PROVISIONING event: from here Git may be changed.
Intend(c) ==
    /\ ecall[c].pc = "intend"
    /\ IF Follows(last, "PROVISIONING")
       THEN last' = "PROVISIONING" /\ ecall' = [ecall EXCEPT ![c].pc = "add"]
       ELSE Returns(c) /\ UNCHANGED last
    /\ UNCHANGED <<git, saved, handed, outside>>

\* git worktree add refuses an occupied or registered path, a branch that is
\* checked out, and with -b one that exists.
Addable(create) ==
    /\ git.at = "nothing" /\ ~git.entry
    /\ IF create THEN git.ref = "none" ELSE git.ref # "none" /\ ~git.elsewhere

Add(c) ==
    LET o == ecall[c] IN
    /\ o.pc = "add"
    /\ IF Addable(o.create)
       THEN /\ git' = [git EXCEPT !.ref = IF o.create THEN "base" ELSE @, !.at = "tree",
                                  !.on = TRUE, !.dirty = FALSE, !.entry = TRUE]
            /\ ecall' = [ecall EXCEPT ![c] = [pc |-> "look", op |-> "added"]]
       ELSE /\ ecall' = [ecall EXCEPT ![c] = [pc |-> "record", op |-> "fails", head |-> TreeHead,
                                              status |-> "CONFLICT"]]
            /\ UNCHANGED git
    /\ UNCHANGED <<last, saved, handed, outside>>

\* The process ends at any step; with it git, which makes the branch first.
KillECall(c) ==
    /\ ecall[c].pc # "idle"
    /\ Returns(c)
    /\ \/ UNCHANGED git
       \/ /\ ecall[c].pc = "add" /\ ecall[c].create /\ Addable(TRUE)
          /\ git' = [git EXCEPT !.ref = "base"]
    /\ UNCHANGED <<last, saved, handed, outside>>

\* record_checkpoint of the epoch, of what its clean worktree has checked out.
SaveCheckpoint ==
    /\ git.at = "tree" /\ git.on /\ ~git.dirty
    /\ saved' = saved \cup {git.ref}
    /\ UNCHANGED <<last, git, ecall, handed, outside>>

\* Workers and people: a commit or a moved branch, an edit, another branch checked
\* out here or this one elsewhere, a directory deleted, put there or pruned.
Outsider ==
    /\ outside < MaxOutside /\ outside' = outside + 1
    /\ \/ \E h \in Heads : git' = [git EXCEPT !.ref = h]
       \/ git.at = "tree" /\ git' = [git EXCEPT !.dirty = ~@]
       \/ git.at = "tree" /\ git' = [git EXCEPT !.on = FALSE]
       \/ git.at = "nothing" /\ git' = [git EXCEPT !.at = "plain"]
       \/ git' = [git EXCEPT !.at = "nothing", !.on = FALSE, !.dirty = FALSE]
       \/ git.at # "tree" /\ git' = [git EXCEPT !.entry = FALSE]
       \/ git.ref # "none" /\ ~git.on /\ git' = [git EXCEPT !.elsewhere = ~@]
    /\ UNCHANGED <<last, saved, ecall, handed>>

EWNext ==
    \/ \E c \in ECallers :
          \/ Provision(c) \/ ReconcileEpoch(c) \/ LookAtRefs(c) \/ LookAtTree(c) \/ Record(c)
          \/ Preflight(c) \/ Intend(c) \/ Add(c) \/ KillECall(c)
    \/ SaveCheckpoint \/ Outsider

EWSpec == EWInit /\ [][EWNext]_ewvars

-----------------------------------------------------------------------------
\* Nobody is handed an epoch's worktree at a commit that is neither the base nor a
\* checkpoint of the epoch, however others move the branch, the directory and the
\* registrations between the looks (provision_epoch, _observe_epoch_worktree).
HandedInLineage ==
    \A c \in ECallers : handed[c] \in {"none", "base"} \cup (saved \cap {"base", "later"})

ECallStates ==
    [pc : {"idle", "preflight"}] \cup [pc : {"look"}, op : {"provision", "reconcile", "added"}]
      \cup [pc : {"inspect"}, op : {"provision", "reconcile", "added"}, ref : Heads \cup {"none"},
            entry : BOOLEAN, elsewhere : BOOLEAN]
      \cup [pc : {"record"}, op : {"provision", "reconcile", "added", "fails"},
            head : Heads \cup {"none"}, status : {"READY", "DIRTY", "MISSING", "CONFLICT"}]
      \cup [pc : {"intend", "add"}, create : BOOLEAN]

EWTypeOK ==
    /\ last \in {"none", "RESERVED", "PROVISIONING", "READY", "DIRTY", "MISSING", "CONFLICT"}
    /\ git \in [ref : Heads \cup {"none"}, at : {"nothing", "plain", "tree"}, on : BOOLEAN,
                dirty : BOOLEAN, entry : BOOLEAN, elsewhere : BOOLEAN]
    /\ ecall \in [ECallers -> ECallStates]
    /\ handed \in [ECallers -> Heads \cup {"none"}]

\* What makes it inductive: a branch is only inspected once it was judged, and a
\* worktree is only called ready with the commit that was judged. Checkpoints stay.
InLineage(h) == h = "none" \/ LineageHead(h)

LooksSound ==
    \A c \in ECallers :
       /\ ecall[c].pc = "inspect" => InLineage(ecall[c].ref)
       /\ ecall[c].pc = "record" /\ ecall[c].status = "READY" => InLineage(ecall[c].head)

EpochInv == EWTypeOK /\ LooksSound /\ HandedInLineage
=============================================================================
