----------------------------- MODULE TaskWorktree -----------------------------
(* The worktree of a task's assignment (worktrees.py, storage.py): provisioned *)
(* for its lease, reconciled with what is on disk, retained when the           *)
(* assignment has ended and removed when its deadline has passed.              *)
(*                                                                             *)
(* Its branch and path carry the fencing token, so every claim has its own.    *)
(* Each change of the row is a transaction of its own with Git at work between *)
(* them; a change reads the row first and writes only the row it has read.     *)
EXTENDS Naturals, Sequences, FiniteSets

CONSTANTS
    TClaims,        \* assignments, each with its fencing token
    TCallers,       \* processes that call the manager
    MaxLosses       \* bound of the model: directories lost or branches switched

VARIABLES
    claim,      \* the assignment and its lease: "none", "live", "ended"
    wrow,       \* worktrees.status
    until,      \* worktrees.retention_until: "none", "set", "elapsed"
    disk,       \* the claim's branch, and the directory at its path
    tcall,      \* what each caller is at
    losses,
    overtaken   \* history: claims whose directory was removed while they were provisioned

twvars == <<claim, wrow, until, disk, tcall, losses, overtaken>>

NoTCall == [pc |-> "idle"]
TreeStatuses == {"provisioning", "ready", "dirty", "retained", "missing", "cleaned"}

TWInit ==
    /\ claim = [k \in TClaims |-> "none"] /\ losses = 0
    /\ wrow = [k \in TClaims |-> "none"] /\ until = [k \in TClaims |-> "none"]
    /\ disk = [k \in TClaims |-> [ref |-> "none", at |-> FALSE, on |-> FALSE, dirty |-> FALSE,
                                  entry |-> FALSE]]
    /\ tcall = [c \in TCallers |-> NoTCall] /\ overtaken = {}

\* lifecycle.py and the trigger worktrees_valid_transition.
TreeMoves ==
    [s \in TreeStatuses |->
        CASE s = "provisioning" -> {"ready", "missing", "cleaned"}
          [] s = "ready" -> {"dirty", "retained", "missing"}
          [] s = "dirty" -> {"ready", "retained", "missing"}
          [] s = "retained" -> {"cleaned", "missing"}
          [] s = "missing" -> {"provisioning", "cleaned"}
          [] s = "cleaned" -> {}]

Goes(c, to) == tcall' = [tcall EXCEPT ![c] = to]
Ended(c) == Goes(c, NoTCall)

\* The rest of a call: transitions to make, one after the other.
Moving(c, k, todo) == Goes(c, IF todo = <<>> THEN NoTCall
                              ELSE [pc |-> "move", k |-> k, todo |-> todo])

-----------------------------------------------------------------------------
(* The scheduler: a claim, and its end by completion, failure or expiry.     *)

ClaimTask(k) ==
    /\ claim[k] = "none"
    /\ claim' = [claim EXCEPT ![k] = "live"]
    /\ UNCHANGED <<wrow, until, disk, tcall, losses, overtaken>>

EndClaim(k) ==
    /\ claim[k] = "live"
    /\ claim' = [claim EXCEPT ![k] = "ended"]
    /\ UNCHANGED <<wrow, until, disk, tcall, losses, overtaken>>

-----------------------------------------------------------------------------
\* transition_managed_worktree: the row is read, an illegal change raises; the
\* update names the status that was read.
ReadRow(c) ==
    LET o == tcall[c]
        target == Head(o.todo)
    IN
    /\ o.pc = "move"
    /\ \/ wrow[o.k] = target /\ Moving(c, o.k, Tail(o.todo))
       \/ target \in TreeMoves[wrow[o.k]] /\ Goes(c, [pc |-> "write", k |-> o.k, todo |-> o.todo,
                                                      source |-> wrow[o.k]])
       \/ wrow[o.k] # target /\ target \notin TreeMoves[wrow[o.k]] /\ Ended(c)
    /\ UNCHANGED <<claim, wrow, until, disk, losses, overtaken>>

WriteRow(c) ==
    LET o == tcall[c]
        target == Head(o.todo)
        hit == wrow[o.k] = o.source
    IN
    /\ o.pc = "write"
    /\ wrow' = IF hit THEN [wrow EXCEPT ![o.k] = target] ELSE wrow
    /\ until' = IF hit /\ target = "retained" THEN [until EXCEPT ![o.k] = "set"] ELSE until
    /\ Moving(c, o.k, Tail(o.todo))
    /\ UNCHANGED <<claim, disk, losses, overtaken>>

\* provision: create_managed_worktree demands the live lease and inserts the row,
\* or finds it.
CreateTree(c, k) ==
    /\ tcall[c].pc = "idle" /\ claim[k] = "live"
    /\ wrow' = IF wrow[k] = "none" THEN [wrow EXCEPT ![k] = "provisioning"] ELSE wrow
    /\ Goes(c, [pc |-> "view", k |-> k])
    /\ UNCHANGED <<claim, until, disk, losses, overtaken>>

\* provision: a finished worktree is returned or found wanting; a missing one is
\* provisioned again, and so is what was cleaned since the row was asked for.
ViewTree(c) ==
    LET k == tcall[c].k IN
    /\ tcall[c].pc = "view"
    /\ \/ wrow[k] \in {"ready", "dirty", "retained"} /\ Ended(c) /\ UNCHANGED wrow
       \/ wrow[k] = "missing" /\ wrow' = [wrow EXCEPT ![k] = "provisioning"]
          /\ Goes(c, [pc |-> "branch", k |-> k])
       \/ wrow[k] \in {"provisioning", "cleaned"} /\ Goes(c, [pc |-> "branch", k |-> k])
          /\ UNCHANGED wrow
    /\ UNCHANGED <<claim, until, disk, losses, overtaken>>

AtBase(k) == disk[k].on /\ disk[k].ref = "base"
Readied(k) == IF disk[k].dirty THEN <<"ready", "dirty">> ELSE <<"ready">>

\* A directory that is there is adopted at its base and branch; otherwise its
\* branch is used, or made.
LookForTree(c) ==
    LET k == tcall[c].k IN
    /\ tcall[c].pc = "branch"
    /\ \/ disk[k].at /\ AtBase(k) /\ Moving(c, k, Readied(k))
       \/ disk[k].at /\ ~AtBase(k) /\ Ended(c)
       \/ ~disk[k].at /\ disk[k].ref = "later" /\ Ended(c)
       \/ /\ ~disk[k].at /\ disk[k].ref # "later"
          /\ Goes(c, [pc |-> "add", k |-> k, create |-> disk[k].ref = "none"])
    /\ UNCHANGED <<claim, wrow, until, disk, losses, overtaken>>

\* git worktree add, which refuses a registered path and with -b a branch that
\* exists; the result is inspected.
AddTree(c) ==
    LET k == tcall[c].k IN
    /\ tcall[c].pc = "add"
    /\ IF ~disk[k].at /\ ~disk[k].entry /\ (tcall[c].create <=> disk[k].ref = "none")
       THEN /\ disk' = [disk EXCEPT ![k] = [ref |-> IF @.ref = "none" THEN "base" ELSE @.ref,
                                            at |-> TRUE, on |-> TRUE, dirty |-> FALSE,
                                            entry |-> TRUE]]
            /\ IF disk'[k].ref = "base" THEN Moving(c, k, <<"ready">>) ELSE Ended(c)
       ELSE Ended(c) /\ UNCHANGED disk
    /\ UNCHANGED <<claim, wrow, until, losses, overtaken>>

-----------------------------------------------------------------------------
\* retain: a terminal assignment's worktree gets its deadline.
Retain(c, k) ==
    /\ tcall[c].pc = "idle"
    /\ claim[k] = "ended" /\ wrow[k] \in {"ready", "dirty", "retained"}
    /\ Moving(c, k, <<"retained">>)
    /\ UNCHANGED <<claim, wrow, until, disk, losses, overtaken>>

\* cleanup compares instants only: the deadline passes whatever is under way.
Elapse(k) ==
    /\ until[k] = "set"
    /\ until' = [until EXCEPT ![k] = "elapsed"]
    /\ UNCHANGED <<claim, wrow, disk, tcall, losses, overtaken>>

\* cleanup: terminal, retained or missing since, with its deadline behind it.
Cleanable(k) ==
    claim[k] = "ended" /\ wrow[k] \in {"retained", "missing"} /\ until[k] = "elapsed"

Cleanup(c, k) ==
    /\ tcall[c].pc = "idle" /\ Cleanable(k)
    /\ Goes(c, [pc |-> "remove", k |-> k])
    /\ UNCHANGED <<claim, wrow, until, disk, losses, overtaken>>

\* A call is under way that may yet add the directory.
Provisioned(k) == \E c \in TCallers : tcall[c].pc \in {"view", "branch", "add"} /\ tcall[c].k = k

\* Mutant: git worktree prune is left out.
Unpruned(trees) == trees

\* git worktree prune forgets every directory that is gone.
Pruned(trees) == [q \in TClaims |-> [trees[q] EXCEPT !.entry = @ /\ trees[q].at]]

\* cleanup, with the checks behind it: git worktree remove --force, which refuses what
\* is not registered and is left out when the directory is gone, and prune.
RemoveTree(c) ==
    LET k == tcall[c].k
        removed == [disk EXCEPT ![k] = [@ EXCEPT !.at = FALSE, !.on = FALSE, !.dirty = FALSE,
                                                 !.entry = @ /\ ~disk[k].at]]
    IN
    /\ tcall[c].pc = "remove"
    /\ IF disk[k].at /\ ~disk[k].entry THEN Ended(c) /\ UNCHANGED <<disk, overtaken>>
       ELSE /\ disk' = Pruned(removed)
            /\ overtaken' = IF Provisioned(k) THEN overtaken \cup {k} ELSE overtaken
            /\ Moving(c, k, <<"cleaned">>)
    /\ UNCHANGED <<claim, wrow, until, losses>>

\* reconcile, one worktree at a time: the registrations are read before the rows.
ListTrees(c, k) ==
    /\ tcall[c].pc = "idle"
    /\ Goes(c, [pc |-> "list", k |-> k, entry |-> disk[k].entry])
    /\ UNCHANGED <<claim, wrow, until, disk, losses, overtaken>>

\* What the row is moved to, for what is found on disk.
Converging(k) ==
    (CASE wrow[k] = "missing" -> <<"provisioning", "ready">>
       [] wrow[k] = "provisioning" -> <<"ready">>
       [] wrow[k] = "dirty" /\ ~disk[k].dirty -> <<"ready">>
       [] OTHER -> <<>>)
    \o (IF disk[k].dirty /\ wrow[k] \in {"missing", "provisioning", "ready"} THEN <<"dirty">> ELSE <<>>)

ReconcileTree(c) ==
    LET k == tcall[c].k IN
    /\ tcall[c].pc = "list"
    /\ \/ wrow[k] \in {"none", "cleaned"} /\ Ended(c)
       \/ /\ wrow[k] \notin {"none", "cleaned"} /\ ~(disk[k].at /\ tcall[c].entry)
          /\ Moving(c, k, <<"missing">>)
       \/ /\ wrow[k] \notin {"none", "cleaned"} /\ disk[k].at /\ tcall[c].entry
          /\ IF ~disk[k].on \/ (wrow[k] = "provisioning" /\ disk[k].ref # "base")
             THEN Ended(c) ELSE Moving(c, k, Converging(k))
    /\ UNCHANGED <<claim, wrow, until, disk, losses, overtaken>>

KillTCall(c) ==
    /\ tcall[c].pc # "idle" /\ Ended(c)
    /\ UNCHANGED <<claim, wrow, until, disk, losses, overtaken>>

\* assert_owned, and the worker that was given the path; it goes on writing
\* until it looks again.
WorkInTree(k) ==
    /\ wrow[k] \in {"ready", "dirty"} /\ disk[k].at /\ disk[k].on
    /\ \/ disk' = [disk EXCEPT ![k].dirty = TRUE]
       \/ disk' = [disk EXCEPT ![k].dirty = FALSE, ![k].ref = "later"]
    /\ UNCHANGED <<claim, wrow, until, tcall, losses, overtaken>>

\* A directory is lost or moved away, comes back, or has another branch checked out.
Lose(k) ==
    /\ losses < MaxLosses /\ losses' = losses + 1
    /\ disk[k].entry
    /\ disk' \in {[disk EXCEPT ![k].at = FALSE, ![k].on = FALSE], [disk EXCEPT ![k].on = FALSE],
                  [disk EXCEPT ![k].at = TRUE, ![k].on = TRUE]}
    /\ UNCHANGED <<claim, wrow, until, tcall, overtaken>>

TWNext ==
    \/ \E c \in TCallers :
          \/ ReadRow(c) \/ WriteRow(c) \/ ViewTree(c) \/ LookForTree(c) \/ AddTree(c)
          \/ RemoveTree(c) \/ ReconcileTree(c) \/ KillTCall(c)
          \/ \E k \in TClaims : CreateTree(c, k) \/ Retain(c, k) \/ Cleanup(c, k) \/ ListTrees(c, k)
    \/ \E k \in TClaims : ClaimTask(k) \/ EndClaim(k) \/ Elapse(k) \/ WorkInTree(k) \/ Lose(k)

TWSpec == TWInit /\ [][TWNext]_twvars

-----------------------------------------------------------------------------
\* A worktree that is recorded as cleaned has neither a directory nor a registration
\* that could bring one back, unless a provisioning of its own was under way when it
\* was removed: that one may still add the directory, and its row, which nothing
\* leaves, keeps reconciliation from seeing it (cleanup, provision, reconcile).
CleanedIsGone ==
    \A k \in TClaims \ overtaken : wrow[k] = "cleaned" => ~disk[k].at /\ ~disk[k].entry

TCallStates ==
    [pc : {"idle"}] \cup [pc : {"view", "branch", "remove"}, k : TClaims]
      \cup [pc : {"add"}, k : TClaims, create : BOOLEAN]
      \cup [pc : {"list"}, k : TClaims, entry : BOOLEAN]
      \cup [pc : {"move"}, k : TClaims, todo : Seq(TreeStatuses)]
      \cup [pc : {"write"}, k : TClaims, todo : Seq(TreeStatuses),
            source : TreeStatuses \cup {"none"}]

TreesOnDisk ==
    [ref : {"none", "base", "later"}, at : BOOLEAN, on : BOOLEAN, dirty : BOOLEAN, entry : BOOLEAN]

TWTypeOK ==
    /\ claim \in [TClaims -> {"none", "live", "ended"}]
    /\ wrow \in [TClaims -> TreeStatuses \cup {"none"}]
    /\ until \in [TClaims -> {"none", "set", "elapsed"}]
    /\ disk \in [TClaims -> TreesOnDisk]
    /\ tcall \in [TCallers -> TCallStates]
    /\ overtaken \subseteq TClaims

\* What makes it inductive: a deadline is only set for an assignment that has ended,
\* and nobody begins to provision for one. What is removed then, and is provisioned
\* for no more, has neither a directory nor a registration and gets none.
Drained == {k \in TClaims : claim[k] = "ended" /\ ~Provisioned(k)}

Gone == {k \in Drained : ~disk[k].at /\ ~disk[k].entry}

Swept == Gone \cup overtaken

\* The transitions provisioning and reconciliation plan.
PlainTodos == Seq({"provisioning", "ready", "dirty", "missing"})

\* The calls that may be under way: what they have yet to do is due.
DueCalls ==
    {s \in TCallStates :
        /\ s.pc = "remove" => claim[s.k] = "ended"
        /\ s.pc \in {"move", "write"} =>
              \/ s.todo = <<"retained">> /\ claim[s.k] = "ended"
              \/ s.todo = <<"cleaned">> /\ s.k \in Swept
              \/ s.todo \in PlainTodos \ {<<>>}}

TreeRowsSound ==
    \A k \in TClaims : /\ until[k] # "none" => claim[k] = "ended"
                       /\ wrow[k] = "cleaned" => k \in Swept

TreeInv == TWTypeOK /\ TreeRowsSound /\ \A c \in TCallers : tcall[c] \in DueCalls
=============================================================================
