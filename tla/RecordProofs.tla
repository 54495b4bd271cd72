---------------------------- MODULE RecordProofs ----------------------------
(***************************************************************************)
(* What is recorded about things outside the database, for any number of   *)
(* callers: the worktrees of assignments and of epochs, the operations on  *)
(* GitHub, the line of revisions and checkpoints a mission works from, and *)
(* the versions of a game.                                                 *)
(***************************************************************************)
EXTENDS TaskWorktree, EpochWorktree, GithubMutations, MissionLedger, PlayableVersions,
        SequenceTheorems, FiniteSetTheorems, TLAPS

(* The worktree of an assignment (worktrees.py, storage.py).                 *)

LEMMA TreeInit == TWInit => TreeInv
<1> SUFFICES ASSUME TWInit PROVE TreeInv
  OBVIOUS
<1> USE DEF TWInit, NoTCall
<1>1. TWTypeOK
  BY DEF TWTypeOK, TCallStates, TreesOnDisk
<1>2. TreeRowsSound
  BY DEF TreeRowsSound
<1>3. \A c \in TCallers : tcall[c] \in DueCalls
  BY DEF DueCalls, TCallStates
<1> QED
  BY <1>1, <1>2, <1>3 DEF TreeInv

\* A step of a caller that provisions for no assignment that has ended, brings no
\* directory back that is gone, and writes and plans what is due.
LEMMA CallerSteps ==
    ASSUME TreeInv, NEW c \in TCallers, NEW s \in TCallStates,
           tcall' = [tcall EXCEPT ![c] = s], claim' = claim,
           disk' \in [TClaims -> TreesOnDisk],
           wrow' \in [TClaims -> TreeStatuses \cup {"none"}],
           until' \in [TClaims -> {"none", "set", "elapsed"}],
           \A k \in Gone : ~disk'[k].at /\ ~disk'[k].entry,
           s.pc \in {"view", "branch", "add"} => s.k \notin Drained,
           s.pc = "remove" => claim[s.k] = "ended",
           overtaken \subseteq overtaken', overtaken' \subseteq overtaken \cup TClaims,
           s.pc \in {"move", "write"} =>
              \/ s.todo = <<"retained">> /\ claim[s.k] = "ended"
              \/ /\ s.todo = <<"cleaned">>
                 /\ \/ s.k \in overtaken'
                    \/ s.k \in Drained /\ ~disk'[s.k].at /\ ~disk'[s.k].entry
              \/ s.todo \in PlainTodos \ {<<>>},
           \A k \in TClaims : /\ wrow'[k] = "cleaned" => wrow[k] = "cleaned" \/ k \in Swept
                              /\ until'[k] # "none" => until[k] # "none" \/ claim[k] = "ended"
    PROVE  TreeInv'
<1>1. tcall \in [TCallers -> TCallStates]
  BY DEF TreeInv, TWTypeOK
<1>2. tcall' \in [TCallers -> TCallStates]
  BY <1>1
<1>3. TWTypeOK'
  BY <1>2 DEF TreeInv, TWTypeOK, TCallStates
<1>4. \A d \in TCallers : tcall'[d] = IF d = c THEN s ELSE tcall[d]
  BY <1>1
<1>5. Drained \subseteq Drained'
  BY <1>4 DEF Drained, Provisioned
<1>6. Swept \subseteq Swept'
  BY <1>5 DEF Gone, Swept
<1>7. TreeRowsSound'
  BY <1>6 DEF TreeInv, TreeRowsSound
<1>8. DueCalls \subseteq DueCalls'
  BY <1>6 DEF DueCalls, TCallStates
<1>9. s \in DueCalls'
  <2>1. s \in TCallStates'
    BY DEF TCallStates
  <2>2. s.pc = "remove" => claim'[s.k] = "ended"
    OBVIOUS
  <2>3. s.pc \in {"move", "write"} =>
              \/ s.todo = <<"retained">> /\ claim'[s.k] = "ended"
              \/ s.todo = <<"cleaned">> /\ s.k \in Swept'
              \/ s.todo \in PlainTodos \ {<<>>}
    BY <1>5 DEF Gone, Swept
  <2> QED
    BY <2>1, <2>2, <2>3 DEF DueCalls
<1>10. \A d \in TCallers : tcall'[d] \in DueCalls'
  BY <1>4, <1>8, <1>9 DEF TreeInv
<1> QED
  BY <1>3, <1>7, <1>10 DEF TreeInv

\* What follows when a call goes on with transitions that are neither to retain nor
\* to clean, or with none.
LEMMA CallMoves ==
    ASSUME TreeInv, NEW c \in TCallers, NEW k \in TClaims, NEW todo \in PlainTodos,
           Moving(c, k, todo), claim' = claim, until' = until,
           disk' \in [TClaims -> TreesOnDisk],
           wrow' = wrow, overtaken' = overtaken,
           \A q \in Gone : ~disk'[q].at /\ ~disk'[q].entry
    PROVE  TreeInv'
<1> DEFINE s == IF todo = <<>> THEN [pc |-> "idle"] ELSE [pc |-> "move", k |-> k, todo |-> todo]
<1>1. tcall' = [tcall EXCEPT ![c] = s]
  BY DEF Moving, Goes, NoTCall
<1>2. todo \in Seq(TreeStatuses)
  BY DEF PlainTodos, TreeStatuses
<1>3. s \in TCallStates
  BY <1>2 DEF TCallStates
<1>4. s.pc \in {"move", "write"} => s.todo \in PlainTodos \ {<<>>}
  OBVIOUS
<1>5. wrow \in [TClaims -> TreeStatuses \cup {"none"}] /\ until \in [TClaims -> {"none", "set", "elapsed"}]
  BY DEF TreeInv, TWTypeOK
<1>6. s.pc \notin {"view", "branch", "add", "remove"}
  OBVIOUS
<1> HIDE DEF s
<1> QED
  BY <1>1, <1>3, <1>4, <1>5, <1>6, CallerSteps

LEMMA CallEnds ==
    ASSUME TreeInv, NEW c \in TCallers, Ended(c), claim' = claim, until' = until,
           disk' = disk, overtaken' = overtaken, wrow' \in [TClaims -> TreeStatuses \cup {"none"}],
           \A k \in TClaims : wrow'[k] = "cleaned" => wrow[k] = "cleaned"
    PROVE  TreeInv'
<1>1. tcall' = [tcall EXCEPT ![c] = [pc |-> "idle"]]
  BY DEF Ended, Goes, NoTCall
<1>2. [pc |-> "idle"] \in TCallStates
  BY DEF TCallStates
<1>3. until \in [TClaims -> {"none", "set", "elapsed"}] /\ disk \in [TClaims -> TreesOnDisk]
  BY DEF TreeInv, TWTypeOK
<1> QED
  BY <1>1, <1>2, <1>3, CallerSteps DEF Gone

\* The transition a call makes next, and those it makes after it.
LEMMA DueTodos ==
    ASSUME TreeInv, NEW c \in TCallers, tcall[c].pc \in {"move", "write"}
    PROVE  LET o == tcall[c] IN
           /\ o.k \in TClaims /\ o.todo \in Seq(TreeStatuses)
           /\ \/ o.todo = <<"retained">> /\ claim[o.k] = "ended"
              \/ o.todo = <<"cleaned">> /\ o.k \in Swept
              \/ o.todo \in PlainTodos \ {<<>>}
           /\ Tail(o.todo) \in PlainTodos /\ Head(o.todo) \in TreeStatuses
           /\ Head(o.todo) = "retained" => claim[o.k] = "ended"
           /\ Head(o.todo) = "cleaned" => o.k \in Swept
<1> DEFINE o == tcall[c]
<1>1. o \in TCallStates /\ o \in DueCalls
  BY DEF TreeInv, TWTypeOK
<1>2. o.k \in TClaims /\ o.todo \in Seq(TreeStatuses)
  BY <1>1 DEF TCallStates
<1>3. \/ o.todo = <<"retained">> /\ claim[o.k] = "ended"
      \/ o.todo = <<"cleaned">> /\ o.k \in Swept
      \/ o.todo \in PlainTodos \ {<<>>}
  BY <1>1 DEF DueCalls
<1>4. CASE o.todo = <<"retained">> /\ claim[o.k] = "ended"
  <2>1. Head(o.todo) = "retained" /\ Tail(o.todo) = <<>>
    BY <1>4
  <2> QED
    BY <1>2, <1>3, <1>4, <2>1 DEF PlainTodos, TreeStatuses
<1>5. CASE o.todo = <<"cleaned">> /\ o.k \in Swept
  <2>1. Head(o.todo) = "cleaned" /\ Tail(o.todo) = <<>>
    BY <1>5
  <2> QED
    BY <1>2, <1>3, <1>5, <2>1 DEF PlainTodos, TreeStatuses
<1>6. CASE o.todo \in PlainTodos \ {<<>>}
  <2>1. /\ Head(o.todo) \in {"provisioning", "ready", "dirty", "missing"}
        /\ Tail(o.todo) \in PlainTodos
    BY <1>6 DEF PlainTodos
  <2> QED
    BY <1>2, <1>3, <2>1 DEF TreeStatuses
<1> QED
  BY <1>3, <1>4, <1>5, <1>6

LEMMA RowsAreRead == ASSUME TreeInv, NEW c \in TCallers, ReadRow(c) PROVE TreeInv'
<1> DEFINE o == tcall[c]
           s == [pc |-> "write", k |-> o.k, todo |-> o.todo, source |-> wrow[o.k]]
<1>1. /\ o.pc = "move" /\ UNCHANGED <<claim, wrow, until, disk, losses, overtaken>>
      /\ Moving(c, o.k, Tail(o.todo)) \/ Ended(c) \/ tcall' = [tcall EXCEPT ![c] = s]
  BY DEF ReadRow, Goes
<1>2. /\ o.k \in TClaims /\ o.todo \in Seq(TreeStatuses) /\ Tail(o.todo) \in PlainTodos
      /\ \/ o.todo = <<"retained">> /\ claim[o.k] = "ended"
         \/ o.todo = <<"cleaned">> /\ o.k \in Swept
         \/ o.todo \in PlainTodos \ {<<>>}
  BY <1>1, DueTodos
<1>3. /\ disk' \in [TClaims -> TreesOnDisk] /\ wrow' \in [TClaims -> TreeStatuses \cup {"none"}]
      /\ until' \in [TClaims -> {"none", "set", "elapsed"}]
  BY <1>1 DEF TreeInv, TWTypeOK
<1>4. \A q \in Gone : ~disk'[q].at /\ ~disk'[q].entry
  BY <1>1 DEF Gone
<1>5. CASE Moving(c, o.k, Tail(o.todo))
  BY <1>1, <1>2, <1>3, <1>4, <1>5, CallMoves
<1>6. CASE Ended(c)
  BY <1>1, <1>3, <1>6, CallEnds
<1>7. CASE tcall' = [tcall EXCEPT ![c] = s]
  <2>1. s \in TCallStates
    BY <1>2 DEF TreeInv, TWTypeOK, TCallStates
  <2>2. /\ s.pc = "write" /\ s.todo = o.todo /\ s.k = o.k
    OBVIOUS
  <2>3. \/ s.todo = <<"retained">> /\ claim[s.k] = "ended"
        \/ /\ s.todo = <<"cleaned">>
           /\ s.k \in overtaken' \/ (s.k \in Drained /\ ~disk'[s.k].at /\ ~disk'[s.k].entry)
        \/ s.todo \in PlainTodos \ {<<>>}
    BY <1>1, <1>2, <1>4, <2>2 DEF Gone, Swept
  <2> HIDE DEF s
  <2> QED
    BY <1>1, <1>3, <1>4, <1>7, <2>1, <2>2, <2>3, CallerSteps
<1> QED
  BY <1>1, <1>5, <1>6, <1>7

LEMMA RowsAreWritten == ASSUME TreeInv, NEW c \in TCallers, WriteRow(c) PROVE TreeInv'
<1> DEFINE o == tcall[c]
           s == IF Tail(o.todo) = <<>> THEN [pc |-> "idle"]
                ELSE [pc |-> "move", k |-> o.k, todo |-> Tail(o.todo)]
<1>1. o.pc = "write" /\ UNCHANGED <<claim, disk, losses, overtaken>>
  BY DEF WriteRow
<1>2. /\ o.k \in TClaims /\ Tail(o.todo) \in PlainTodos /\ Head(o.todo) \in TreeStatuses
      /\ Head(o.todo) = "retained" => claim[o.k] = "ended"
      /\ Head(o.todo) = "cleaned" => o.k \in Swept
  BY <1>1, DueTodos
<1>3. /\ wrow' = wrow \/ wrow' = [wrow EXCEPT ![o.k] = Head(o.todo)]
      /\ until' = until \/ (Head(o.todo) = "retained" /\ until' = [until EXCEPT ![o.k] = "set"])
      /\ tcall' = [tcall EXCEPT ![c] = s]
  BY DEF WriteRow, Moving, Goes, NoTCall
<1>4. /\ wrow \in [TClaims -> TreeStatuses \cup {"none"}]
      /\ until \in [TClaims -> {"none", "set", "elapsed"}]
      /\ disk' \in [TClaims -> TreesOnDisk]
  BY <1>1 DEF TreeInv, TWTypeOK
<1>5. wrow' \in [TClaims -> TreeStatuses \cup {"none"}]
  BY <1>2, <1>3, <1>4
<1>6. until' \in [TClaims -> {"none", "set", "elapsed"}]
  BY <1>2, <1>3, <1>4
<1>7. \A k \in TClaims : /\ wrow'[k] = "cleaned" => wrow[k] = "cleaned" \/ k \in Swept
                         /\ until'[k] # "none" => until[k] # "none" \/ claim[k] = "ended"
  BY <1>2, <1>3, <1>4
<1>8. s \in TCallStates
  <2>1. Tail(o.todo) \in Seq(TreeStatuses)
    BY <1>2 DEF PlainTodos, TreeStatuses
  <2> QED
    BY <1>2, <2>1 DEF TCallStates
<1>9. s.pc \in {"move", "write"} => s.todo \in PlainTodos \ {<<>>}
  BY <1>2
<1>10. s.pc \notin {"view", "branch", "add", "remove"}
  OBVIOUS
<1>11. \A q \in Gone : ~disk'[q].at /\ ~disk'[q].entry
  BY <1>1 DEF Gone
<1> HIDE DEF s
<1> QED
  BY <1>1, <1>3, <1>4, <1>5, <1>6, <1>7, <1>8, <1>9, <1>10, <1>11, CallerSteps

LEMMA TreesAreCreated ==
    ASSUME TreeInv, NEW c \in TCallers, NEW k \in TClaims, CreateTree(c, k)
    PROVE  TreeInv'
<1>1. /\ claim[k] = "live" /\ tcall' = [tcall EXCEPT ![c] = [pc |-> "view", k |-> k]]
      /\ wrow' = IF wrow[k] = "none" THEN [wrow EXCEPT ![k] = "provisioning"] ELSE wrow
      /\ UNCHANGED <<claim, until, disk, losses, overtaken>>
  BY DEF CreateTree, Goes
<1>2. [pc |-> "view", k |-> k] \in TCallStates
  BY DEF TCallStates
<1>3. /\ wrow \in [TClaims -> TreeStatuses \cup {"none"}]
      /\ until' \in [TClaims -> {"none", "set", "elapsed"}]
      /\ disk' \in [TClaims -> TreesOnDisk]
  BY <1>1 DEF TreeInv, TWTypeOK
<1>4. /\ wrow' \in [TClaims -> TreeStatuses \cup {"none"}]
      /\ \A q \in TClaims : wrow'[q] = "cleaned" => wrow[q] = "cleaned"
  BY <1>1, <1>3 DEF TreeStatuses
<1>5. k \notin Drained
  BY <1>1 DEF Drained
<1> QED
  BY <1>1, <1>2, <1>3, <1>4, <1>5, CallerSteps DEF Gone

LEMMA TreesAreViewed == ASSUME TreeInv, NEW c \in TCallers, ViewTree(c) PROVE TreeInv'
<1> DEFINE k == tcall[c].k
           s == [pc |-> "branch", k |-> k]
<1>1. tcall[c].pc = "view" /\ UNCHANGED <<claim, until, disk, losses, overtaken>>
  BY DEF ViewTree
<1>2. k \in TClaims
  BY <1>1 DEF TreeInv, TWTypeOK, TCallStates
<1>3. k \notin Drained
  BY <1>1 DEF Drained, Provisioned
<1>4. /\ wrow \in [TClaims -> TreeStatuses \cup {"none"}]
      /\ until' \in [TClaims -> {"none", "set", "elapsed"}]
      /\ disk' \in [TClaims -> TreesOnDisk]
  BY <1>1 DEF TreeInv, TWTypeOK
<1>5. /\ wrow' = wrow \/ wrow' = [wrow EXCEPT ![k] = "provisioning"]
      /\ Ended(c) \/ tcall' = [tcall EXCEPT ![c] = s]
  BY DEF ViewTree, Goes
<1>6. /\ wrow' \in [TClaims -> TreeStatuses \cup {"none"}]
      /\ \A q \in TClaims : wrow'[q] = "cleaned" => wrow[q] = "cleaned"
  BY <1>2, <1>4, <1>5 DEF TreeStatuses
<1>7. CASE Ended(c)
  BY <1>1, <1>6, <1>7, CallEnds
<1>8. CASE tcall' = [tcall EXCEPT ![c] = s]
  <2>1. s \in TCallStates /\ s.pc = "branch" /\ s.k = k
    BY <1>2 DEF TCallStates
  <2> HIDE DEF s
  <2> QED
    BY <1>1, <1>3, <1>4, <1>6, <1>8, <2>1, CallerSteps DEF Gone
<1> QED
  BY <1>5, <1>7, <1>8

LEMMA TreesAreLookedFor == ASSUME TreeInv, NEW c \in TCallers, LookForTree(c) PROVE TreeInv'
<1> DEFINE k == tcall[c].k
           s == [pc |-> "add", k |-> k, create |-> disk[k].ref = "none"]
<1>1. tcall[c].pc = "branch" /\ UNCHANGED <<claim, wrow, until, disk, losses, overtaken>>
  BY DEF LookForTree
<1>2. k \in TClaims
  BY <1>1 DEF TreeInv, TWTypeOK, TCallStates
<1>3. k \notin Drained
  BY <1>1 DEF Drained, Provisioned
<1>4. /\ wrow' \in [TClaims -> TreeStatuses \cup {"none"}]
      /\ until' \in [TClaims -> {"none", "set", "elapsed"}]
      /\ disk' \in [TClaims -> TreesOnDisk]
  BY <1>1 DEF TreeInv, TWTypeOK
<1>5. CASE Moving(c, k, Readied(k))
  <2>1. <<"ready", "dirty">> \in PlainTodos /\ <<"ready">> \in PlainTodos
    BY DEF PlainTodos
  <2>2. Readied(k) \in PlainTodos
    BY <2>1 DEF Readied
  <2> QED
    BY <1>1, <1>2, <1>4, <1>5, <2>2, CallMoves DEF Gone
<1>6. CASE Ended(c)
  BY <1>1, <1>4, <1>6, CallEnds
<1>7. CASE Goes(c, s)
  <2>1. (disk[k].ref = "none") \in BOOLEAN
    OBVIOUS
  <2>2. s \in TCallStates /\ s.pc = "add" /\ s.k = k
    BY <1>2, <2>1 DEF TCallStates
  <2>3. tcall' = [tcall EXCEPT ![c] = s]
    BY <1>7 DEF Goes
  <2> HIDE DEF s
  <2> QED
    BY <1>1, <1>3, <1>4, <2>2, <2>3, CallerSteps DEF Gone
<1> QED
  BY <1>5, <1>6, <1>7 DEF LookForTree

LEMMA TreesAreAdded == ASSUME TreeInv, NEW c \in TCallers, AddTree(c) PROVE TreeInv'
<1> DEFINE k == tcall[c].k
           new == [ref |-> IF disk[k].ref = "none" THEN "base" ELSE disk[k].ref,
                   at |-> TRUE, on |-> TRUE, dirty |-> FALSE, entry |-> TRUE]
<1>1. tcall[c].pc = "add" /\ UNCHANGED <<claim, wrow, until, losses, overtaken>>
  BY DEF AddTree
<1>2. k \in TClaims /\ disk \in [TClaims -> TreesOnDisk]
  BY <1>1 DEF TreeInv, TWTypeOK, TCallStates
<1>3. k \notin Drained
  BY <1>1 DEF Drained, Provisioned
<1>4. wrow \in [TClaims -> TreeStatuses \cup {"none"}]
  BY DEF TreeInv, TWTypeOK
<1>5. CASE disk' = disk /\ Ended(c)
  BY <1>1, <1>4, <1>5, CallEnds
<1>6. CASE disk' = [disk EXCEPT ![k] = new] /\ (Moving(c, k, <<"ready">>) \/ Ended(c))
  <2>1. new \in TreesOnDisk
    BY <1>2 DEF TreesOnDisk
  <2>2. disk' \in [TClaims -> TreesOnDisk]
    BY <1>2, <1>6, <2>1
  <2>3. \A q \in Gone : ~disk'[q].at /\ ~disk'[q].entry
    BY <1>2, <1>3, <1>6 DEF Gone
  <2>4. <<"ready">> \in PlainTodos /\ <<>> \in PlainTodos
    BY DEF PlainTodos
  <2>5. Ended(c) => Moving(c, k, <<>>)
    BY DEF Ended, Moving
  <2> QED
    BY <1>1, <1>2, <1>6, <2>2, <2>3, <2>4, <2>5, CallMoves
<1>7. \/ disk' = disk /\ Ended(c)
      \/ disk' = [disk EXCEPT ![k] = new] /\ (Moving(c, k, <<"ready">>) \/ Ended(c))
  BY DEF AddTree
<1> QED
  BY <1>5, <1>6, <1>7

LEMMA TreesAreRetained ==
    ASSUME TreeInv, NEW c \in TCallers, NEW k \in TClaims, Retain(c, k)
    PROVE  TreeInv'
<1> DEFINE s == [pc |-> "move", k |-> k, todo |-> <<"retained">>]
<1>1. /\ claim[k] = "ended" /\ tcall' = [tcall EXCEPT ![c] = s]
      /\ UNCHANGED <<claim, wrow, until, disk, losses, overtaken>>
  BY DEF Retain, Moving, Goes
<1>2. s \in TCallStates /\ s.pc = "move" /\ s.todo = <<"retained">> /\ s.k = k
  BY DEF TCallStates, TreeStatuses
<1>3. /\ disk' \in [TClaims -> TreesOnDisk] /\ wrow' \in [TClaims -> TreeStatuses \cup {"none"}]
      /\ until' \in [TClaims -> {"none", "set", "elapsed"}]
  BY <1>1 DEF TreeInv, TWTypeOK
<1> HIDE DEF s
<1> QED
  BY <1>1, <1>2, <1>3, CallerSteps DEF Gone

LEMMA CleanupBegins ==
    ASSUME TreeInv, NEW c \in TCallers, NEW k \in TClaims, Cleanup(c, k)
    PROVE  TreeInv'
<1> DEFINE s == [pc |-> "remove", k |-> k]
<1>1. /\ until[k] = "elapsed" /\ tcall' = [tcall EXCEPT ![c] = s]
      /\ UNCHANGED <<claim, wrow, until, disk, losses, overtaken>>
  BY DEF Cleanup, Cleanable, Goes
<1>2. s \in TCallStates /\ s.pc = "remove" /\ s.k = k
  BY DEF TCallStates
<1>3. claim[k] = "ended"
  BY <1>1 DEF TreeInv, TreeRowsSound
<1>4. /\ disk' \in [TClaims -> TreesOnDisk] /\ wrow' \in [TClaims -> TreeStatuses \cup {"none"}]
      /\ until' \in [TClaims -> {"none", "set", "elapsed"}]
  BY <1>1 DEF TreeInv, TWTypeOK
<1> HIDE DEF s
<1> QED
  BY <1>1, <1>2, <1>3, <1>4, CallerSteps DEF Gone

LEMMA TreesAreRemoved == ASSUME TreeInv, NEW c \in TCallers, RemoveTree(c) PROVE TreeInv'
<1> DEFINE k == tcall[c].k
           removed == [disk EXCEPT ![k] = [@ EXCEPT !.at = FALSE, !.on = FALSE, !.dirty = FALSE,
                                                    !.entry = @ /\ ~disk[k].at]]
           s == [pc |-> "move", k |-> k, todo |-> <<"cleaned">>]
<1>1. /\ tcall[c].pc = "remove" /\ UNCHANGED <<claim, wrow, until, losses>>
      /\ \/ Ended(c) /\ disk' = disk /\ overtaken' = overtaken
         \/ /\ disk' = Pruned(removed) /\ tcall' = [tcall EXCEPT ![c] = s]
            /\ overtaken' = IF Provisioned(k) THEN overtaken \cup {k} ELSE overtaken
  BY DEF RemoveTree, Moving, Goes
<1>2. k \in TClaims /\ claim[k] = "ended"
  BY <1>1 DEF TreeInv, TWTypeOK, TCallStates, DueCalls
<1>3. /\ disk \in [TClaims -> TreesOnDisk] /\ wrow \in [TClaims -> TreeStatuses \cup {"none"}]
      /\ until \in [TClaims -> {"none", "set", "elapsed"}]
  BY DEF TreeInv, TWTypeOK
<1>4. CASE Ended(c) /\ disk' = disk /\ overtaken' = overtaken
  BY <1>1, <1>3, <1>4, CallEnds
<1>5. CASE /\ disk' = Pruned(removed) /\ tcall' = [tcall EXCEPT ![c] = s]
           /\ overtaken' = IF Provisioned(k) THEN overtaken \cup {k} ELSE overtaken
  <2>1. \A q \in TClaims : disk[q] \in TreesOnDisk
    BY <1>3
  <2>2. \A q \in TClaims : /\ removed[q] \in TreesOnDisk
                           /\ q # k => removed[q] = disk[q]
                           /\ q = k => ~removed[q].at
    BY <1>2, <1>3, <2>1 DEF TreesOnDisk
  <2>3. /\ disk' = [q \in TClaims |-> disk'[q]]
        /\ \A q \in TClaims : disk'[q] = [removed[q] EXCEPT !.entry = @ /\ removed[q].at]
    BY <1>5 DEF Pruned
  <2> HIDE DEF removed
  <2>4. \A q \in TClaims : /\ disk'[q] \in TreesOnDisk
                           /\ disk'[q].at = removed[q].at
                           /\ disk'[q].entry = (removed[q].entry /\ removed[q].at)
    BY <2>2, <2>3 DEF TreesOnDisk
  <2>5. disk' \in [TClaims -> TreesOnDisk]
    BY <2>3, <2>4
  <2>6. \A q \in Gone : ~disk'[q].at /\ ~disk'[q].entry
    BY <2>2, <2>4 DEF Gone, Drained
  <2>7. ~disk'[k].at /\ ~disk'[k].entry
    BY <1>2, <2>2, <2>4
  <2>8. s \in TCallStates /\ s.pc = "move" /\ s.todo = <<"cleaned">> /\ s.k = k
    BY <1>2 DEF TCallStates, TreeStatuses
  <2>9. overtaken \subseteq overtaken' /\ overtaken' \subseteq overtaken \cup TClaims
    BY <1>2, <1>5
  <2>10. k \in overtaken' \/ k \in Drained
    BY <1>2, <1>5 DEF Drained
  <2> HIDE DEF s
  <2> QED
    BY <1>1, <1>2, <1>3, <1>5, <2>5, <2>6, <2>7, <2>8, <2>9, <2>10, CallerSteps
<1> QED
  BY <1>1, <1>4, <1>5

LEMMA TreesAreReconciled ==
    ASSUME TreeInv, NEW c \in TCallers,
           \/ ReconcileTree(c) \/ KillTCall(c)
           \/ \E k \in TClaims : ListTrees(c, k)
    PROVE  TreeInv'
<1>1. UNCHANGED <<claim, wrow, until, disk, losses, overtaken>>
  BY DEF ReconcileTree, KillTCall, ListTrees
<1>2. /\ disk' \in [TClaims -> TreesOnDisk] /\ wrow' \in [TClaims -> TreeStatuses \cup {"none"}]
      /\ until' \in [TClaims -> {"none", "set", "elapsed"}]
  BY <1>1 DEF TreeInv, TWTypeOK
<1>3. \A q \in Gone : ~disk'[q].at /\ ~disk'[q].entry
  BY <1>1 DEF Gone
<1>4. CASE Ended(c)
  BY <1>1, <1>2, <1>4, CallEnds
<1>5. ASSUME NEW k \in TClaims, ListTrees(c, k)
      PROVE  TreeInv'
  <2> DEFINE s == [pc |-> "list", k |-> k, entry |-> disk[k].entry]
  <2>1. tcall' = [tcall EXCEPT ![c] = s]
    BY <1>5 DEF ListTrees, Goes
  <2>2. disk[k] \in TreesOnDisk
    BY DEF TreeInv, TWTypeOK
  <2>3. s \in TCallStates /\ s.pc = "list"
    BY <2>2 DEF TCallStates, TreesOnDisk
  <2> HIDE DEF s
  <2> QED
    BY <1>1, <1>2, <1>3, <2>1, <2>3, CallerSteps
<1>6. CASE ReconcileTree(c) /\ ~Ended(c)
  <2> DEFINE k == tcall[c].k
  <2>1. /\ tcall[c].pc = "list"
        /\ Moving(c, k, <<"missing">>) \/ Moving(c, k, Converging(k))
    BY <1>6 DEF ReconcileTree
  <2>2. k \in TClaims
    BY <2>1 DEF TreeInv, TWTypeOK, TCallStates
  <2>3. /\ <<"missing">> \in PlainTodos /\ <<"provisioning", "ready">> \in PlainTodos
        /\ <<"ready">> \in PlainTodos /\ <<"dirty">> \in PlainTodos /\ <<>> \in PlainTodos
    BY DEF PlainTodos
  <2>4. \A t, u \in PlainTodos : t \o u \in PlainTodos
    BY DEF PlainTodos
  <2>5. Converging(k) \in PlainTodos
    BY <2>3, <2>4 DEF Converging
  <2> QED
    BY <1>1, <1>2, <1>3, <2>1, <2>2, <2>3, <2>5, CallMoves
<1> QED
  BY <1>4, <1>5, <1>6 DEF KillTCall

\* Steps of nobody's call: assignments come and end, deadlines pass, and others
\* write in the worktree or move it.
LEMMA OthersMove ==
    ASSUME TreeInv, NEW k \in TClaims,
           ClaimTask(k) \/ EndClaim(k) \/ Elapse(k) \/ WorkInTree(k) \/ Lose(k)
    PROVE  TreeInv'
<1>1. tcall' = tcall /\ wrow' = wrow /\ overtaken' = overtaken
  BY DEF ClaimTask, EndClaim, Elapse, WorkInTree, Lose
<1>2. /\ claim \in [TClaims -> {"none", "live", "ended"}]
      /\ until \in [TClaims -> {"none", "set", "elapsed"}]
      /\ disk \in [TClaims -> TreesOnDisk]
  BY DEF TreeInv, TWTypeOK
<1>3. /\ claim' \in [TClaims -> {"none", "live", "ended"}]
      /\ \A q \in TClaims : claim[q] = "ended" => claim'[q] = "ended"
  BY <1>2 DEF ClaimTask, EndClaim, Elapse, WorkInTree, Lose
<1>4. /\ until' \in [TClaims -> {"none", "set", "elapsed"}]
      /\ \A q \in TClaims : until'[q] # "none" => until[q] # "none"
  BY <1>2 DEF ClaimTask, EndClaim, Elapse, WorkInTree, Lose
<1>5. disk[k] \in TreesOnDisk
  BY <1>2
<1>6. disk' \in [TClaims -> TreesOnDisk] /\ \A q \in Gone : ~disk'[q].at /\ ~disk'[q].entry
  <2>1. CASE disk' = disk
    BY <1>2, <2>1 DEF Gone
  <2>2. CASE WorkInTree(k)
    <3>1. PICK new \in TreesOnDisk : disk' = [disk EXCEPT ![k] = new] /\ k \notin Gone
      <4>1. CASE disk' = [disk EXCEPT ![k].dirty = TRUE]
        <5>1. [disk[k] EXCEPT !.dirty = TRUE] \in TreesOnDisk
          BY <1>5 DEF TreesOnDisk
        <5> QED
          BY <1>2, <2>2, <4>1, <5>1 DEF WorkInTree, Gone
      <4>2. CASE disk' = [disk EXCEPT ![k].dirty = FALSE, ![k].ref = "later"]
        <5>1. [disk[k] EXCEPT !.dirty = FALSE, !.ref = "later"] \in TreesOnDisk
          BY <1>5 DEF TreesOnDisk
        <5>2. disk' = [disk EXCEPT ![k] = [disk[k] EXCEPT !.dirty = FALSE, !.ref = "later"]]
          BY <1>2, <4>2
        <5> QED
          BY <2>2, <5>1, <5>2 DEF WorkInTree, Gone
      <4> QED
        BY <2>2, <4>1, <4>2 DEF WorkInTree
    <3> QED
      BY <1>2, <3>1 DEF Gone
  <2>3. CASE Lose(k)
    <3>1. PICK new \in TreesOnDisk : disk' = [disk EXCEPT ![k] = new] /\ k \notin Gone
      <4>1. CASE disk' = [disk EXCEPT ![k].on = FALSE]
        <5>1. [disk[k] EXCEPT !.on = FALSE] \in TreesOnDisk
          BY <1>5 DEF TreesOnDisk
        <5> QED
          BY <1>2, <2>3, <4>1, <5>1 DEF Lose, Gone
      <4>2. ASSUME NEW b \in BOOLEAN, disk' = [disk EXCEPT ![k].at = b, ![k].on = b]
            PROVE  \E new \in TreesOnDisk : disk' = [disk EXCEPT ![k] = new] /\ k \notin Gone
        <5>1. [disk[k] EXCEPT !.at = b, !.on = b] \in TreesOnDisk
          BY <1>5, <4>2 DEF TreesOnDisk
        <5>2. disk' = [disk EXCEPT ![k] = [disk[k] EXCEPT !.at = b, !.on = b]]
          BY <1>2, <4>2
        <5> QED
          BY <2>3, <5>1, <5>2 DEF Lose, Gone
      <4> QED
        BY <2>3, <4>1, <4>2 DEF Lose
    <3> QED
      BY <1>2, <3>1 DEF Gone
  <2> QED
    BY <2>1, <2>2, <2>3 DEF ClaimTask, EndClaim, Elapse
<1>7. Drained \subseteq Drained'
  BY <1>1, <1>3 DEF Drained, Provisioned
<1>8. Swept \subseteq Swept'
  BY <1>1, <1>6, <1>7 DEF Gone, Swept
<1>9. TWTypeOK'
  BY <1>1, <1>3, <1>4, <1>6 DEF TreeInv, TWTypeOK, TCallStates
<1>10. TreeRowsSound'
  BY <1>1, <1>3, <1>4, <1>8 DEF TreeInv, TreeRowsSound
<1>11. DueCalls \subseteq DueCalls'
  BY <1>3, <1>8 DEF DueCalls, TCallStates
<1> QED
  BY <1>1, <1>9, <1>10, <1>11 DEF TreeInv

LEMMA TreeStep == TreeInv /\ [TWNext]_twvars => TreeInv'
<1> SUFFICES ASSUME TreeInv, [TWNext]_twvars PROVE TreeInv'
  OBVIOUS
<1>1. CASE UNCHANGED twvars
  BY <1>1 DEF twvars, TreeInv, TWTypeOK, TreeRowsSound, DueCalls, Drained, Provisioned, Gone, Swept,
     TCallStates
<1>2. ASSUME NEW c \in TCallers,
             \/ ReadRow(c) \/ WriteRow(c) \/ ViewTree(c) \/ LookForTree(c) \/ AddTree(c)
             \/ RemoveTree(c) \/ ReconcileTree(c) \/ KillTCall(c)
             \/ \E k \in TClaims : CreateTree(c, k) \/ Retain(c, k) \/ Cleanup(c, k) \/ ListTrees(c, k)
      PROVE  TreeInv'
  BY <1>2, RowsAreRead, RowsAreWritten, TreesAreViewed, TreesAreLookedFor, TreesAreAdded,
     TreesAreRemoved, TreesAreReconciled, TreesAreCreated, TreesAreRetained, CleanupBegins
<1>3. ASSUME NEW k \in TClaims,
             ClaimTask(k) \/ EndClaim(k) \/ Elapse(k) \/ WorkInTree(k) \/ Lose(k)
      PROVE  TreeInv'
  BY <1>3, OthersMove
<1> QED
  BY <1>1, <1>2, <1>3 DEF TWNext

\* A worktree that is recorded as cleaned has neither a directory nor a registration,
\* whoever lost, reconciled or retained it and whatever the deadline, unless a
\* provisioning of its own was under way when it was removed (cleanup, provision,
\* reconcile).
THEOREM CleanedStaysGone == TWSpec => []CleanedIsGone
<1>1. TreeInv => CleanedIsGone
  BY DEF TreeInv, TreeRowsSound, Gone, Swept, CleanedIsGone
<1> QED
  BY <1>1, TreeInit, TreeStep, PTL DEF TWSpec

(* The worktree of an execution epoch (worktrees.py).                        *)

LEMMA EpochInit == EWInit => EpochInv
<1> SUFFICES ASSUME EWInit PROVE EpochInv
  OBVIOUS
<1> USE DEF EWInit, NoECall
<1>1. EWTypeOK
  BY DEF EWTypeOK, ECallStates, Heads
<1>2. LooksSound /\ HandedInLineage
  BY DEF LooksSound, HandedInLineage
<1> QED
  BY <1>1, <1>2 DEF EpochInv

\* A step of a caller: what it goes on with, and what it returns.
LEMMA EpochCallerSteps ==
    ASSUME EpochInv, NEW c \in ECallers, NEW s \in ECallStates, NEW h,
           ecall' = [ecall EXCEPT ![c] = s], saved' = saved,
           handed' = handed \/ handed' = [handed EXCEPT ![c] = h],
           last' \in {"none", "RESERVED", "PROVISIONING", "READY", "DIRTY", "MISSING", "CONFLICT"},
           git' \in [ref : Heads \cup {"none"}, at : {"nothing", "plain", "tree"}, on : BOOLEAN,
                     dirty : BOOLEAN, entry : BOOLEAN, elsewhere : BOOLEAN],
           InLineage(h) /\ h \in Heads \cup {"none"},
           s.pc = "inspect" => InLineage(s.ref),
           s.pc = "record" /\ s.status = "READY" => InLineage(s.head)
    PROVE  EpochInv'
<1>1. ecall \in [ECallers -> ECallStates] /\ handed \in [ECallers -> Heads \cup {"none"}]
  BY DEF EpochInv, EWTypeOK
<1>2. ecall' \in [ECallers -> ECallStates] /\ handed' \in [ECallers -> Heads \cup {"none"}]
  BY <1>1
<1>3. EWTypeOK'
  BY <1>2 DEF EWTypeOK
<1>4. \A d \in ECallers : ecall'[d] = IF d = c THEN s ELSE ecall[d]
  BY <1>1
<1>5. LooksSound'
  BY <1>4 DEF EpochInv, LooksSound, InLineage, LineageHead
<1>6. \A d \in ECallers : handed'[d] = handed[d] \/ handed'[d] = h
  BY <1>1
<1>7. HandedInLineage'
  BY <1>6 DEF EpochInv, HandedInLineage, InLineage, LineageHead, Descends
<1> QED
  BY <1>3, <1>5, <1>7 DEF EpochInv

\* The types the steps keep, for the lemma above.
LEMMA EpochTypes ==
    ASSUME EpochInv
    PROVE  /\ last \in {"none", "RESERVED", "PROVISIONING", "READY", "DIRTY", "MISSING", "CONFLICT"}
           /\ git \in [ref : Heads \cup {"none"}, at : {"nothing", "plain", "tree"}, on : BOOLEAN,
                       dirty : BOOLEAN, entry : BOOLEAN, elsewhere : BOOLEAN]
           /\ ecall \in [ECallers -> ECallStates]
           /\ InLineage("none") /\ "none" \in Heads \cup {"none"}
           /\ TreeHead \in Heads \cup {"none"}
  BY DEF EpochInv, EWTypeOK, InLineage, TreeHead, Heads

\* Steps that hand out nothing.
LEMMA EpochCallerMoves ==
    ASSUME EpochInv, NEW c \in ECallers, NEW s \in ECallStates,
           ecall' = [ecall EXCEPT ![c] = s], UNCHANGED saved,
           handed' = handed \/ handed' = [handed EXCEPT ![c] = "none"],
           last' \in {"none", "RESERVED", "PROVISIONING", "READY", "DIRTY", "MISSING", "CONFLICT"},
           git' \in [ref : Heads \cup {"none"}, at : {"nothing", "plain", "tree"}, on : BOOLEAN,
                     dirty : BOOLEAN, entry : BOOLEAN, elsewhere : BOOLEAN],
           s.pc = "inspect" => InLineage(s.ref),
           s.pc = "record" /\ s.status = "READY" => InLineage(s.head)
    PROVE  EpochInv'
<1>1. InLineage("none") /\ "none" \in Heads \cup {"none"}
  BY EpochTypes
<1> QED
  BY <1>1, EpochCallerSteps

LEMMA EpochCallsBegin ==
    ASSUME EpochInv, NEW c \in ECallers, Provision(c) \/ ReconcileEpoch(c)
    PROVE  EpochInv'
<1>1. PICK s \in {[pc |-> "look", op |-> "provision"], [pc |-> "look", op |-> "reconcile"]} :
         ecall' = [ecall EXCEPT ![c] = s]
  BY DEF Provision, ReconcileEpoch
<1>2. /\ UNCHANGED <<git, saved, outside>>
      /\ last' = last \/ last' = "RESERVED"
      /\ handed' = handed \/ handed' = [handed EXCEPT ![c] = "none"]
  BY DEF Provision, ReconcileEpoch
<1>3. s \in ECallStates /\ s.pc = "look"
  BY DEF ECallStates
<1> QED
  BY <1>1, <1>2, <1>3, EpochTypes, EpochCallerMoves

LEMMA RefsAreLookedAt == ASSUME EpochInv, NEW c \in ECallers, LookAtRefs(c) PROVE EpochInv'
<1>1. ecall[c].pc = "look" /\ UNCHANGED <<last, git, saved, handed, outside>>
  BY DEF LookAtRefs
<1>2. ecall[c] \in [pc : {"look"}, op : {"provision", "reconcile", "added"}]
  BY <1>1, EpochTypes DEF ECallStates
<1>3. CASE Sees(c, "CONFLICT")
  <2> DEFINE s == [pc |-> "record", op |-> ecall[c].op, head |-> TreeHead, status |-> "CONFLICT"]
  <2>1. s \in ECallStates /\ s.pc = "record" /\ s.status = "CONFLICT"
    BY <1>2, EpochTypes DEF ECallStates
  <2>2. ecall' = [ecall EXCEPT ![c] = s]
    BY <1>3 DEF Sees
  <2> HIDE DEF s
  <2> QED
    BY <1>1, <2>1, <2>2, EpochTypes, EpochCallerMoves
<1>4. CASE ~Sees(c, "CONFLICT")
  <2> DEFINE s == [pc |-> "inspect", op |-> ecall[c].op, ref |-> git.ref,
                   entry |-> git.entry, elsewhere |-> git.elsewhere]
  <2>1. /\ ecall' = [ecall EXCEPT ![c] = s]
        /\ InLineage(git.ref)
    BY <1>4 DEF LookAtRefs, InLineage
  <2>2. s \in ECallStates
    BY <1>2, EpochTypes DEF ECallStates
  <2>3. s.pc = "inspect" /\ s.ref = git.ref
    OBVIOUS
  <2> HIDE DEF s
  <2> QED
    BY <1>1, <2>1, <2>2, <2>3, EpochTypes, EpochCallerMoves
<1> QED
  BY <1>3, <1>4

LEMMA TreesAreLookedAt == ASSUME EpochInv, NEW c \in ECallers, LookAtTree(c) PROVE EpochInv'
<1> DEFINE o == ecall[c]
           s == [pc |-> "record", op |-> o.op, head |-> TreeHead, status |-> Judge(o)]
<1>1. /\ o.pc = "inspect" /\ UNCHANGED <<last, git, saved, handed, outside>>
      /\ ecall' = [ecall EXCEPT ![c] = s]
  BY DEF LookAtTree, Sees
<1>2. /\ o \in [pc : {"inspect"}, op : {"provision", "reconcile", "added"},
                ref : Heads \cup {"none"}, entry : BOOLEAN, elsewhere : BOOLEAN]
      /\ InLineage(o.ref)
  BY <1>1, EpochTypes DEF ECallStates, EpochInv, LooksSound
<1>3. Judge(o) \in {"READY", "DIRTY", "MISSING", "CONFLICT"}
  BY DEF Judge
<1>4. Judge(o) = "READY" => TreeHead = o.ref
  BY DEF Judge, TreeHead
<1>5. s \in ECallStates
  BY <1>2, <1>3, EpochTypes DEF ECallStates
<1>6. s.pc = "record" /\ s.head = TreeHead /\ s.status = Judge(o)
  OBVIOUS
<1>7. s.status = "READY" => InLineage(s.head)
  BY <1>2, <1>4, <1>6
<1> HIDE DEF s
<1>8. PICK r \in ECallStates :
         /\ ecall' = [ecall EXCEPT ![c] = r]
         /\ r.pc = "record" /\ (r.status = "READY" => InLineage(r.head))
  BY <1>1, <1>5, <1>6, <1>7
<1>9. r.pc # "inspect" /\ (r.pc = "record" /\ r.status = "READY" => InLineage(r.head))
  BY <1>8
<1>10. /\ UNCHANGED saved /\ handed' = handed
       /\ last' \in {"none", "RESERVED", "PROVISIONING", "READY", "DIRTY", "MISSING", "CONFLICT"}
       /\ git' \in [ref : Heads \cup {"none"}, at : {"nothing", "plain", "tree"}, on : BOOLEAN,
                    dirty : BOOLEAN, entry : BOOLEAN, elsewhere : BOOLEAN]
  BY <1>1, EpochTypes
<1> QED
  BY <1>8, <1>9, <1>10, EpochCallerMoves

LEMMA EventsAreRecorded == ASSUME EpochInv, NEW c \in ECallers, Record(c) PROVE EpochInv'
<1> DEFINE o == ecall[c]
<1>1. o.pc = "record" /\ UNCHANGED <<git, saved, outside>>
  BY DEF Record
<1>2. o \in [pc : {"record"}, op : {"provision", "reconcile", "added", "fails"},
             head : Heads \cup {"none"}, status : {"READY", "DIRTY", "MISSING", "CONFLICT"}]
  BY <1>1, EpochTypes DEF ECallStates
<1>3. o.status = "READY" => InLineage(o.head)
  BY <1>1 DEF EpochInv, LooksSound
<1>4. PICK s \in {[pc |-> "idle"], [pc |-> "preflight"]} : ecall' = [ecall EXCEPT ![c] = s]
  BY DEF Record, NoECall
<1>5. s \in ECallStates /\ s.pc \notin {"inspect", "record"}
  BY DEF ECallStates
<1>6. last' \in {"none", "RESERVED", "PROVISIONING", "READY", "DIRTY", "MISSING", "CONFLICT"}
  BY <1>2, EpochTypes DEF Record
<1>7. CASE handed' = handed
  BY <1>1, <1>4, <1>5, <1>6, <1>7, EpochTypes, EpochCallerMoves
<1>8. CASE handed' # handed
  <2>1. handed' = [handed EXCEPT ![c] = o.head] /\ InLineage(o.head)
    BY <1>3, <1>8 DEF Record
  <2> QED
    BY <1>1, <1>2, <1>4, <1>5, <1>6, <2>1, EpochTypes, EpochCallerSteps
<1> QED
  BY <1>7, <1>8

LEMMA EpochIsPreflighted == ASSUME EpochInv, NEW c \in ECallers, Preflight(c) PROVE EpochInv'
<1>1. UNCHANGED <<last, git, saved, handed, outside>>
  BY DEF Preflight
<1> DEFINE fails == [pc |-> "record", op |-> "fails", head |-> TreeHead, status |-> "CONFLICT"]
           intends == [pc |-> "intend", create |-> git.ref = "none"]
<1>2. fails \in ECallStates /\ fails.pc = "record" /\ fails.status = "CONFLICT"
  BY EpochTypes DEF ECallStates
<1>3. intends \in ECallStates /\ intends.pc = "intend"
  <2>1. (git.ref = "none") \in BOOLEAN
    OBVIOUS
  <2> QED
    BY <2>1 DEF ECallStates
<1>4. ecall' = [ecall EXCEPT ![c] = fails] \/ ecall' = [ecall EXCEPT ![c] = intends]
  BY DEF Preflight
<1> HIDE DEF fails, intends
<1> QED
  BY <1>1, <1>2, <1>3, <1>4, EpochTypes, EpochCallerMoves

LEMMA EpochIsIntended == ASSUME EpochInv, NEW c \in ECallers, Intend(c) PROVE EpochInv'
<1> DEFINE s == [ecall[c] EXCEPT !.pc = "add"]
<1>1. /\ ecall[c].pc = "intend" /\ UNCHANGED <<git, saved, handed, outside>>
      /\ \/ last' = "PROVISIONING" /\ ecall' = [ecall EXCEPT ![c] = s]
         \/ last' = last /\ ecall' = [ecall EXCEPT ![c] = [pc |-> "idle"]]
  <2>1. [ecall EXCEPT ![c].pc = "add"] = [ecall EXCEPT ![c] = s]
    BY EpochTypes
  <2> QED
    BY <2>1 DEF Intend, Returns, NoECall
<1>2. ecall[c] \in [pc : {"intend", "add"}, create : BOOLEAN]
  BY <1>1, EpochTypes DEF ECallStates
<1>3. s \in ECallStates /\ s.pc = "add"
  BY <1>2 DEF ECallStates
<1>4. [pc |-> "idle"] \in ECallStates
  BY DEF ECallStates
<1> HIDE DEF s
<1> QED
  BY <1>1, <1>3, <1>4, EpochTypes, EpochCallerMoves

LEMMA EpochIsAdded ==
    ASSUME EpochInv, NEW c \in ECallers, Add(c) \/ KillECall(c)
    PROVE  EpochInv'
<1>1. UNCHANGED <<last, saved, handed, outside>>
  BY DEF Add, KillECall
<1> DEFINE fails == [pc |-> "record", op |-> "fails", head |-> TreeHead, status |-> "CONFLICT"]
           looks == [pc |-> "look", op |-> "added"]
<1>2. fails \in ECallStates /\ fails.pc = "record" /\ fails.status = "CONFLICT"
  BY EpochTypes DEF ECallStates
<1>3. looks \in ECallStates /\ looks.pc = "look" /\ [pc |-> "idle"] \in ECallStates
  BY DEF ECallStates
<1>4. \/ ecall' = [ecall EXCEPT ![c] = fails] \/ ecall' = [ecall EXCEPT ![c] = looks]
      \/ ecall' = [ecall EXCEPT ![c] = [pc |-> "idle"]]
  BY DEF Add, KillECall, Returns, NoECall
<1>5. git' \in [ref : Heads \cup {"none"}, at : {"nothing", "plain", "tree"}, on : BOOLEAN,
                dirty : BOOLEAN, entry : BOOLEAN, elsewhere : BOOLEAN]
  <2>1. "base" \in Heads
    BY DEF Heads
  <2> QED
    BY <2>1, EpochTypes DEF Add, KillECall
<1> HIDE DEF fails, looks
<1> QED
  BY <1>1, <1>2, <1>3, <1>4, <1>5, EpochTypes, EpochCallerMoves

\* Checkpoints are only added, and others change what nobody was handed.
LEMMA OutsidersMove == ASSUME EpochInv, SaveCheckpoint \/ Outsider PROVE EpochInv'
<1>1. /\ saved \subseteq saved' /\ UNCHANGED <<last, ecall, handed>>
  BY DEF SaveCheckpoint, Outsider
<1>2. git' \in [ref : Heads \cup {"none"}, at : {"nothing", "plain", "tree"}, on : BOOLEAN,
                dirty : BOOLEAN, entry : BOOLEAN, elsewhere : BOOLEAN]
  <2>1. CASE SaveCheckpoint
    BY <2>1, EpochTypes DEF SaveCheckpoint
  <2>2. CASE Outsider
    BY <2>2, EpochTypes DEF Outsider
  <2> QED
    BY <2>1, <2>2
<1>3. EWTypeOK'
  BY <1>1, <1>2 DEF EpochInv, EWTypeOK
<1>4. LooksSound' /\ HandedInLineage'
  BY <1>1 DEF EpochInv, LooksSound, HandedInLineage, InLineage, LineageHead
<1> QED
  BY <1>3, <1>4 DEF EpochInv

LEMMA EpochStep == EpochInv /\ [EWNext]_ewvars => EpochInv'
<1> SUFFICES ASSUME EpochInv, [EWNext]_ewvars PROVE EpochInv'
  OBVIOUS
<1>1. CASE UNCHANGED ewvars
  BY <1>1 DEF ewvars, EpochInv, EWTypeOK, LooksSound, HandedInLineage, InLineage, LineageHead
<1>2. ASSUME NEW c \in ECallers,
             \/ Provision(c) \/ ReconcileEpoch(c) \/ LookAtRefs(c) \/ LookAtTree(c) \/ Record(c)
             \/ Preflight(c) \/ Intend(c) \/ Add(c) \/ KillECall(c)
      PROVE  EpochInv'
  BY <1>2, EpochCallsBegin, RefsAreLookedAt, TreesAreLookedAt, EventsAreRecorded,
     EpochIsPreflighted, EpochIsIntended, EpochIsAdded
<1>3. CASE SaveCheckpoint \/ Outsider
  BY <1>3, OutsidersMove
<1> QED
  BY <1>1, <1>2, <1>3 DEF EWNext

\* What provision_epoch hands out is the approved base or a checkpoint of the epoch
\* (_observe_epoch_worktree, _authorized_epoch_head).
THEOREM HandedStaysInLineage == EWSpec => []HandedInLineage
<1>1. EpochInv => HandedInLineage
  BY DEF EpochInv
<1> QED
  BY <1>1, EpochInit, EpochStep, PTL DEF EWSpec

(* Mutations of a GitHub repository (storage.py, application.py, github.py). *)

\* What an appended sequence holds.
LEMMA Appended ==
    ASSUME NEW S, NEW s \in Seq(S), NEW e \in S
    PROVE  /\ Append(s, e) \in Seq(S)
           /\ Len(Append(s, e)) = Len(s) + 1 /\ Len(s) \in Nat
           /\ DOMAIN Append(s, e) = 1..(Len(s) + 1) /\ DOMAIN s = 1..Len(s)
           /\ \A n \in DOMAIN s : Append(s, e)[n] = s[n]
           /\ Append(s, e)[Len(s) + 1] = e
  OBVIOUS

\* What a sequence with one replaced element holds.
LEMMA ExceptProperties ==
    ASSUME NEW S, NEW s \in Seq(S), NEW n \in DOMAIN s, NEW e \in S
    PROVE  /\ [s EXCEPT ![n] = e] \in Seq(S)
           /\ Len([s EXCEPT ![n] = e]) = Len(s)
           /\ DOMAIN [s EXCEPT ![n] = e] = DOMAIN s
           /\ \A k \in DOMAIN s : [s EXCEPT ![n] = e][k] = IF k = n THEN e ELSE s[k]
  OBVIOUS

GateRows == [plan : Plans, status : {"pending", "approved", "rejected", "claimed", "consumed"}]
ApplierStates ==
    [at : {"idle", "claimed", "running", "ended"}, gate : Nat, skip : SUBSET Keys, next : Nat,
     done : SUBSET Keys, failed : SUBSET Keys]

LEMMA MutationTypes ==
    ASSUME MutationsInv
    PROVE  /\ mutationGates \in Seq(GateRows)
           /\ applying \in [Appliers -> ApplierStates]
           /\ previewing \in [Previewers -> [plan : Plans \cup {0}, gate : Nat]]
           /\ completed \subseteq Keys /\ reported \subseteq Keys /\ reported \subseteq completed
           /\ effects \in [Keys -> SUBSET Nat]
  BY DEF MutationsInv, GHTypeOK, AppliersTyped, GateRows, ApplierStates

LEMMA IdleIsOne == Idle \in ApplierStates /\ Idle.at = "idle"
  BY DEF Idle, ApplierStates

LEMMA MutationsInit == GHInit => MutationsInv
<1> SUFFICES ASSUME GHInit PROVE MutationsInv
  OBVIOUS
<1>1. GHTypeOK
  BY DEF GHInit, GHTypeOK, AppliersTyped, NoPreview, Idle
<1>2. \A a \in Appliers : applying[a].at = "idle"
  BY DEF GHInit, Idle
<1>3. \A k \in Keys : effects[k] = {}
  BY DEF GHInit
<1> QED
  BY <1>1, <1>2, <1>3 DEF MutationsInv, GHInit

\* Gates change only from where they can still be decided or claimed, or by the one
\* that is consumed.
LEMMA GatesMove ==
    ASSUME MutationsInv, GHTypeOK',
           DOMAIN mutationGates \subseteq DOMAIN mutationGates',
           \A g \in DOMAIN mutationGates :
              mutationGates[g].status \in {"claimed", "consumed"} =>
                 mutationGates'[g].status \in {"claimed", "consumed"},
           UNCHANGED <<completed, applying, effects, reported, knew>>
    PROVE  MutationsInv'
<1>1. ClaimedGates \subseteq ClaimedGates'
  BY DEF ClaimedGates
<1> QED
  BY <1>1 DEF MutationsInv

LEMMA PreviewsMove ==
    ASSUME MutationsInv, NEW v \in Previewers,
           BindCandidate(v) \/ RequestGithub(v) \/ \E p \in Plans : Preview(v, p)
    PROVE  MutationsInv'
<1>1. UNCHANGED <<completed, applying, effects, reported, knew>>
  BY DEF BindCandidate, RequestGithub, Preview
<1>2. /\ mutationGates \in Seq(GateRows)
      /\ previewing \in [Previewers -> [plan : Plans \cup {0}, gate : Nat]]
  BY MutationTypes
<1>3. CASE RequestGithub(v)
  <2> DEFINE new == [plan |-> previewing[v].plan, status |-> "pending"]
  <2>1. previewing[v].plan \in Plans /\ mutationGates' = Append(mutationGates, new)
    BY <1>2, <1>3 DEF RequestGithub
  <2>2. new \in GateRows
    BY <2>1 DEF GateRows
  <2>3. /\ mutationGates' \in Seq(GateRows)
        /\ DOMAIN mutationGates \subseteq DOMAIN mutationGates'
        /\ \A g \in DOMAIN mutationGates : mutationGates'[g] = mutationGates[g]
        /\ Len(mutationGates) \in Nat
    BY <1>2, <2>1, <2>2, Appended
  <2>4. previewing' \in [Previewers -> [plan : Plans \cup {0}, gate : Nat]]
    <3>1. [previewing[v] EXCEPT !.gate = Len(mutationGates) + 1] \in [plan : Plans \cup {0}, gate : Nat]
      BY <1>2, <2>3
    <3>2. NoPreview \in [plan : Plans \cup {0}, gate : Nat]
      BY DEF NoPreview
    <3> QED
      BY <1>2, <1>3, <3>1, <3>2 DEF RequestGithub
  <2>5. GHTypeOK'
    BY <1>1, <2>3, <2>4 DEF MutationsInv, GHTypeOK, AppliersTyped, GateRows
  <2> QED
    BY <1>1, <2>3, <2>5, GatesMove
<1>4. CASE BindCandidate(v) \/ \E p \in Plans : Preview(v, p)
  <2>1. mutationGates' = mutationGates
    BY <1>4 DEF BindCandidate, Preview
  <2>2. previewing' \in [Previewers -> [plan : Plans \cup {0}, gate : Nat]]
    <3>1. NoPreview \in [plan : Plans \cup {0}, gate : Nat]
      BY DEF NoPreview
    <3>2. \A p \in Plans : [previewing[v] EXCEPT !.plan = p] \in [plan : Plans \cup {0}, gate : Nat]
      BY <1>2
    <3> QED
      BY <1>2, <1>4, <3>1, <3>2 DEF BindCandidate, Preview
  <2>3. GHTypeOK'
    BY <1>1, <2>1, <2>2 DEF MutationsInv, GHTypeOK, AppliersTyped
  <2> QED
    BY <1>1, <2>1, <2>3, GatesMove
<1> QED
  BY <1>3, <1>4

LEMMA GatesAreDecided ==
    ASSUME MutationsInv, NEW g \in DOMAIN mutationGates,
           \E decision \in {"approved", "rejected"} : DecideGithub(g, decision)
    PROVE  MutationsInv'
<1>1. PICK decision \in {"approved", "rejected"} : DecideGithub(g, decision)
  OBVIOUS
<1> DEFINE new == [mutationGates[g] EXCEPT !.status = decision]
<1>2. /\ mutationGates \in Seq(GateRows)
      /\ mutationGates[g].status = "pending" /\ mutationGates' = [mutationGates EXCEPT ![g] = new]
      /\ UNCHANGED <<previewing, completed, applying, effects, reported, knew>>
  BY <1>1, MutationTypes DEF DecideGithub
<1>3. new \in GateRows
  <2>1. mutationGates[g] \in GateRows
    BY <1>2
  <2> QED
    BY <2>1 DEF GateRows
<1> HIDE DEF new
<1>4. /\ mutationGates' \in Seq(GateRows) /\ DOMAIN mutationGates' = DOMAIN mutationGates
      /\ \A k \in DOMAIN mutationGates : k # g => mutationGates'[k] = mutationGates[k]
  BY <1>2, <1>3, ExceptProperties
<1>5. GHTypeOK'
  BY <1>2, <1>4 DEF MutationsInv, GHTypeOK, AppliersTyped, GateRows
<1> QED
  BY <1>2, <1>4, <1>5, GatesMove

LEMMA GatesAreClaimed ==
    ASSUME MutationsInv, NEW a \in Appliers, NEW g \in DOMAIN mutationGates, ClaimGithub(a, g)
    PROVE  MutationsInv'
<1> DEFINE new == [mutationGates[g] EXCEPT !.status = "claimed"]
           s == [Idle EXCEPT !.at = "claimed", !.gate = g]
<1>1. /\ mutationGates[g].status = "approved" /\ mutationGates' = [mutationGates EXCEPT ![g] = new]
      /\ applying' = [applying EXCEPT ![a] = s]
      /\ knew' = [h \in DOMAIN knew \cup {g} |-> IF h = g THEN reported ELSE knew[h]]
      /\ UNCHANGED <<previewing, completed, effects, reported>>
  BY DEF ClaimGithub
<1>2. /\ mutationGates \in Seq(GateRows) /\ applying \in [Appliers -> ApplierStates]
      /\ reported \subseteq completed /\ effects \in [Keys -> SUBSET Nat]
  BY MutationTypes
<1>3. new \in GateRows /\ new.status = "claimed"
  <2>1. mutationGates[g] \in GateRows
    BY <1>2
  <2> QED
    BY <2>1 DEF GateRows
<1>4. s \in ApplierStates /\ s.at = "claimed" /\ s.gate = g
  <2>1. g \in Nat
    BY <1>2
  <2> QED
    BY <2>1 DEF Idle, ApplierStates
<1> HIDE DEF new, s
<1>5. /\ mutationGates' \in Seq(GateRows) /\ DOMAIN mutationGates' = DOMAIN mutationGates
      /\ \A k \in DOMAIN mutationGates :
            mutationGates'[k] = IF k = g THEN new ELSE mutationGates[k]
  BY <1>1, <1>2, <1>3, ExceptProperties
<1>6. /\ applying' \in [Appliers -> ApplierStates]
      /\ \A b \in Appliers : applying'[b] = IF b = a THEN s ELSE applying[b]
  BY <1>1, <1>2, <1>4
<1>7. GHTypeOK'
  BY <1>1, <1>5, <1>6 DEF MutationsInv, GHTypeOK, AppliersTyped, GateRows, ApplierStates
<1>8. /\ ClaimedGates \subseteq ClaimedGates' /\ g \in ClaimedGates'
      /\ \A h \in ClaimedGates : knew'[h] = knew[h]
      /\ knew'[g] = reported
  BY <1>1, <1>3, <1>5 DEF ClaimedGates
<1>9. \A b \in Appliers :
          /\ applying'[b].at # "idle" => applying'[b].gate \in ClaimedGates'
                                         /\ knew'[applying'[b].gate] \subseteq completed
          /\ applying'[b].at = "running" => /\ knew'[applying'[b].gate] \subseteq applying'[b].skip
                                            /\ applying'[b].next # 0
  BY <1>2, <1>4, <1>6, <1>8 DEF MutationsInv
<1>10. \A k \in Keys : \A h \in effects[k] : h \in ClaimedGates' /\ k \notin knew'[h]
  BY <1>8 DEF MutationsInv
<1> QED
  BY <1>1, <1>2, <1>7, <1>9, <1>10 DEF MutationsInv

LEMMA AppliersMove ==
    ASSUME MutationsInv, NEW a \in Appliers, Verify(a) \/ KillApplier(a)
    PROVE  MutationsInv'
<1>1. /\ applying \in [Appliers -> ApplierStates] /\ completed \subseteq Keys
      /\ UNCHANGED <<previewing, mutationGates, completed, effects, reported, knew>>
  BY MutationTypes DEF Verify, KillApplier
<1>2. PICK s \in ApplierStates :
         /\ applying' = [applying EXCEPT ![a] = s]
         /\ s.at # "idle" => applying[a].at # "idle" /\ s.gate = applying[a].gate
         /\ s.at = "running" => s.skip = completed /\ s.next # 0
  <2>1. CASE KillApplier(a)
    BY <2>1, IdleIsOne DEF KillApplier
  <2>2. CASE Verify(a)
    <3>1. PICK at \in {"running", "ended"} :
             applying' = [applying EXCEPT ![a] = [@ EXCEPT !.at = at, !.skip = completed, !.next = 1]]
      BY <2>2 DEF Verify
    <3> DEFINE s == [applying[a] EXCEPT !.at = at, !.skip = completed, !.next = 1]
    <3>2. applying[a] \in ApplierStates /\ applying[a].at = "claimed"
      BY <1>1, <2>2 DEF Verify
    <3>3. s \in ApplierStates /\ s.gate = applying[a].gate /\ s.skip = completed /\ s.next = 1
      BY <1>1, <3>2 DEF ApplierStates
    <3>4. applying' = [applying EXCEPT ![a] = s]
      BY <1>1, <3>1
    <3>5. applying[a].at # "idle" /\ s.skip = completed /\ s.next # 0
      BY <3>2, <3>3
    <3> HIDE DEF s
    <3> QED
      BY <3>3, <3>4, <3>5
  <2> QED
    BY <2>1, <2>2
<1>3. /\ applying' \in [Appliers -> ApplierStates]
      /\ \A b \in Appliers : applying'[b] = IF b = a THEN s ELSE applying[b]
  BY <1>1, <1>2
<1>4. GHTypeOK'
  BY <1>1, <1>3 DEF MutationsInv, GHTypeOK, AppliersTyped, ApplierStates
<1>5. ClaimedGates' = ClaimedGates
  BY <1>1 DEF ClaimedGates
<1>6. \A b \in Appliers :
          /\ applying'[b].at # "idle" => applying'[b].gate \in ClaimedGates
                                         /\ knew[applying'[b].gate] \subseteq completed
          /\ applying'[b].at = "running" => /\ knew[applying'[b].gate] \subseteq applying'[b].skip
                                            /\ applying'[b].next # 0
  BY <1>2, <1>3 DEF MutationsInv
<1> QED
  BY <1>1, <1>4, <1>5, <1>6 DEF MutationsInv

LEMMA OperationsRun == ASSUME MutationsInv, NEW a \in Appliers, RunOperation(a) PROVE MutationsInv'
<1> DEFINE o == applying[a]
           key == PlanOf(a)[o.next]
<1>1. /\ applying \in [Appliers -> ApplierStates] /\ effects \in [Keys -> SUBSET Nat]
      /\ mutationGates \in Seq(GateRows)
      /\ o.at = "running" /\ o.next <= Len(PlanOf(a))
      /\ UNCHANGED <<previewing, mutationGates, completed, reported, knew>>
  BY MutationTypes DEF RunOperation
<1>2. /\ o \in ApplierStates /\ o.next # 0 /\ o.gate \in ClaimedGates
      /\ knew[o.gate] \subseteq o.skip /\ knew[o.gate] \subseteq completed
  BY <1>1 DEF MutationsInv
<1>3. key \in Keys
  <2>1. o.gate \in DOMAIN mutationGates
    BY <1>2 DEF ClaimedGates
  <2>2. mutationGates[o.gate] \in GateRows
    BY <1>1, <2>1
  <2>3. mutationGates[o.gate].plan \in Plans
    BY <2>2 DEF GateRows
  <2>4. Len(PlanOf(a)) \in Nat /\ DOMAIN PlanOf(a) = 1..Len(PlanOf(a))
    BY <2>3, MutationsAssumption DEF PlanOf
  <2>5. o.next \in Nat
    BY <1>2 DEF ApplierStates
  <2>6. o.next \in DOMAIN PlanOf(a)
    BY <1>1, <1>2, <2>4, <2>5
  <2> QED
    BY <2>3, <2>6 DEF PlanOf, Keys
<1> HIDE DEF key
<1>4. /\ [o EXCEPT !.next = o.next + 1, !.done = o.done \cup {key}] \in ApplierStates
      /\ [o EXCEPT !.next = o.next + 1, !.failed = o.failed \cup {key}] \in ApplierStates
      /\ o.next + 1 # 0
  <2>1. o.next + 1 \in Nat /\ o.next + 1 # 0
    BY <1>2 DEF ApplierStates
  <2>2. o.done \cup {key} \in SUBSET Keys /\ o.failed \cup {key} \in SUBSET Keys
    BY <1>2, <1>3 DEF ApplierStates
  <2> QED
    BY <1>2, <2>1, <2>2 DEF ApplierStates
<1>5. PICK s \in ApplierStates :
         /\ applying' = [applying EXCEPT ![a] = s]
         /\ s.gate = o.gate /\ s.skip = o.skip /\ s.next # 0
  <2>1. \/ applying' = [applying EXCEPT ![a] = [o EXCEPT !.next = o.next + 1,
                                                         !.done = o.done \cup {key}]]
        \/ applying' = [applying EXCEPT ![a] = [o EXCEPT !.next = o.next + 1,
                                                         !.failed = o.failed \cup {key}]]
    BY <1>1, <1>2 DEF RunOperation, key, ApplierStates
  <2>2. /\ [o EXCEPT !.next = o.next + 1, !.done = o.done \cup {key}].gate = o.gate
        /\ [o EXCEPT !.next = o.next + 1, !.done = o.done \cup {key}].skip = o.skip
        /\ [o EXCEPT !.next = o.next + 1, !.done = o.done \cup {key}].next = o.next + 1
        /\ [o EXCEPT !.next = o.next + 1, !.failed = o.failed \cup {key}].gate = o.gate
        /\ [o EXCEPT !.next = o.next + 1, !.failed = o.failed \cup {key}].skip = o.skip
        /\ [o EXCEPT !.next = o.next + 1, !.failed = o.failed \cup {key}].next = o.next + 1
    BY <1>2 DEF ApplierStates
  <2> QED
    BY <1>4, <2>1, <2>2
<1>6. /\ effects' \in [Keys -> SUBSET Nat]
      /\ \A k \in Keys : \A g \in effects'[k] :
            \/ g \in effects[k]
            \/ g = o.gate /\ k = key /\ key \notin o.skip
  <2>1. \/ effects' = effects
        \/ key \notin o.skip /\ effects' = [effects EXCEPT ![key] = @ \cup {o.gate}]
    BY DEF RunOperation, key
  <2>2. o.gate \in Nat
    BY <1>2 DEF ApplierStates
  <2> QED
    BY <1>1, <1>3, <2>1, <2>2
<1>7. /\ applying' \in [Appliers -> ApplierStates]
      /\ \A b \in Appliers : applying'[b] = IF b = a THEN s ELSE applying[b]
  BY <1>1, <1>5
<1>8. GHTypeOK'
  BY <1>1, <1>6, <1>7 DEF MutationsInv, GHTypeOK, AppliersTyped, ApplierStates
<1>9. ClaimedGates' = ClaimedGates
  BY <1>1 DEF ClaimedGates
<1>10. \A b \in Appliers :
          /\ applying'[b].at # "idle" => applying'[b].gate \in ClaimedGates
                                         /\ knew[applying'[b].gate] \subseteq completed
          /\ applying'[b].at = "running" => /\ knew[applying'[b].gate] \subseteq applying'[b].skip
                                            /\ applying'[b].next # 0
  BY <1>2, <1>5, <1>7 DEF MutationsInv
<1>11. \A k \in Keys : \A g \in effects'[k] : g \in ClaimedGates /\ k \notin knew[g]
  BY <1>2, <1>6 DEF MutationsInv
<1> QED
  BY <1>1, <1>8, <1>9, <1>10, <1>11 DEF MutationsInv

LEMMA AppliesFinish == ASSUME MutationsInv, NEW a \in Appliers, FinishApply(a) PROVE MutationsInv'
<1> DEFINE g == applying[a].gate
           new == [mutationGates[g] EXCEPT !.status = "consumed"]
<1>1. /\ mutationGates \in Seq(GateRows) /\ applying \in [Appliers -> ApplierStates]
      /\ completed \subseteq Keys /\ reported \subseteq Keys /\ reported \subseteq completed
  BY MutationTypes
<1>2. /\ completed' = completed \cup applying[a].done /\ reported' = reported \cup applying[a].done
      /\ mutationGates' = [mutationGates EXCEPT ![g] = new]
      /\ applying' = [applying EXCEPT ![a] = Idle]
      /\ applying[a].at # "idle"
      /\ UNCHANGED <<previewing, effects, knew>>
  BY <1>1 DEF FinishApply, Recorded
<1>3. applying[a].done \subseteq Keys /\ g \in DOMAIN mutationGates
  <2>1. applying[a] \in ApplierStates
    BY <1>1
  <2>2. g \in ClaimedGates
    BY <1>2 DEF MutationsInv
  <2> QED
    BY <2>1, <2>2 DEF ApplierStates, ClaimedGates
<1>4. new \in GateRows /\ new.status = "consumed"
  <2>1. mutationGates[g] \in GateRows
    BY <1>1, <1>3
  <2> QED
    BY <2>1 DEF GateRows
<1> HIDE DEF new
<1>5. /\ mutationGates' \in Seq(GateRows) /\ DOMAIN mutationGates' = DOMAIN mutationGates
      /\ \A k \in DOMAIN mutationGates :
            mutationGates'[k] = IF k = g THEN new ELSE mutationGates[k]
  BY <1>1, <1>2, <1>3, <1>4, ExceptProperties
<1>6. /\ applying' \in [Appliers -> ApplierStates]
      /\ \A b \in Appliers : applying'[b] = IF b = a THEN Idle ELSE applying[b]
  BY <1>1, <1>2, IdleIsOne
<1>7. completed' \subseteq Keys /\ reported' \subseteq Keys /\ reported' \subseteq completed'
  BY <1>1, <1>2, <1>3
<1>8. GHTypeOK'
  BY <1>2, <1>5, <1>6, <1>7 DEF MutationsInv, GHTypeOK, AppliersTyped, GateRows, ApplierStates
<1>9. ClaimedGates \subseteq ClaimedGates'
  BY <1>2, <1>4, <1>5 DEF ClaimedGates
<1>10. \A b \in Appliers :
          /\ applying'[b].at # "idle" => applying'[b].gate \in ClaimedGates
                                         /\ knew[applying'[b].gate] \subseteq completed
          /\ applying'[b].at = "running" => /\ knew[applying'[b].gate] \subseteq applying'[b].skip
                                            /\ applying'[b].next # 0
  BY <1>6, IdleIsOne DEF MutationsInv
<1> QED
  BY <1>2, <1>7, <1>8, <1>9, <1>10 DEF MutationsInv

LEMMA MutationsStep == MutationsInv /\ [GHNext]_ghvars => MutationsInv'
<1> SUFFICES ASSUME MutationsInv, [GHNext]_ghvars PROVE MutationsInv'
  OBVIOUS
<1>1. CASE UNCHANGED ghvars
  BY <1>1 DEF ghvars, MutationsInv, GHTypeOK, AppliersTyped, ClaimedGates
<1>2. ASSUME NEW v \in Previewers,
             RequestGithub(v) \/ BindCandidate(v) \/ \E p \in Plans : Preview(v, p)
      PROVE  MutationsInv'
  BY <1>2, PreviewsMove
<1>3. ASSUME NEW g \in DOMAIN mutationGates,
             \/ \E decision \in {"approved", "rejected"} : DecideGithub(g, decision)
             \/ \E a \in Appliers : ClaimGithub(a, g)
      PROVE  MutationsInv'
  BY <1>3, GatesAreDecided, GatesAreClaimed
<1>4. ASSUME NEW a \in Appliers, Verify(a) \/ RunOperation(a) \/ FinishApply(a) \/ KillApplier(a)
      PROVE  MutationsInv'
  BY <1>4, AppliersMove, OperationsRun, AppliesFinish
<1> QED
  BY <1>1, <1>2, <1>3, <1>4 DEF GHNext

\* An operation that a report names is not run under any gate claimed after it
\* (claim_github_gate, apply_github_plan, finish_github_apply).
THEOREM CompletedStaySkipped == GHSpec => []CompletedKeysSkipped
<1>1. MutationsInv => CompletedKeysSkipped
  BY DEF MutationsInv, ClaimedGates, CompletedKeysSkipped
<1> QED
  BY <1>1, MutationsInit, MutationsStep, PTL DEF GHSpec

(* Revisions, item states, epochs and checkpoints (backlog_revisions.py,          *)
(* mission_checkpoints.py).                                                       *)

CheckpointRows == [revision : Nat, epoch : Nat, completed : SUBSET Items]

LEMMA LedgerTypes ==
    ASSUME LedgerInv
    PROVE  /\ row \in MissionRows
           /\ revisions \in Seq(RevisionRows) /\ DOMAIN revisions = 1..Latest /\ Latest \in Nat
           /\ work \in Seq(ItemStates) /\ Len(work) = Latest /\ DOMAIN work = DOMAIN revisions
           /\ epochs \in Seq(Nat) /\ Len(epochs) \in Nat
           /\ checkpoints \in Seq(CheckpointRows) /\ Len(checkpoints) \in Nat
           /\ call \in [LCallers -> LCallStates]
           /\ row.active \in Authorized /\ row.active \in DOMAIN revisions
           /\ row.epoch \in {0, Len(epochs)}
  BY DEF LedgerInv, LTypeOK, CheckpointRows, LineGrows, Latest, Authorized

\* What a sequence holds.
LEMMA SequenceHolds == ASSUME NEW S, NEW s \in Seq(S), NEW n \in DOMAIN s PROVE s[n] \in S
  OBVIOUS

\* What the mission's row is when some of its fields are set.
Phases == {"executing", "waiting", "drafting", "completed"}

LEMMA RowFields ==
    ASSUME NEW r \in MissionRows
    PROVE  /\ r.version \in Nat /\ r.phase \in Phases
           /\ r.active \in Nat /\ r.epoch \in Nat /\ r.checkpoint \in Nat
  BY DEF MissionRows, Phases

LEMMA LedgerInit == LInit => LedgerInv
<1> SUFFICES ASSUME LInit PROVE LedgerInv
  OBVIOUS
<1> DEFINE first == [parent |-> 0, origin |-> "HUMAN", authority |-> "approved"]
           states == [i \in Items |-> [status |-> "PROPOSED", seq |-> 1]]
<1>1. /\ first \in RevisionRows /\ first.parent = 0 /\ first.authority = "approved"
      /\ states \in ItemStates
  BY DEF RevisionRows, Origins, ItemStates, Statuses
<1>2. revisions = <<first>> /\ work = <<states>>
  BY DEF LInit
<1> HIDE DEF first, states
<1>3. /\ revisions \in Seq(RevisionRows) /\ Len(revisions) = 1 /\ DOMAIN revisions = {1}
      /\ revisions[1] = first
      /\ work \in Seq(ItemStates) /\ Len(work) = 1
  BY <1>1, <1>2
<1>4. LTypeOK
  <2>1. row \in MissionRows /\ epochs \in Seq(Nat) /\ checkpoints = <<>>
    BY DEF LInit, MissionRows
  <2>2. call \in [LCallers -> LCallStates]
    BY DEF LInit, NoCall, LCallStates
  <2> QED
    BY <1>3, <2>1, <2>2 DEF LTypeOK
<1>5. Authorized = {1} /\ row.active = 1 /\ row.epoch = 1 /\ Len(epochs) = 1
  BY <1>1, <1>3 DEF Authorized, Latest, LInit
<1>6. OneLineOfAuthority /\ LineGrows
  BY <1>1, <1>3, <1>5 DEF OneLineOfAuthority, LineGrows, LInit, NoCall
<1> QED
  BY <1>4, <1>6 DEF LedgerInv

\* A caller goes from one of its states to another; revisions are never taken away.
LEMMA LedgerCallMoves ==
    ASSUME LedgerInv, NEW c \in LCallers, NEW s \in LCallStates,
           s.op = "checkpoint" => s.row.epoch # 0,
           call' = [call EXCEPT ![c] = s], DOMAIN revisions \subseteq DOMAIN revisions'
    PROVE  /\ call' \in [LCallers -> LCallStates']
           /\ \A d \in LCallers : call'[d].op = "checkpoint" => call'[d].row.epoch # 0
<1>1. LCallStates \subseteq LCallStates'
  BY DEF LCallStates
<1>2. call \in [LCallers -> LCallStates]
  BY LedgerTypes
<1>3. call' \in [LCallers -> LCallStates]
  BY <1>2
<1>4. \A d \in LCallers : call'[d] = IF d = c THEN s ELSE call[d]
  BY <1>2
<1>5. \A d \in LCallers : call'[d].op = "checkpoint" => call'[d].row.epoch # 0
  BY <1>4 DEF LedgerInv, LineGrows
<1> QED
  BY <1>1, <1>3, <1>5

LEMMA NoCallIsOne == NoCall \in LCallStates /\ NoCall.op = "none"
  BY DEF NoCall, LCallStates

\* A step that only moves a caller.
LEMMA OnlyCallMoves ==
    ASSUME LedgerInv, NEW c \in LCallers, NEW s \in LCallStates,
           s.op = "checkpoint" => s.row.epoch # 0,
           call' = [call EXCEPT ![c] = s],
           UNCHANGED <<row, revisions, work, epochs, checkpoints>>
    PROVE  LedgerInv'
<1>1. /\ call' \in [LCallers -> LCallStates']
      /\ \A d \in LCallers : call'[d].op = "checkpoint" => call'[d].row.epoch # 0
  BY LedgerCallMoves
<1>2. Authorized' = Authorized
  BY DEF Authorized, Latest
<1> QED
  BY <1>1, <1>2 DEF LedgerInv, LTypeOK, OneLineOfAuthority, LineGrows

\* A step that moves the mission's row and not its active revision.
LEMMA RowMoves ==
    ASSUME LedgerInv, row' \in MissionRows, row'.active = row.active,
           row'.epoch \in {0, Len(epochs)},
           UNCHANGED <<revisions, work, epochs, checkpoints, call>>
    PROVE  LedgerInv'
<1>1. Authorized' = Authorized /\ LCallStates' = LCallStates
  BY DEF Authorized, Latest, LCallStates
<1> QED
  BY <1>1 DEF LedgerInv, LTypeOK, OneLineOfAuthority, LineGrows

LEMMA RevisionsAreCreated ==
    ASSUME LedgerInv, NEW origin \in Origins, NEW edit \in Edits, NEW parent \in 1..Latest,
           CreateRevision(origin, parent, edit)
    PROVE  LedgerInv'
<1> DEFINE new == [parent |-> parent, origin |-> origin, authority |-> "none"]
           states == [i \in Items |->
                        [status |-> CarriedStatus(work[parent][i].status, edit[i]), seq |-> 1]]
<1>1. /\ revisions \in Seq(RevisionRows) /\ DOMAIN revisions = 1..Latest /\ Latest \in Nat
      /\ work \in Seq(ItemStates) /\ Len(work) = Latest /\ DOMAIN work = DOMAIN revisions
      /\ call \in [LCallers -> LCallStates] /\ row.active \in Authorized
  BY LedgerTypes
<1>2. revisions' = Append(revisions, new) /\ work' = Append(work, states)
  BY DEF CreateRevision
<1>3. new \in RevisionRows /\ new.parent = parent /\ new.authority = "none"
  BY <1>1 DEF RevisionRows
<1>4. states \in ItemStates
  <2>1. work[parent] \in ItemStates
    BY <1>1
  <2>2. \A i \in Items : CarriedStatus(work[parent][i].status, edit[i]) \in Statuses
    BY <2>1 DEF ItemStates, CarriedStatus, Statuses
  <2> QED
    BY <2>2 DEF ItemStates
<1> HIDE DEF new, states
<1>5. /\ revisions' \in Seq(RevisionRows) /\ Len(revisions') = Latest + 1
      /\ DOMAIN revisions' = 1..(Latest + 1)
      /\ \A n \in DOMAIN revisions : revisions'[n] = revisions[n]
      /\ revisions'[Latest + 1] = new
  BY <1>1, <1>2, <1>3, Appended DEF Latest
<1>6. work' \in Seq(ItemStates) /\ Len(work') = Latest + 1
  BY <1>1, <1>2, <1>4, Appended
<1>7. LCallStates \subseteq LCallStates'
  BY <1>1, <1>5 DEF LCallStates
<1>8. LTypeOK'
  BY <1>5, <1>6, <1>7 DEF CreateRevision, LedgerInv, LTypeOK
<1>9. Authorized' = Authorized
  BY <1>1, <1>3, <1>5 DEF Authorized, Latest
<1>10. OneLineOfAuthority'
  <2>1. \A n \in Authorized : n \in DOMAIN revisions /\ revisions'[n] = revisions[n]
    BY <1>1, <1>5 DEF Authorized
  <2>2. row' = row
    BY DEF CreateRevision
  <2> QED
    BY <1>9, <2>1, <2>2 DEF LedgerInv, OneLineOfAuthority
<1>11. \A n \in DOMAIN revisions' :
          revisions'[n].parent < n /\ (revisions'[n].authority = "approved" => n = 1)
  BY <1>1, <1>3, <1>5 DEF LedgerInv, LineGrows
<1>12. 1 \in DOMAIN revisions
  BY <1>1 DEF Authorized
<1>13. LineGrows'
  BY <1>5, <1>9, <1>11, <1>12 DEF CreateRevision, LedgerInv, LineGrows
<1> QED
  BY <1>8, <1>10, <1>13 DEF LedgerInv

\* What is read is read of the row as it is.
LEMMA CallsAreRead ==
    ASSUME LedgerInv, NEW c \in LCallers,
           \/ \E n \in 1..Latest : ReadApply(c, n)
           \/ \E i \in Items, target \in Statuses : ReadItem(c, i, target)
           \/ ReadCheckpoint(c) \/ Abandon(c)
    PROVE  LedgerInv'
<1>1. /\ row \in MissionRows /\ DOMAIN revisions = 1..Latest /\ work \in Seq(ItemStates)
      /\ DOMAIN work = DOMAIN revisions /\ row.active \in DOMAIN revisions
  BY LedgerTypes
<1>2. CASE \E n \in 1..Latest : ReadApply(c, n)
  <2>1. PICK n \in 1..Latest : ReadApply(c, n)
    BY <1>2
  <2> DEFINE s == [op |-> "apply", revision |-> n, row |-> row]
  <2>2. s \in LCallStates /\ s.op # "checkpoint"
    BY <1>1 DEF LCallStates
  <2>3. call' = [call EXCEPT ![c] = s] /\ UNCHANGED <<row, revisions, work, epochs, checkpoints>>
    BY <2>1 DEF ReadApply
  <2> HIDE DEF s
  <2> QED
    BY <2>2, <2>3, OnlyCallMoves
<1>3. CASE \E i \in Items, target \in Statuses : ReadItem(c, i, target)
  <2>1. PICK i \in Items, target \in Statuses : ReadItem(c, i, target)
    BY <1>3
  <2> DEFINE s == [op |-> "item", item |-> i, target |-> target,
                   seq |-> work[row.active][i].seq, row |-> row]
  <2>2. work[row.active] \in ItemStates
    BY <1>1, SequenceHolds
  <2>3. work[row.active][i].seq \in Nat
    BY <2>2 DEF ItemStates
  <2>4. s \in LCallStates /\ s.op # "checkpoint"
    BY <1>1, <2>3 DEF LCallStates
  <2>5. call' = [call EXCEPT ![c] = s] /\ UNCHANGED <<row, revisions, work, epochs, checkpoints>>
    BY <2>1 DEF ReadItem
  <2> HIDE DEF s
  <2> QED
    BY <2>4, <2>5, OnlyCallMoves
<1>4. CASE ReadCheckpoint(c)
  <2> DEFINE s == [op |-> "checkpoint", completed |-> DoneItems(row.active), row |-> row]
  <2>1. DoneItems(row.active) \in SUBSET Items
    BY DEF DoneItems
  <2>2. s \in LCallStates /\ s.row.epoch # 0
    BY <1>1, <1>4, <2>1 DEF LCallStates, ReadCheckpoint
  <2>3. call' = [call EXCEPT ![c] = s] /\ UNCHANGED <<row, revisions, work, epochs, checkpoints>>
    BY <1>4 DEF ReadCheckpoint
  <2> HIDE DEF s
  <2> QED
    BY <2>2, <2>3, OnlyCallMoves
<1>5. CASE Abandon(c)
  BY <1>5, NoCallIsOne, OnlyCallMoves DEF Abandon
<1> QED
  BY <1>2, <1>3, <1>4, <1>5

LEMMA RevisionsAreApplied == ASSUME LedgerInv, NEW c \in LCallers, CommitApply(c) PROVE LedgerInv'
<1> DEFINE n == call[c].revision
           waits == revisions[n].origin = "AGENT_MATERIAL"
           new == [revisions[n] EXCEPT !.authority = IF waits THEN "waiting" ELSE "applied"]
<1>1. /\ row \in MissionRows /\ row.active \in Authorized /\ row.active \in DOMAIN revisions
      /\ revisions \in Seq(RevisionRows) /\ DOMAIN revisions = 1..Latest /\ Latest \in Nat
      /\ call \in [LCallers -> LCallStates] /\ row.epoch \in {0, Len(epochs)}
  BY LedgerTypes
<1>2. /\ Applicable(n) /\ revisions[n].authority = "none"
      /\ call' = [call EXCEPT ![c] = NoCall]
      /\ UNCHANGED <<work, epochs, checkpoints>>
  BY DEF CommitApply, StillApplies
<1>3. n = Latest /\ revisions[n].parent = row.active /\ n \in DOMAIN revisions
  <2>1. n = Latest /\ revisions[n].parent = row.active
    BY <1>2 DEF Applicable
  <2>2. row.active \in 1..Latest
    BY <1>1
  <2> QED
    BY <1>1, <2>1, <2>2
<1>4. revisions[n] \in RevisionRows
  BY <1>1, <1>3
<1>5. new \in RevisionRows /\ new.parent = revisions[n].parent
      /\ new.authority = IF waits THEN "waiting" ELSE "applied"
  BY <1>4 DEF RevisionRows
<1>6. revisions' = [revisions EXCEPT ![n] = new]
  BY <1>1, <1>3 DEF CommitApply
<1>7. /\ row' \in MissionRows /\ row'.epoch = row.epoch
      /\ row'.active = IF waits THEN row.active ELSE n
  <2> DEFINE v == row.version + 1
             p == IF waits THEN "waiting" ELSE row.phase
             a == IF waits THEN row.active ELSE n
  <2>1. v \in Nat /\ p \in Phases /\ a \in Nat
    BY <1>1, <1>3, RowFields DEF Phases
  <2>2. row' = [row EXCEPT !.version = v, !.phase = p, !.active = a]
    BY DEF CommitApply
  <2> HIDE DEF v, p
  <2>3. a = IF waits THEN row.active ELSE n
    OBVIOUS
  <2> HIDE DEF a
  <2> QED
    BY <1>1, <2>1, <2>2, <2>3 DEF MissionRows, Phases
<1> HIDE DEF new
<1>8. /\ revisions' \in Seq(RevisionRows) /\ Len(revisions') = Len(revisions)
      /\ DOMAIN revisions' = DOMAIN revisions
      /\ \A k \in DOMAIN revisions : revisions'[k] = IF k = n THEN new ELSE revisions[k]
  BY <1>1, <1>3, <1>5, <1>6, ExceptProperties
<1>9. /\ call' \in [LCallers -> LCallStates']
      /\ \A d \in LCallers : call'[d].op = "checkpoint" => call'[d].row.epoch # 0
  BY <1>2, <1>8, NoCallIsOne, LedgerCallMoves
<1>10. LTypeOK'
  BY <1>2, <1>7, <1>8, <1>9 DEF LedgerInv, LTypeOK
<1>11. Authorized' = IF waits THEN Authorized ELSE Authorized \cup {n}
  BY <1>1, <1>2, <1>3, <1>5, <1>8 DEF Authorized, Latest
<1>12. \A m \in Authorized : m # n /\ m <= row.active /\ revisions'[m] = revisions[m]
  <2>1. \A m \in Authorized : m # n /\ m \in DOMAIN revisions
    BY <1>1, <1>2 DEF Authorized
  <2>2. row.active # 0
    BY <1>2 DEF Applicable
  <2> QED
    BY <1>8, <2>1, <2>2 DEF LedgerInv, OneLineOfAuthority
<1>13. \A m \in Authorized : revisions[m].parent # row.active
  <2>1. \A m \in Authorized : revisions[m].parent < m /\ revisions[m].parent \in Nat /\ m \in Nat
    <3> TAKE m \in Authorized
    <3>1. m \in DOMAIN revisions /\ m \in Nat
      BY <1>1 DEF Authorized
    <3>2. revisions[m] \in RevisionRows
      BY <1>1, <3>1, SequenceHolds
    <3> QED
      BY <3>1, <3>2 DEF LedgerInv, LineGrows, RevisionRows
  <2> QED
    BY <1>12, <2>1 DEF MissionRows
<1>14. \A k \in DOMAIN revisions : revisions'[k].parent = revisions[k].parent
  BY <1>5, <1>8
<1>15. Authorized \subseteq DOMAIN revisions /\ n \notin Authorized
  BY <1>1, <1>2 DEF Authorized
<1>16. OneLineOfAuthority'
  <2>1. \A m \in Authorized : revisions[m].authority = "applied" => revisions[m].parent \in Authorized
    BY DEF LedgerInv, OneLineOfAuthority
  <2>2. \A m, k \in Authorized : revisions[m].parent = revisions[k].parent => m = k
    BY DEF LedgerInv, OneLineOfAuthority
  <2>3. \A m \in Authorized' : revisions'[m].authority = "applied" => revisions'[m].parent \in Authorized'
    BY <1>1, <1>3, <1>11, <1>12, <1>14, <2>1
  <2>4. \A m, k \in Authorized' : revisions'[m].parent = revisions'[k].parent => m = k
    BY <1>3, <1>11, <1>13, <1>14, <1>15, <2>2
  <2>5. \A m \in Authorized' : m <= row'.active
    BY <1>1, <1>3, <1>7, <1>11, <1>12, <1>15
  <2> QED
    BY <2>3, <2>4, <2>5 DEF OneLineOfAuthority
<1>17. LineGrows'
  <2>1. \A k \in DOMAIN revisions' : revisions'[k].parent < k
    BY <1>8, <1>14 DEF LedgerInv, LineGrows
  <2>2. revisions'[1].authority = "approved"
    BY <1>1, <1>2, <1>3, <1>8 DEF LedgerInv, LineGrows
  <2>3. \A k \in DOMAIN revisions' : revisions'[k].authority = "approved" => k = 1
    BY <1>5, <1>8 DEF LedgerInv, LineGrows
  <2>4. row'.active \in Authorized'
    BY <1>1, <1>7, <1>11
  <2> QED
    BY <1>1, <1>2, <1>7, <1>9, <2>1, <2>2, <2>3, <2>4 DEF LineGrows
<1> QED
  BY <1>10, <1>16, <1>17 DEF LedgerInv

LEMMA ItemsAreRecorded == ASSUME LedgerInv, NEW c \in LCallers, CommitItem(c) PROVE LedgerInv'
<1> DEFINE k == call[c]
           new == [work[row.active] EXCEPT ![k.item] = [status |-> k.target, seq |-> k.seq + 1]]
<1>1. /\ row.active \in DOMAIN revisions /\ work \in Seq(ItemStates)
      /\ DOMAIN work = DOMAIN revisions /\ call \in [LCallers -> LCallStates]
      /\ Len(work) = Latest
  BY LedgerTypes
<1>2. k.op = "item" /\ call' = [call EXCEPT ![c] = NoCall]
      /\ UNCHANGED <<row, revisions, epochs, checkpoints>>
  BY DEF CommitItem
<1>3. k.item \in Items /\ k.target \in Statuses /\ k.seq \in Nat
  <2>1. k \in LCallStates
    BY <1>1
  <2> QED
    BY <1>2, <2>1 DEF LCallStates
<1>4. work[row.active] \in ItemStates
  BY <1>1
<1>5. new \in ItemStates
  BY <1>3, <1>4 DEF ItemStates
<1>6. work' = [work EXCEPT ![row.active] = new]
  BY <1>1 DEF CommitItem
<1> HIDE DEF new
<1>7. work' \in Seq(ItemStates) /\ Len(work') = Len(work)
  BY <1>1, <1>5, <1>6, ExceptProperties
<1>8. /\ call' \in [LCallers -> LCallStates']
      /\ \A d \in LCallers : call'[d].op = "checkpoint" => call'[d].row.epoch # 0
  BY <1>2, NoCallIsOne, LedgerCallMoves
<1>9. Authorized' = Authorized
  BY <1>2 DEF Authorized, Latest
<1> QED
  BY <1>2, <1>7, <1>8, <1>9 DEF LedgerInv, LTypeOK, OneLineOfAuthority, LineGrows

LEMMA CheckpointsAreRecorded ==
    ASSUME LedgerInv, NEW c \in LCallers, CommitCheckpoint(c)
    PROVE  /\ LedgerInv'
           /\ checkpoints' = Append(checkpoints,
                 [revision |-> row.active, epoch |-> Len(epochs), completed |-> DoneItems(row.active)])
<1> DEFINE new == [revision |-> row.active, epoch |-> row.epoch, completed |-> call[c].completed]
<1>1. /\ row \in MissionRows /\ checkpoints \in Seq(CheckpointRows) /\ Len(checkpoints) \in Nat
      /\ row.epoch \in {0, Len(epochs)} /\ call \in [LCallers -> LCallStates]
  BY LedgerTypes
<1>2. /\ call[c].op = "checkpoint" /\ row.epoch = call[c].row.epoch
      /\ call[c].completed = DoneItems(row.active)
      /\ checkpoints' = Append(checkpoints, new)
      /\ call' = [call EXCEPT ![c] = NoCall]
      /\ UNCHANGED <<revisions, work, epochs>>
  BY DEF CommitCheckpoint, Partition
<1>3. row.epoch = Len(epochs)
  BY <1>1, <1>2 DEF LedgerInv, LineGrows
<1>4. new \in CheckpointRows
  BY <1>1, <1>2 DEF MissionRows, CheckpointRows, DoneItems
<1>5. row' \in MissionRows /\ row'.active = row.active /\ row'.epoch = row.epoch
  <2> DEFINE v == row.version + 1
             k == Len(checkpoints) + 1
  <2>1. v \in Nat /\ k \in Nat
    BY <1>1, RowFields
  <2>2. row' = [row EXCEPT !.version = v, !.checkpoint = k]
    BY DEF CommitCheckpoint
  <2> HIDE DEF v, k
  <2> QED
    BY <1>1, <2>1, <2>2 DEF MissionRows
<1>6. /\ call' \in [LCallers -> LCallStates']
      /\ \A d \in LCallers : call'[d].op = "checkpoint" => call'[d].row.epoch # 0
  BY <1>2, NoCallIsOne, LedgerCallMoves
<1>7. checkpoints' \in Seq(CheckpointRows)
  <2> HIDE DEF new
  <2> QED
    BY <1>1, <1>2, <1>4, Appended
<1>8. Authorized' = Authorized
  BY <1>2 DEF Authorized, Latest
<1>9. LedgerInv'
  BY <1>2, <1>5, <1>6, <1>7, <1>8
     DEF LedgerInv, LTypeOK, OneLineOfAuthority, LineGrows, CheckpointRows
<1> QED
  BY <1>2, <1>3, <1>9

LEMMA EpochsRestart ==
    ASSUME LedgerInv, NEW k \in 1..Len(checkpoints), RestartEpoch(k) PROVE LedgerInv'
<1>1. /\ row \in MissionRows /\ epochs \in Seq(Nat) /\ Len(epochs) \in Nat
      /\ Len(checkpoints) \in Nat
  BY LedgerTypes
<1>2. k \in Nat
  BY <1>1
<1>3. epochs' \in Seq(Nat) /\ Len(epochs') = Len(epochs) + 1
  BY <1>1, <1>2, Appended DEF RestartEpoch
<1>4. row' \in MissionRows /\ row'.active = row.active /\ row'.epoch = Len(epochs')
  <2> DEFINE v == row.version + 1
             e == Len(epochs) + 1
  <2>1. v \in Nat /\ e \in Nat /\ e = Len(epochs')
    BY <1>1, <1>3, RowFields
  <2>2. row' = [row EXCEPT !.version = v, !.epoch = e, !.checkpoint = k]
    BY DEF RestartEpoch
  <2> HIDE DEF v, e
  <2> QED
    BY <1>1, <1>2, <2>1, <2>2 DEF MissionRows
<1>5. UNCHANGED <<revisions, work, checkpoints, call>>
  BY DEF RestartEpoch
<1>6. Authorized' = Authorized /\ LCallStates' = LCallStates
  BY <1>5 DEF Authorized, Latest, LCallStates
<1> QED
  BY <1>3, <1>4, <1>5, <1>6 DEF LedgerInv, LTypeOK, OneLineOfAuthority, LineGrows

LEMMA MissionMoves ==
    ASSUME LedgerInv,
           \/ \E d \in {"RUNNING", "STOPPED"} : MoveDisposition(d)
           \/ \E from, to \in {"executing", "waiting", "drafting", "completed"} : MovePhase(from, to)
           \/ SourceChanges
    PROVE  LedgerInv'
<1>1. row \in MissionRows /\ row.epoch \in {0, Len(epochs)}
  BY LedgerTypes
<1>2. PICK new \in MissionRows :
         Move(new) /\ new.active = row.active /\ new.epoch \in {0, Len(epochs)}
  <2>1. CASE \E d \in {"RUNNING", "STOPPED"} : MoveDisposition(d)
    BY <1>1, <2>1 DEF MoveDisposition, MissionRows
  <2>2. CASE \E from, to \in {"executing", "waiting", "drafting", "completed"} : MovePhase(from, to)
    BY <1>1, <2>2 DEF MovePhase, MissionRows
  <2>3. CASE SourceChanges
    <3> DEFINE r == [row EXCEPT !.phase = "drafting", !.epoch = 0, !.checkpoint = 0]
    <3>1. Move(r)
      BY <2>3 DEF SourceChanges
    <3>2. r \in MissionRows /\ r.active = row.active /\ r.epoch = 0
      BY <1>1 DEF MissionRows
    <3> HIDE DEF r
    <3> QED
      BY <3>1, <3>2
  <2> QED
    BY <2>1, <2>2, <2>3
<1>3. row' \in MissionRows /\ row'.active = new.active /\ row'.epoch = new.epoch
  BY <1>1, <1>2 DEF Move, MissionRows
<1> QED
  BY <1>2, <1>3, RowMoves DEF Move

LEMMA LedgerStep == LedgerInv /\ [LNext]_lvars => LedgerInv'
<1> SUFFICES ASSUME LedgerInv, [LNext]_lvars PROVE LedgerInv'
  OBVIOUS
<1>1. CASE \E origin \in Origins, edit \in Edits, parent \in 1..Latest :
              CreateRevision(origin, parent, edit)
  BY <1>1, RevisionsAreCreated
<1>2. ASSUME NEW c \in LCallers,
             \/ \E n \in 1..Latest : ReadApply(c, n)
             \/ \E i \in Items, target \in Statuses : ReadItem(c, i, target)
             \/ ReadCheckpoint(c) \/ CommitApply(c) \/ CommitItem(c) \/ CommitCheckpoint(c)
             \/ Abandon(c)
      PROVE  LedgerInv'
  BY <1>2, CallsAreRead, RevisionsAreApplied, ItemsAreRecorded, CheckpointsAreRecorded
<1>3. CASE \E k \in 1..Len(checkpoints) : RestartEpoch(k)
  BY <1>3, EpochsRestart
<1>4. CASE \/ \E d \in {"RUNNING", "STOPPED"} : MoveDisposition(d)
           \/ \E from, to \in {"executing", "waiting", "drafting", "completed"} : MovePhase(from, to)
           \/ SourceChanges
  BY <1>4, MissionMoves
<1>5. CASE UNCHANGED lvars
  BY <1>5 DEF lvars, LedgerInv, LTypeOK, LCallStates, OneLineOfAuthority, LineGrows, Authorized, Latest
<1> QED
  BY <1>1, <1>2, <1>3, <1>4, <1>5 DEF LNext

\* A mission's authorized revisions are one line, each extending the one before, and
\* it works from the last of them, whatever calls overlap (apply_revision reads
\* outside the write lock and its commit compares the version it read).
THEOREM OneLine == LSpec => []OneLineOfAuthority
<1>1. LedgerInv => OneLineOfAuthority
  BY DEF LedgerInv
<1> QED
  BY <1>1, LedgerInit, LedgerStep, PTL DEF LSpec

\* The types of the mission's records.
THEOREM LedgerTypeCorrect == LSpec => []LTypeOK
<1>1. LedgerInv => LTypeOK
  BY DEF LedgerInv
<1> QED
  BY <1>1, LedgerInit, LedgerStep, PTL DEF LSpec

\* Whether a checkpoint was taken, and then that it names what was done.
LEMMA CheckpointsStep ==
    ASSUME LedgerInv, [LNext]_lvars, Len(checkpoints') > Len(checkpoints)
    PROVE  LET k == checkpoints'[Len(checkpoints')] IN
           /\ k.completed = {i \in Items : work'[k.revision][i].status = "DONE"}
           /\ k.revision \in Authorized /\ k.epoch = Len(epochs)
<1>1. checkpoints \in Seq(CheckpointRows) /\ Len(checkpoints) \in Nat /\ row.active \in Authorized
  BY LedgerTypes
<1>2. checkpoints' # checkpoints
  BY <1>1
<1>3. PICK c \in LCallers : CommitCheckpoint(c)
  <2>1. \A origin \in Origins, edit \in Edits, parent \in 1..Latest :
           CreateRevision(origin, parent, edit) => checkpoints' = checkpoints
    BY DEF CreateRevision
  <2>2. \A c \in LCallers :
           \/ \E n \in 1..Latest : ReadApply(c, n)
           \/ \E i \in Items, target \in Statuses : ReadItem(c, i, target)
           \/ ReadCheckpoint(c) \/ CommitApply(c) \/ CommitItem(c) \/ Abandon(c)
           => checkpoints' = checkpoints
    BY DEF ReadApply, ReadItem, ReadCheckpoint, CommitApply, CommitItem, Abandon
  <2>3. \A k \in 1..Len(checkpoints) : RestartEpoch(k) => checkpoints' = checkpoints
    BY DEF RestartEpoch
  <2>4. (\E d \in {"RUNNING", "STOPPED"} : MoveDisposition(d)) => checkpoints' = checkpoints
    BY DEF MoveDisposition, Move
  <2>5. (\E from, to \in {"executing", "waiting", "drafting", "completed"} : MovePhase(from, to))
          => checkpoints' = checkpoints
    BY DEF MovePhase, Move
  <2>6. SourceChanges => checkpoints' = checkpoints
    BY DEF SourceChanges, Move
  <2>7. UNCHANGED lvars => checkpoints' = checkpoints
    BY DEF lvars
  <2> QED
    BY <1>2, <2>1, <2>2, <2>3, <2>4, <2>5, <2>6, <2>7 DEF LNext
<1> DEFINE new == [revision |-> row.active, epoch |-> Len(epochs),
                   completed |-> DoneItems(row.active)]
<1>4. checkpoints' = Append(checkpoints, new) /\ work' = work
  BY <1>3, CheckpointsAreRecorded DEF CommitCheckpoint
<1>5. new.revision = row.active /\ new.epoch = Len(epochs) /\ new.completed = DoneItems(row.active)
  OBVIOUS
<1> HIDE DEF new
<1>6. checkpoints'[Len(checkpoints')] = new
  BY <1>1, <1>4
<1> QED
  BY <1>1, <1>4, <1>5, <1>6 DEF DoneItems

\* A checkpoint calls done exactly what is done in the revision it is of, which is in
\* force, and is of the newest epoch (record_checkpoint, _validate_work_partition).
THEOREM CheckpointsAreExact == LSpec => CheckpointsExact
<1>1. LedgerInv /\ [LNext]_lvars =>
        [Len(checkpoints') > Len(checkpoints) =>
           LET k == checkpoints'[Len(checkpoints')] IN
           /\ k.completed = {i \in Items : work'[k.revision][i].status = "DONE"}
           /\ k.revision \in Authorized /\ k.epoch = Len(epochs)]_lvars
  BY CheckpointsStep
<1> QED
  BY <1>1, LedgerInit, LedgerStep, PTL DEF LSpec, CheckpointsExact

-----------------------------------------------------------------------------
(* The versions of a game (playable_versions.py).                            *)

PlayableTyped ==
    /\ \E S : versions \in Seq(S)
    /\ \E S : promotions \in Seq(S)
    /\ pointer.sequence \in Nat
    /\ offer = [p \in Processes |-> offer[p]]

\* What a call inserts was verified, and what it restores is on record.
OffersKnown ==
    \A p \in Processes :
        /\ offer[p].at \in {"compare", "insert"} => offer[p].build.verified
        /\ offer[p].at \in {"sequence", "restore"} => offer[p].target \in DOMAIN versions

PlayableInv == PlayableTyped /\ OffersKnown /\ PointerFollowsHistory

\* A sequence that grows keeps its entries and is a sequence still.
LEMMA Grown ==
  ASSUME NEW S, NEW s \in Seq(S), NEW e
  PROVE  /\ Append(s, e) \in Seq(S \cup {e})
         /\ Len(s) \in Nat /\ DOMAIN s = 1..Len(s)
         /\ DOMAIN Append(s, e) = 1..(Len(s) + 1)
         /\ Append(s, e)[Len(s) + 1] = e
         /\ \A n \in DOMAIN s : Append(s, e)[n] = s[n]
<1>1. S \subseteq S \cup {e} /\ e \in S \cup {e}
  OBVIOUS
<1>2. s \in Seq(S \cup {e})
  BY <1>1, SeqMonotonic
<1>3. Append(s, e) \in Seq(S \cup {e}) /\ Len(Append(s, e)) = Len(s) + 1
  BY <1>1, <1>2, AppendProperties
<1>4. /\ Append(s, e)[Len(s) + 1] = e
      /\ \A n \in 1..Len(s) : Append(s, e)[n] = s[n]
  BY <1>1, <1>2, AppendProperties
<1>5. Len(s) \in Nat /\ DOMAIN s = 1..Len(s) /\ DOMAIN Append(s, e) = 1..(Len(s) + 1)
  BY <1>2, <1>3, LenProperties
<1> QED
  BY <1>3, <1>4, <1>5

LEMMA PlayableStart == PVInit => PlayableInv
<1> SUFFICES ASSUME PVInit PROVE PlayableInv
  OBVIOUS
<1>1. versions = <<>> /\ promotions = <<>> /\ DOMAIN versions = {} /\ DOMAIN promotions = {}
  BY EmptySeq DEF PVInit
<1>2. PlayableTyped
  BY <1>1, EmptySeq DEF PVInit, PlayableTyped
<1>3. OffersKnown
  BY DEF PVInit, OffersKnown, NoOffer
<1>4. Moves = {}
  BY <1>1 DEF Moves
<1>5. PointerFollowsHistory
  BY <1>1, <1>4, FS_EmptySet DEF PVInit, PointerFollowsHistory
<1> QED
  BY <1>2, <1>3, <1>5 DEF PlayableInv

\* A call that reads: what it keeps is what it may act on.
LEMMA ReadingKeeps ==
  ASSUME PlayableInv, NEW p \in Processes, NEW new, offer' = [offer EXCEPT ![p] = new],
         UNCHANGED <<versions, pointer, promotions>>,
         new.at \in {"compare", "insert"} => new.build.verified,
         new.at \in {"sequence", "restore"} => new.target \in DOMAIN versions
  PROVE  PlayableInv'
<1>1. /\ offer' = [q \in Processes |-> offer'[q]] /\ offer'[p] = new
      /\ \A q \in Processes \ {p} : offer'[q] = offer[q]
  BY DEF PlayableInv, PlayableTyped
<1>2. PlayableTyped'
  BY <1>1 DEF PlayableInv, PlayableTyped
<1>3. OffersKnown'
  BY <1>1 DEF PlayableInv, OffersKnown
<1>4. Moves' = Moves
  BY DEF Moves
<1>5. PointerFollowsHistory'
  BY <1>4 DEF PlayableInv, PointerFollowsHistory
<1> QED
  BY <1>2, <1>3, <1>5 DEF PlayableInv

LEMMA PromoteKeeps ==
  ASSUME PlayableInv, NEW p \in Processes, NEW m \in Commands, NEW b \in Builds, Promote(p, m, b)
  PROVE  PlayableInv'
<1>1. PICK new : /\ new = [at |-> IF b.verified THEN "compare" ELSE "reject", command |-> m,
                           build |-> b, previous |-> pointer.version]
                 /\ offer' = [offer EXCEPT ![p] = new]
  BY DEF Promote
<1>2. /\ new.at \in {"compare", "reject"} /\ new.build = b /\ new.at = "compare" => b.verified
  BY <1>1
<1> QED
  BY <1>1, <1>2, ReadingKeeps DEF Promote

LEMMA CompareKeeps ==
  ASSUME PlayableInv, NEW p \in Processes, Compare(p)
  PROVE  PlayableInv'
<1>1. PICK known, reproducible :
         offer' = [offer EXCEPT ![p] =
            [at |-> IF known = {} THEN "insert"
                    ELSE IF offer[p].previous \in known THEN "unchanged" ELSE "move",
             command |-> offer[p].command, build |-> offer[p].build,
             previous |-> offer[p].previous, reproducible |-> reproducible]]
  BY DEF Compare
<1>2. PICK stage : stage = IF known = {} THEN "insert"
                           ELSE IF offer[p].previous \in known THEN "unchanged" ELSE "move"
  OBVIOUS
<1>3. PICK new : new = [at |-> stage, command |-> offer[p].command, build |-> offer[p].build,
                        previous |-> offer[p].previous, reproducible |-> reproducible]
  OBVIOUS
<1>4. /\ offer' = [offer EXCEPT ![p] = new] /\ stage \in {"insert", "unchanged", "move"}
      /\ new.at = stage /\ new.build = offer[p].build
  BY <1>1, <1>2, <1>3
<1>5. offer[p].build.verified
  BY DEF Compare, PlayableInv, OffersKnown
<1> QED
  BY <1>4, <1>5, ReadingKeeps DEF Compare

LEMMA RestoreKeeps ==
  ASSUME PlayableInv, NEW p \in Processes, NEW m \in Commands, NEW t \in DOMAIN versions,
         NEW branch \in Branches, Restore(p, m, t, branch)
  PROVE  PlayableInv'
<1>1. PICK new : /\ new.at = "sequence" /\ new.target = t
                 /\ offer' = [offer EXCEPT ![p] = new]
  BY DEF Restore
<1> QED
  BY <1>1, ReadingKeeps DEF Restore

LEMMA SequenceKeeps ==
  ASSUME PlayableInv, NEW p \in Processes, ReadSequence(p)
  PROVE  PlayableInv'
<1>1. PICK new : /\ new.at = "restore" /\ new.target = offer[p].target
                 /\ offer' = [offer EXCEPT ![p] = new]
  BY DEF ReadSequence
<1>2. offer[p].target \in DOMAIN versions
  BY DEF ReadSequence, PlayableInv, OffersKnown
<1> QED
  BY <1>1, <1>2, ReadingKeeps DEF ReadSequence

\* A promotion that is recorded, with the pointer's move.
RecordedAs(e) ==
    /\ e.moved \in BOOLEAN
    /\ promotions' = Append(promotions, e)
    /\ pointer' = IF e.moved THEN [version |-> e.version, sequence |-> pointer.sequence + 1]
                  ELSE pointer

\* The versions it leaves: one more when it brings one in.
BringsIn(e) ==
    \/ versions' = versions
    \/ /\ e.moved /\ e.version = Len(versions) + 1
       /\ \E w : w.build.verified /\ versions' = Append(versions, w)

\* It is of a command that was not on record.
LEMMA RecordingKeeps ==
  ASSUME PlayableInv, NEW p \in Processes, offer' = [offer EXCEPT ![p] = NoOffer],
         NEW e, ~OnRecord(e.command), RecordedAs(e), BringsIn(e)
  PROVE  PlayableInv'
<1> USE DEF RecordedAs
<1> DEFINE newest == Len(promotions) + 1
<1>0. PICK S : promotions \in Seq(S)
  BY DEF PlayableInv, PlayableTyped
<1>1. /\ Len(promotions) \in Nat /\ DOMAIN promotions = 1..Len(promotions)
      /\ DOMAIN promotions' = 1..newest /\ promotions'[newest] = e
      /\ \A n \in DOMAIN promotions : promotions'[n] = promotions[n]
      /\ promotions' \in Seq(S \cup {e})
  BY <1>0, Grown
<1>2. /\ \E T : versions' \in Seq(T)
      /\ DOMAIN versions \subseteq DOMAIN versions'
      /\ \A v \in DOMAIN versions : versions'[v] = versions[v]
      /\ \A v \in DOMAIN versions' \ DOMAIN versions :
            v = e.version /\ e.moved /\ versions'[v].build.verified
  <2>1. CASE versions' = versions
    BY <2>1 DEF PlayableInv, PlayableTyped
  <2>2. CASE e.moved /\ e.version = Len(versions) + 1
             /\ \E w : w.build.verified /\ versions' = Append(versions, w)
    <3>1. PICK w : w.build.verified /\ versions' = Append(versions, w)
      BY <2>2
    <3>0. PICK T : versions \in Seq(T)
      BY DEF PlayableInv, PlayableTyped
    <3>2. /\ Len(versions) \in Nat /\ DOMAIN versions = 1..Len(versions)
          /\ DOMAIN versions' = 1..(Len(versions) + 1) /\ versions'[Len(versions) + 1] = w
          /\ \A v \in DOMAIN versions : versions'[v] = versions[v]
          /\ versions' \in Seq(T \cup {w})
      BY <3>0, <3>1, Grown
    <3>3. \A v \in DOMAIN versions' \ DOMAIN versions : v = Len(versions) + 1
      BY <3>2
    <3>4. DOMAIN versions \subseteq DOMAIN versions' /\ \E U : versions' \in Seq(U)
      BY <3>2
    <3> QED
      BY <2>2, <3>1, <3>2, <3>3, <3>4
  <2> QED
    BY <2>1, <2>2 DEF BringsIn
<1>3. /\ newest \in Nat /\ newest \notin DOMAIN promotions /\ DOMAIN promotions' = DOMAIN promotions \cup {newest}
      /\ \A n \in DOMAIN promotions : n < newest
  BY <1>1
<1> HIDE DEF newest
<1>4. /\ Moves \subseteq DOMAIN promotions
      /\ Moves' = IF e.moved THEN Moves \cup {newest} ELSE Moves
  BY <1>1, <1>3 DEF Moves
<1>5. PlayableTyped'
  <2>1. \E T : promotions' \in Seq(T)
    BY <1>1
  <2>2. pointer'.sequence \in Nat
    BY DEF PlayableInv, PlayableTyped
  <2>3. offer' = [q \in Processes |-> offer'[q]]
    BY DEF PlayableInv, PlayableTyped
  <2> QED
    BY <1>2, <2>1, <2>2, <2>3 DEF PlayableTyped
<1>6. OffersKnown'
  <2>1. /\ offer'[p].at = "idle" /\ \A q \in Processes \ {p} : offer'[q] = offer[q]
    BY DEF PlayableInv, PlayableTyped, NoOffer
  <2> QED
    BY <1>2, <2>1 DEF PlayableInv, OffersKnown
<1>7. pointer'.sequence = Cardinality(Moves')
  <2>1. IsFiniteSet(Moves)
    <3>0. \A n \in Nat : IsFiniteSet(1..n)
      BY FS_Interval
    <3>1. IsFiniteSet(1..Len(promotions))
      BY <1>1, <3>0
    <3> QED
      BY <1>1, <1>4, <3>1, FS_Subset
  <2>2. newest \notin Moves
    BY <1>3, <1>4
  <2>3. Cardinality(Moves \cup {newest}) = Cardinality(Moves) + 1
    BY <2>1, <2>2, FS_AddElement
  <2> QED
    BY <1>4, <2>3 DEF PlayableInv, PointerFollowsHistory
<1>8. \A n \in Moves' : (\A k \in Moves' : k <= n) => pointer'.version = promotions'[n].version
  <2>1. CASE e.moved
    <3>1. \A n \in Moves' : (\A k \in Moves' : k <= n) => n = newest
      <4> SUFFICES ASSUME NEW n \in Moves', \A k \in Moves' : k <= n, n # newest PROVE FALSE
        OBVIOUS
      <4>1. n \in DOMAIN promotions /\ n < newest /\ newest <= n /\ n \in Nat /\ newest \in Nat
        BY <1>1, <1>3, <1>4, <2>1
      <4> QED
        BY <4>1
    <3> QED
      BY <1>1, <2>1, <3>1
  <2>2. CASE ~e.moved
    BY <1>1, <1>4, <2>2 DEF PlayableInv, PointerFollowsHistory
  <2> QED
    BY <2>1, <2>2
<1>9. \A v \in DOMAIN versions' :
         versions'[v].build.verified /\ \E n \in Moves' : promotions'[n].version = v
  <2> SUFFICES ASSUME NEW v \in DOMAIN versions'
               PROVE  versions'[v].build.verified /\ \E n \in Moves' : promotions'[n].version = v
    OBVIOUS
  <2>1. CASE v \in DOMAIN versions
    <3>1. versions'[v].build.verified
      BY <1>2, <2>1 DEF PlayableInv, PointerFollowsHistory
    <3>2. PICK n \in Moves : promotions[n].version = v
      BY <2>1 DEF PlayableInv, PointerFollowsHistory
    <3>3. n \in Moves' /\ promotions'[n].version = v
      BY <1>1, <1>4, <3>2
    <3> QED
      BY <3>1, <3>3
  <2>2. CASE v \notin DOMAIN versions
    <3>1. e.moved /\ v = e.version /\ versions'[v].build.verified
      BY <1>2, <2>2
    <3>2. newest \in Moves' /\ promotions'[newest].version = v
      BY <1>1, <1>4, <3>1
    <3> QED
      BY <3>1, <3>2
  <2> QED
    BY <2>1, <2>2
<1>10. \A n, k \in DOMAIN promotions' : promotions'[n].command = promotions'[k].command => n = k
  <2>1. \A n \in DOMAIN promotions : promotions[n].command # e.command
    BY DEF OnRecord
  <2> QED
    BY <1>1, <1>3, <2>1 DEF PlayableInv, PointerFollowsHistory
<1> QED
  BY <1>5, <1>6, <1>7, <1>8, <1>9, <1>10 DEF PlayableInv, PointerFollowsHistory

\* What is refused leaves the call alone ended.
LEMMA EndingKeeps ==
  ASSUME PlayableInv, NEW p \in Processes, offer' = [offer EXCEPT ![p] = NoOffer],
         UNCHANGED <<versions, pointer, promotions>>
  PROVE  PlayableInv'
<1>1. PICK new : new = NoOffer
  OBVIOUS
<1>2. new.at = "idle" /\ offer' = [offer EXCEPT ![p] = new]
  BY <1>1 DEF NoOffer
<1> QED
  BY <1>2, ReadingKeeps

LEMMA ReturnedKeeps ==
  ASSUME PlayableInv, NEW p \in Processes, offer' = [offer EXCEPT ![p] = NoOffer],
         NEW v, NEW outcome, NEW moved \in BOOLEAN, NEW reproducible,
         Returned(p, v, outcome, moved, reproducible)
  PROVE  PlayableInv'
<1>1. CASE OnRecord(offer[p].command)
  BY <1>1, EndingKeeps DEF Returned
<1>2. CASE ~OnRecord(offer[p].command)
  <2>1. PICK e : e = Promotion(p, v, outcome, moved, reproducible)
    OBVIOUS
  <2>2. e.command = offer[p].command /\ e.version = v /\ e.moved = moved
    BY <2>1 DEF Promotion
  <2>3. /\ promotions' = Append(promotions, e) /\ versions' = versions
        /\ pointer' = IF e.moved THEN [version |-> e.version, sequence |-> pointer.sequence + 1]
                      ELSE pointer
    BY <1>2, <2>1, <2>2 DEF Returned, Records
  <2>4. e.moved \in BOOLEAN
    BY <2>2
  <2>6. RecordedAs(e) /\ BringsIn(e)
    BY <2>3, <2>4 DEF RecordedAs, BringsIn
  <2>5. ~OnRecord(e.command)
    BY <1>2, <2>2
  <2> QED
    BY <2>5, <2>6, RecordingKeeps
<1> QED
  BY <1>1, <1>2

LEMMA InsertionKeeps ==
  ASSUME PlayableInv, NEW p \in Processes, offer' = [offer EXCEPT ![p] = NoOffer],
         NEW digest, NEW build, build.verified, NEW from, NEW outcome, NEW reproducible,
         InsertVersion(p, digest, build, from, outcome, reproducible)
  PROVE  PlayableInv'
<1>1. CASE ~MayRecord(p, digest)
  BY <1>1, EndingKeeps DEF InsertVersion
<1>2. CASE MayRecord(p, digest)
  <2>1. PICK e : e = Promotion(p, Len(versions) + 1, outcome, TRUE, reproducible)
    OBVIOUS
  <2>2. e.command = offer[p].command /\ e.version = Len(versions) + 1 /\ e.moved = TRUE
    BY <2>1 DEF Promotion
  <2>3. PICK w : w = [digest |-> digest, build |-> build, from |-> from]
    OBVIOUS
  <2>4. /\ promotions' = Append(promotions, e) /\ versions' = Append(versions, w)
        /\ pointer' = IF e.moved THEN [version |-> e.version, sequence |-> pointer.sequence + 1]
                      ELSE pointer
    BY <1>2, <2>1, <2>2, <2>3 DEF InsertVersion, Records
  <2>5. w.build.verified /\ ~OnRecord(e.command)
    BY <1>2, <2>2, <2>3 DEF MayRecord
  <2>6. e.moved \in BOOLEAN
    BY <2>2
  <2>7. RecordedAs(e) /\ BringsIn(e)
    BY <2>2, <2>4, <2>5, <2>6 DEF RecordedAs, BringsIn
  <2> QED
    BY <2>5, <2>7, RecordingKeeps
<1> QED
  BY <1>1, <1>2

LEMMA CommitKeeps ==
  ASSUME PlayableInv, NEW p \in Processes, Commit(p)
  PROVE  PlayableInv'
<1>0. offer' = [offer EXCEPT ![p] = NoOffer]
  BY DEF Commit
<1>1. CASE Returned(p, 0, "rejected", FALSE, TRUE)
  BY <1>0, <1>1, ReturnedKeeps
<1>2. CASE /\ offer[p].at = "insert"
           /\ InsertVersion(p, BuildDigest(offer[p].build), offer[p].build, 0, "promoted",
                            offer[p].reproducible)
  <2>1. offer[p].build.verified
    BY <1>2 DEF PlayableInv, OffersKnown
  <2> QED
    BY <1>0, <1>2, <2>1, InsertionKeeps
<1>3. ASSUME NEW v, Returned(p, v, IF offer[p].at = "move" THEN "promoted" ELSE "unchanged",
                             offer[p].at = "move", offer[p].reproducible)
      PROVE  PlayableInv'
  <2>1. PICK outcome : outcome = IF offer[p].at = "move" THEN "promoted" ELSE "unchanged"
    OBVIOUS
  <2>2. (offer[p].at = "move") \in BOOLEAN
    OBVIOUS
  <2> QED
    BY <1>0, <1>3, <2>2, ReturnedKeeps
<1>4. CASE /\ offer[p].at = "restore"
           /\ LET t == offer[p].target
              IN  InsertVersion(p, offer[p].digest, versions[t].build,
                                IF versions[t].from = 0 THEN t ELSE versions[t].from,
                                "restored", TRUE)
  <2>1. versions[offer[p].target].build.verified
    BY <1>4 DEF PlayableInv, OffersKnown, PointerFollowsHistory
  <2> QED
    BY <1>0, <1>4, <2>1, InsertionKeeps
<1> QED
  BY <1>1, <1>2, <1>3, <1>4 DEF Commit

LEMMA PlayableStep == PlayableInv /\ [PVNext]_pvvars => PlayableInv'
<1> SUFFICES ASSUME PlayableInv, [PVNext]_pvvars PROVE PlayableInv'
  OBVIOUS
<1>1. ASSUME UNCHANGED <<versions, pointer, promotions, offer>>
      PROVE  PlayableInv'
  BY <1>1 DEF PlayableInv, PlayableTyped, OffersKnown, PointerFollowsHistory, Moves
<1>2. ASSUME NEW p \in Processes, NEW m \in Commands, NEW b \in Builds, Promote(p, m, b)
      PROVE  PlayableInv'
  BY <1>2, PromoteKeeps
<1>3. ASSUME NEW p \in Processes, NEW m \in Commands, NEW t \in DOMAIN versions,
             NEW branch \in Branches, Restore(p, m, t, branch)
      PROVE  PlayableInv'
  BY <1>3, RestoreKeeps
<1>4. ASSUME NEW p \in Processes, ReadSequence(p)
      PROVE  PlayableInv'
  BY <1>4, SequenceKeeps
<1>5. ASSUME NEW p \in Processes, Compare(p) \/ Commit(p)
      PROVE  PlayableInv'
  BY <1>5, CompareKeeps, CommitKeeps
<1>6. ASSUME NEW v, NEW n, NEW cost, NEW scope, RecordPlan(v, cost, scope) \/ AcceptPlan(n, cost, scope)
      PROVE  PlayableInv'
  BY <1>1, <1>6 DEF RecordPlan, AcceptPlan
<1>7. UNCHANGED pvvars => PlayableInv'
  BY <1>1 DEF pvvars
<1> QED
  BY <1>2, <1>3, <1>4, <1>5, <1>6, <1>7 DEF PVNext

\* The player is given what the record says: the pointer is where its last recorded
\* move took it, each version was verified and brought in by a recorded move, and a
\* repeated command is carried out once, for any processes, commands, builds and
\* branches (promote, restore).
THEOREM PlayableIsSound == PVSpec => []PointerFollowsHistory
<1>1. PlayableInv => PointerFollowsHistory
  BY DEF PlayableInv
<1> QED
  BY <1>1, PlayableStart, PlayableStep, PTL DEF PVSpec
=============================================================================
