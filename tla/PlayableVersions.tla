--------------------------- MODULE PlayableVersions ---------------------------
(* The versions of one game that a player may launch (playable_versions.py),   *)
(* and what people who played them asked for (game_feedback.py).               *)
(*                                                                             *)
(* Several processes offer builds and restore versions.  What a call reads     *)
(* before its transaction is kept in "offer"; a call that is killed there      *)
(* stays there for good.  A replayed command that is on record returns what    *)
(* was recorded and changes nothing, so it is no action.                       *)
EXTENDS Naturals, Sequences, FiniteSets

CONSTANTS
    Sources, Checksums, \* what candidate builds are made of and what they give
    Processes,  \* that call promote or restore
    Commands,   \* command ids people use
    Branches,   \* names of restore branches
    MaxPlans    \* bound of the model: plans recorded

VARIABLES
    versions,   \* playable_versions, by id
    pointer,    \* the row of playable_pointers
    promotions, \* playable_promotions, by id
    offer,      \* a call of promote or restore
    plans       \* game_feedback_plans of the recorded notes

pvvars == <<versions, pointer, promotions, offer, plans>>

\* CandidateBuild: identity, artifact and whether rejection finds nothing.
Builds == [source : Sources, checksum : Checksums, verified : BOOLEAN]

NoOffer == [at |-> "idle"]

PVInit ==
    /\ versions = <<>>
    /\ pointer = [version |-> 0, sequence |-> 0]    \* no row yet
    /\ promotions = <<>>
    /\ offer = [p \in Processes |-> NoOffer]
    /\ plans = <<>>

\* CandidateBuild.version_digest, and the digest of a restored version.
BuildDigest(b) == <<b.source, b.checksum>>
RestoreDigest(t, branch, sequence) == <<versions[t].digest, branch, sequence>>

OnRecord(m) == \E n \in DOMAIN promotions : promotions[n].command = m
IdOf(digest) == {v \in DOMAIN versions : versions[v].digest = digest}

-----------------------------------------------------------------------------
\* promote: the replay, the build's rejection and the current version.
Promote(p, m, b) ==
    /\ offer[p] = NoOffer /\ ~OnRecord(m)
    /\ offer' = [offer EXCEPT ![p] =
                   [at |-> IF b.verified THEN "compare" ELSE "reject", command |-> m,
                    build |-> b, previous |-> pointer.version]]
    /\ UNCHANGED <<versions, pointer, promotions, plans>>

\* _reproducible: builds of one source that were not restored have one checksum.
Reproducible(b) ==
    \A v \in DOMAIN versions :
        versions[v].from = 0 /\ versions[v].build.source = b.source =>
            versions[v].build.checksum = b.checksum

\* promote: whether the source built the same before, and whether the version is
\* on record, which is current or not by the earlier reading.
Compare(p) ==
    /\ offer[p].at = "compare"
    /\ LET known == IdOf(BuildDigest(offer[p].build))
           IN  offer' = [offer EXCEPT ![p] =
              [at |-> IF known = {} THEN "insert"
                      ELSE IF offer[p].previous \in known THEN "unchanged" ELSE "move",
               command |-> offer[p].command, build |-> offer[p].build,
               previous |-> offer[p].previous,
               reproducible |-> Reproducible(offer[p].build)]]
    /\ UNCHANGED <<versions, pointer, promotions, plans>>

\* restore: the replay, the target and the current version. A preview that was
\* shown names the same target and branch.
Restore(p, m, t, branch) ==
    /\ offer[p] = NoOffer /\ ~OnRecord(m)
    /\ t \in DOMAIN versions
    /\ offer' = [offer EXCEPT ![p] = [at |-> "sequence", command |-> m, target |-> t,
                                      branch |-> branch, previous |-> pointer.version]]
    /\ UNCHANGED <<versions, pointer, promotions, plans>>

\* The sequence that names the restored version is read before the first write.
ReadSequence(p) ==
    /\ offer[p].at = "sequence"
    /\ offer' = [offer EXCEPT ![p] =
                   [at |-> "restore", command |-> offer[p].command, target |-> offer[p].target,
                    previous |-> offer[p].previous,
                    digest |-> RestoreDigest(offer[p].target, offer[p].branch, pointer.sequence + 1)]]
    /\ UNCHANGED <<versions, pointer, promotions, plans>>

-----------------------------------------------------------------------------
Promotion(p, version, outcome, moved, reproducible) ==
    [command |-> offer[p].command, version |-> version, previous |-> offer[p].previous,
     outcome |-> outcome, moved |-> moved, reproducible |-> reproducible]

\* Mutant: a command may be recorded by each process that reads no record of it.
MayRecordTwice(p, digest) == IdOf(digest) = {}

\* UNIQUE(project_key, version_digest) and UNIQUE(project_key, command_id): what
\* breaks either is rolled back, with the pointer's move.
MayRecord(p, digest) == IdOf(digest) = {} /\ ~OnRecord(offer[p].command)

Records(p, version, outcome, moved, reproducible) ==
    /\ promotions' = Append(promotions, Promotion(p, version, outcome, moved, reproducible))
    /\ pointer' = IF moved THEN [version |-> version, sequence |-> pointer.sequence + 1] ELSE pointer

\* A new version, which the pointer moves to.
InsertVersion(p, digest, build, from, outcome, reproducible) ==
    IF ~MayRecord(p, digest) THEN UNCHANGED <<versions, pointer, promotions>>
    ELSE /\ versions' = Append(versions, [digest |-> digest, build |-> build, from |-> from])
         /\ Records(p, Len(versions) + 1, outcome, TRUE, reproducible)

\* What is on record, with the pointer where the call read it or moved back.
Returned(p, version, outcome, moved, reproducible) ==
    /\ UNCHANGED versions
    /\ IF OnRecord(offer[p].command) THEN UNCHANGED <<pointer, promotions>>
       ELSE Records(p, version, outcome, moved, reproducible)

\* The transaction of promote or of restore. A version restored from a restored
\* one names the original.
Commit(p) ==
    /\ \/ offer[p].at = "reject" /\ Returned(p, 0, "rejected", FALSE, TRUE)
       \/ /\ offer[p].at = "insert"
          /\ InsertVersion(p, BuildDigest(offer[p].build), offer[p].build, 0, "promoted",
                           offer[p].reproducible)
       \/ /\ offer[p].at \in {"unchanged", "move"}
          /\ \E v \in IdOf(BuildDigest(offer[p].build)) :
                Returned(p, v, IF offer[p].at = "move" THEN "promoted" ELSE "unchanged",
                         offer[p].at = "move", offer[p].reproducible)
       \/ /\ offer[p].at = "restore"
          /\ LET t == offer[p].target
             IN  InsertVersion(p, offer[p].digest, versions[t].build,
                               IF versions[t].from = 0 THEN t ELSE versions[t].from,
                               "restored", TRUE)
    /\ offer' = [offer EXCEPT ![p] = NoOffer]
    /\ UNCHANGED plans

-----------------------------------------------------------------------------
\* record and record_plan: a note about a version, and what would be changed.
RecordPlan(v, cost, scope) ==
    /\ v \in DOMAIN versions /\ Len(plans) < MaxPlans
    /\ plans' = Append(plans, [played |-> v, cost |-> cost, scope |-> scope, accepted |-> FALSE])
    /\ UNCHANGED <<versions, pointer, promotions, offer>>

\* accept_plan: each of what the plan adds is its own yes.
MayAccept(n, cost, scope) == (plans[n].cost => cost) /\ (plans[n].scope => scope)

\* game_feedback_plans_only_acceptance
OnlyAcceptance(n) == ~plans[n].accepted

\* feedback_accept judges the stored plan, not the request; the update of an
\* accepted plan is refused.
AcceptPlan(n, cost, scope) ==
    /\ MayAccept(n, cost, scope) /\ OnlyAcceptance(n)
    /\ plans' = [plans EXCEPT ![n].accepted = TRUE]
    /\ UNCHANGED <<versions, pointer, promotions, offer>>

PVNext ==
    \/ \E p \in Processes :
          \/ \E m \in Commands :
                \/ \E b \in Builds : Promote(p, m, b)
                \/ \E t \in DOMAIN versions, branch \in Branches : Restore(p, m, t, branch)
          \/ Compare(p) \/ ReadSequence(p) \/ Commit(p)
    \/ \E v \in DOMAIN versions, cost, scope \in BOOLEAN : RecordPlan(v, cost, scope)
    \/ \E n \in DOMAIN plans, cost, scope \in BOOLEAN : AcceptPlan(n, cost, scope)

PVSpec == PVInit /\ [][PVNext]_pvvars

-----------------------------------------------------------------------------
\* The promotions that moved the pointer.
Moves == {n \in DOMAIN promotions : promotions[n].moved}

\* The player is given what the record says, whoever raced: the pointer is where
\* its last recorded move took it, and has as many moves behind it as are recorded;
\* each version was brought in by a recorded move, and a command that several
\* processes repeat is carried out once.
PointerFollowsHistory ==
    /\ pointer.sequence = Cardinality(Moves)
    /\ \A n \in Moves : (\A k \in Moves : k <= n) => pointer.version = promotions[n].version
    /\ \A v \in DOMAIN versions :
          versions[v].build.verified /\ \E n \in Moves : promotions[n].version = v
    /\ \A n, k \in DOMAIN promotions : promotions[n].command = promotions[k].command => n = k
=============================================================================
