--------------------------- MODULE AuthorityProofs ---------------------------
(***************************************************************************)
(* Authority and its record, for any number of processes, revisions,       *)
(* policies, epochs and events: one authority is in force at a time, a     *)
(* stage runs as one agent, the log that tells of it is one chain, and     *)
(* what is approved was planned in full from the source of the moment and  *)
(* can be built as it stands.                                              *)
(***************************************************************************)
EXTENDS AutonomousAuthority, EventOutbox, MissionPlanning, ProposalVerifier, FiniteSetTheorems,
        WellFoundedInduction, TLAPS

(* The authority of an approved mission (autonomous_authorization.py).       *)

\* What an appended sequence holds.
LEMMA AppendProperties ==
    ASSUME NEW S, NEW s \in Seq(S), NEW e \in S
    PROVE  /\ Append(s, e) \in Seq(S)
           /\ Len(Append(s, e)) = Len(s) + 1
           /\ DOMAIN Append(s, e) = 1..(Len(s) + 1)
           /\ \A n \in DOMAIN s : Append(s, e)[n] = s[n]
           /\ Append(s, e)[Len(s) + 1] = e
  OBVIOUS

\* What a sequence with one replaced element holds.
LEMMA ExceptProperties ==
    ASSUME NEW S, NEW s \in Seq(S), NEW n \in DOMAIN s, NEW e \in S
    PROVE  /\ [s EXCEPT ![n] = e] \in Seq(S)
           /\ Len([s EXCEPT ![n] = e]) = Len(s)
           /\ DOMAIN [s EXCEPT ![n] = e] = DOMAIN s
  OBVIOUS

CarryStates == [pc : {"idle", "read", "resume"}] \cup [pc : {"commit"}, version : Nat]
StagerStates ==
    [pc : {"idle"}] \cup [pc : {"child"}, job : DOMAIN jobs]
        \cup [pc : {"decide", "assign"}, job : DOMAIN jobs, agent : StageAgents]
Revisions == [origin : {"human", "material"}, human : BOOLEAN]
GrantRows == [rev : Nat, epoch : Nat, version : Nat, revoked : BOOLEAN]

LEMMA AuthorityInit == AAInit => AuthorityInv
<1> SUFFICES ASSUME AAInit PROVE AuthorityInv
  OBVIOUS
<1> USE AuthorityAssumption DEF AAInit
<1>1. MissionTyped
  <2>1. revs \in Seq(Revisions) /\ DOMAIN revs = {1}
    BY DEF Revisions
  <2>2. bases \in Seq(Nat) /\ DOMAIN bases = {1}
    OBVIOUS
  <2>3. am \in [rev : {1}, epoch : {1}, phase : {"exec", "waiting"}, run : BOOLEAN]
    OBVIOUS
  <2>4. handoff \in [open : BOOLEAN, rev : Nat, from : Nat, epoch : Nat, grant : Nat]
    OBVIOUS
  <2> QED
    BY <2>1, <2>2, <2>3, <2>4 DEF MissionTyped, Revisions
<1>2. GrantsTyped
  <2>1. policy \in [version : Nat, stop : BOOLEAN]
    OBVIOUS
  <2>2. grants \in Seq(GrantRows)
    BY DEF GrantRows
  <2> QED
    BY <2>1, <2>2 DEF GrantsTyped, GrantRows
<1>3. CarryTyped
  BY DEF CarryTyped, NoStager
<1>4. StagesTyped
  BY DEF StagesTyped, NoStager
<1>5. GrantsSound
  BY DEF GrantsSound, Permitted, NoStager
<1>6. HandedOutAssigned
  BY DEF HandedOutAssigned
<1> QED
  BY <1>1, <1>2, <1>3, <1>4, <1>5, <1>6 DEF AuthorityInv, AATypeOK

\* Steps that write none of what the invariant relates, apart from the switches of
\* the mission, the handoff and the callers.
LEMMA MissionMoves ==
    ASSUME AuthorityInv,
           UNCHANGED <<revs, bases, policy, grants, jobs, stager, given>>,
           am' \in [rev : DOMAIN revs, epoch : DOMAIN bases, phase : {"exec", "waiting"}, run : BOOLEAN],
           handoff' \in [open : BOOLEAN, rev : Nat, from : Nat, epoch : Nat, grant : Nat],
           handoff'.epoch # 0 => handoff'.epoch = handoff.epoch /\ handoff'.rev = handoff.rev,
           carry' \in [Carriers -> CarryStates],
           \A c \in Carriers : carry'[c].pc = "commit" => carry'[c] = carry[c]
    PROVE  AuthorityInv'
<1> USE DEF AuthorityInv, AATypeOK
<1>1. MissionTyped'
  BY DEF MissionTyped
<1>2. GrantsTyped' /\ StagesTyped'
  BY DEF GrantsTyped, StagesTyped
<1>3. CarryTyped'
  BY DEF CarryTyped, CarryStates
<1>4. GrantsSound'
  BY DEF GrantsSound, Permitted
<1>5. HandedOutAssigned'
  BY DEF HandedOutAssigned
<1> QED
  BY <1>1, <1>2, <1>3, <1>4, <1>5

\* The caller is set to a state that is not about to commit a grant.
LEMMA CallerMoves ==
    ASSUME CarryTyped, NEW c \in Carriers, NEW s \in {"idle", "read", "resume"},
           carry' = [carry EXCEPT ![c] = [pc |-> s]]
    PROVE  /\ carry' \in [Carriers -> CarryStates] /\ CarryTyped'
           /\ \A d \in Carriers : carry'[d].pc = "commit" => carry'[d] = carry[d]
<1>1. carry' \in [Carriers -> CarryStates]
  BY DEF CarryTyped, CarryStates
<1> QED
  BY <1>1 DEF CarryTyped, CarryStates

LEMMA ControlMoves ==
    ASSUME AuthorityInv,
           \/ RouteMaterial \/ \E b \in BOOLEAN : Control(b)
           \/ BeginHandoff
           \/ \E c \in Carriers : CarryResume(c) \/ KillCarrier(c)
    PROVE  AuthorityInv'
<1>1. MissionTyped /\ CarryTyped
  BY DEF AuthorityInv, AATypeOK
<1>2. carry \in [Carriers -> CarryStates]
  BY <1>1 DEF CarryTyped, CarryStates
<1>3. CASE RouteMaterial
  BY <1>1, <1>2, <1>3, MissionMoves DEF RouteMaterial, MissionTyped
<1>4. ASSUME NEW b \in BOOLEAN, Control(b)
      PROVE  AuthorityInv'
  BY <1>1, <1>2, <1>4, MissionMoves DEF Control, MissionTyped
<1>5. CASE BeginHandoff
  <2>1. am' \in [rev : DOMAIN revs, epoch : DOMAIN bases, phase : {"exec", "waiting"}, run : BOOLEAN]
    BY <1>1, <1>5 DEF BeginHandoff, MissionTyped
  <2>2. /\ handoff' \in [open : BOOLEAN, rev : Nat, from : Nat, epoch : Nat, grant : Nat]
        /\ handoff'.epoch = 0
    BY <1>1, <1>5 DEF BeginHandoff, MissionTyped
  <2>3. UNCHANGED <<revs, bases, policy, grants, carry, jobs, stager, given>>
    BY <1>5 DEF BeginHandoff
  <2> QED
    BY <1>2, <2>1, <2>2, <2>3, MissionMoves
<1>6. ASSUME NEW c \in Carriers, CarryResume(c)
      PROVE  AuthorityInv'
  <2>1. am' \in [rev : DOMAIN revs, epoch : DOMAIN bases, phase : {"exec", "waiting"}, run : BOOLEAN]
    BY <1>1, <1>6 DEF CarryResume, MissionTyped
  <2>2. /\ handoff' \in [open : BOOLEAN, rev : Nat, from : Nat, epoch : Nat, grant : Nat]
        /\ handoff'.epoch = handoff.epoch /\ handoff'.rev = handoff.rev
    BY <1>1, <1>6 DEF CarryResume, MissionTyped
  <2>3. /\ UNCHANGED <<revs, bases, policy, grants, jobs, stager, given>>
        /\ carry' = [carry EXCEPT ![c] = [pc |-> "idle"]]
    BY <1>6 DEF CarryResume, CarryTo, NoStager
  <2> QED
    BY <1>1, <2>1, <2>2, <2>3, CallerMoves, MissionMoves
<1>7. ASSUME NEW c \in Carriers, KillCarrier(c)
      PROVE  AuthorityInv'
  <2>1. /\ UNCHANGED <<am, revs, bases, policy, grants, handoff, jobs, stager, given>>
        /\ carry' = [carry EXCEPT ![c] = [pc |-> "idle"]]
    BY <1>7 DEF KillCarrier, CarryTo, NoStager
  <2> QED
    BY <1>1, <2>1, CallerMoves, MissionMoves DEF MissionTyped
<1> QED
  BY <1>3, <1>4, <1>5, <1>6, <1>7

LEMMA PolicySwitches == ASSUME AuthorityInv, SwitchPolicy PROVE AuthorityInv'
<1>1. /\ policy' = [version |-> policy.version + 1, stop |-> ~policy.stop]
      /\ UNCHANGED <<am, revs, bases, grants, handoff, carry, jobs, stager, given>>
  BY DEF SwitchPolicy
<1>2. GrantsTyped
  BY DEF AuthorityInv, AATypeOK
<1>3. policy.version \in Nat /\ (~policy.stop) \in BOOLEAN
  BY <1>2 DEF GrantsTyped
<1>4. GrantsTyped'
  BY <1>1, <1>2, <1>3 DEF GrantsTyped
<1>5. \A v \in Nat : Permitted(v) => Permitted(v)'
  BY <1>1, <1>3 DEF Permitted
<1>6. \A g \in DOMAIN grants : grants[g].version \in Nat
  <2>1. grants \in Seq(GrantRows)
    BY <1>2 DEF GrantsTyped, GrantRows
  <2>2. \A g \in DOMAIN grants : grants[g] \in GrantRows
    BY <2>1
  <2> QED
    BY <2>2 DEF GrantRows
<1>7. \A c \in Carriers : carry[c].pc = "commit" => carry[c].version \in Nat
  BY DEF AuthorityInv, AATypeOK, CarryTyped
<1>8. GrantsSound'
  BY <1>1, <1>5, <1>6, <1>7 DEF AuthorityInv, GrantsSound
<1> QED
  BY <1>1, <1>4, <1>8
     DEF AuthorityInv, AATypeOK, MissionTyped, CarryTyped, StagesTyped, HandedOutAssigned

LEMMA Revokes == ASSUME AuthorityInv, NEW g \in DOMAIN grants, RevokeAuthority(g) PROVE AuthorityInv'
<1> DEFINE new == [grants[g] EXCEPT !.revoked = TRUE]
<1>1. /\ grants' = [grants EXCEPT ![g].revoked = TRUE]
      /\ UNCHANGED <<am, revs, bases, policy, handoff, carry, jobs, stager, given>>
  BY DEF RevokeAuthority
<1>2. grants \in Seq(GrantRows)
  BY DEF AuthorityInv, AATypeOK, GrantsTyped, GrantRows
<1>3. grants[g] \in GrantRows
  BY <1>2
<1>4. /\ new \in GrantRows /\ new.rev = grants[g].rev /\ new.epoch = grants[g].epoch
      /\ new.version = grants[g].version
  BY <1>3 DEF GrantRows
<1>5. grants' = [grants EXCEPT ![g] = new]
  BY <1>1
<1>6. grants' \in Seq(GrantRows) /\ DOMAIN grants' = DOMAIN grants
  BY <1>2, <1>4, <1>5, ExceptProperties
<1>7. \A h \in DOMAIN grants : grants'[h] = IF h = g THEN new ELSE grants[h]
  BY <1>2, <1>5
<1>8. \A h \in DOMAIN grants : /\ grants'[h].rev = grants[h].rev
                               /\ grants'[h].epoch = grants[h].epoch
                               /\ grants'[h].version = grants[h].version
  BY <1>4, <1>7
<1>9. GrantsSound'
  BY <1>1, <1>6, <1>8 DEF AuthorityInv, GrantsSound, Permitted
<1>10. GrantsTyped'
  BY <1>1, <1>6 DEF AuthorityInv, AATypeOK, GrantsTyped, GrantRows
<1> QED
  BY <1>1, <1>9, <1>10
     DEF AuthorityInv, AATypeOK, MissionTyped, CarryTyped, StagesTyped, HandedOutAssigned

LEMMA RevisionsCome == ASSUME AuthorityInv, ProposeMaterial \/ ApplyHuman PROVE AuthorityInv'
<1>1. MissionTyped /\ revs \in Seq(Revisions)
  BY DEF AuthorityInv, AATypeOK, MissionTyped, Revisions
<1>2. UNCHANGED <<bases, policy, grants, handoff, carry, jobs, stager, given>>
  BY DEF ProposeMaterial, ApplyHuman
<1>3. PICK r \in Revisions : revs' = Append(revs, r)
  BY DEF ProposeMaterial, ApplyHuman, Revisions
<1>4. /\ revs' \in Seq(Revisions)
      /\ DOMAIN revs' = 1..(Len(revs) + 1) /\ DOMAIN revs = 1..Len(revs) /\ Len(revs) \in Nat
      /\ Len(revs') = Len(revs) + 1
      /\ \A n \in DOMAIN revs : revs'[n] = revs[n]
  BY <1>1, <1>3, AppendProperties
<1>5. DOMAIN revs \subseteq DOMAIN revs' /\ Len(revs') \in DOMAIN revs'
  BY <1>4
<1>6. am' = am \/ am' = [am EXCEPT !.rev = Len(revs')]
  BY DEF ProposeMaterial, ApplyHuman
<1>7. am' \in [rev : DOMAIN revs', epoch : DOMAIN bases, phase : {"exec", "waiting"}, run : BOOLEAN]
  BY <1>1, <1>5, <1>6 DEF MissionTyped
<1>8. MissionTyped'
  BY <1>1, <1>2, <1>4, <1>7 DEF MissionTyped, Revisions
<1>9. GrantsSound'
  BY <1>2, <1>4, <1>5 DEF AuthorityInv, GrantsSound, Permitted
<1> QED
  BY <1>2, <1>8, <1>9
     DEF AuthorityInv, AATypeOK, GrantsTyped, CarryTyped, StagesTyped, HandedOutAssigned

LEMMA EpochsCome == ASSUME AuthorityInv, NEW c \in Carriers, CarryEpoch(c) PROVE AuthorityInv'
<1>1. MissionTyped /\ CarryTyped
  BY DEF AuthorityInv, AATypeOK
<1>2. /\ carry' = [carry EXCEPT ![c] = [pc |-> "read"]]
      /\ UNCHANGED <<revs, policy, grants, jobs, stager, given>>
  BY DEF CarryEpoch, CarryTo
<1>3. /\ CarryTyped'
      /\ \A d \in Carriers : carry'[d].pc = "commit" => carry'[d] = carry[d]
  BY <1>1, <1>2, CallerMoves
<1>4. MissionTyped' /\ GrantsSound'
  <2>1. CASE handoff.epoch # 0
    <3>1. UNCHANGED <<am, bases, handoff>>
      BY <2>1 DEF CarryEpoch
    <3> QED
      BY <1>1, <1>2, <1>3, <3>1 DEF AuthorityInv, MissionTyped, GrantsSound, Permitted
  <2>2. CASE handoff.epoch = 0
    <3>1. /\ bases' = Append(bases, am.rev) /\ am.rev = handoff.rev
          /\ am' = [am EXCEPT !.epoch = Len(bases')]
          /\ handoff' = [handoff EXCEPT !.epoch = Len(bases')]
      BY <2>2 DEF CarryEpoch
    <3>2. am.rev \in Nat /\ bases \in Seq(Nat)
      BY <1>1 DEF MissionTyped
    <3>3. /\ bases' \in Seq(Nat) /\ DOMAIN bases' = 1..(Len(bases) + 1) /\ Len(bases') = Len(bases) + 1
          /\ \A n \in DOMAIN bases : bases'[n] = bases[n]
          /\ bases'[Len(bases) + 1] = am.rev
          /\ DOMAIN bases = 1..Len(bases) /\ Len(bases) \in Nat
      BY <3>1, <3>2, AppendProperties
    <3>4. DOMAIN bases \subseteq DOMAIN bases' /\ Len(bases') \in DOMAIN bases' /\ Len(bases') \in Nat
      BY <3>3
    <3>5. am' \in [rev : DOMAIN revs, epoch : DOMAIN bases', phase : {"exec", "waiting"}, run : BOOLEAN]
      BY <1>1, <3>1, <3>4 DEF MissionTyped
    <3>6. /\ handoff' \in [open : BOOLEAN, rev : Nat, from : Nat, epoch : Nat, grant : Nat]
          /\ handoff'.epoch = Len(bases') /\ handoff'.rev = am.rev
      BY <1>1, <3>1, <3>4 DEF MissionTyped
    <3>7. MissionTyped'
      BY <1>1, <1>2, <3>3, <3>5, <3>6 DEF MissionTyped
    <3>8. GrantsSound'
      BY <1>2, <1>3, <3>3, <3>4, <3>6 DEF AuthorityInv, GrantsSound, Permitted
    <3> QED
      BY <3>7, <3>8
  <2> QED
    BY <2>1, <2>2
<1> QED
  BY <1>2, <1>3, <1>4 DEF AuthorityInv, AATypeOK, GrantsTyped, StagesTyped, HandedOutAssigned

LEMMA GrantsRead == ASSUME AuthorityInv, NEW c \in Carriers, GrantRead(c) PROVE AuthorityInv'
<1>1. UNCHANGED <<am, revs, bases, policy, grants, handoff, jobs, stager, given>>
  BY DEF GrantRead
<1>2. CarryTyped /\ MissionTyped /\ policy.version \in Nat
  BY DEF AuthorityInv, AATypeOK, GrantsTyped
<1>3. CASE \E s \in {"idle", "read", "resume"} : carry' = [carry EXCEPT ![c] = [pc |-> s]]
  BY <1>1, <1>2, <1>3, CallerMoves, MissionMoves DEF MissionTyped
<1>4. CASE ~policy.stop /\ carry' = [carry EXCEPT ![c] = [pc |-> "commit", version |-> policy.version]]
  <2>1. CarryTyped'
    BY <1>2, <1>4 DEF CarryTyped
  <2>2. \A d \in Carriers : carry'[d].pc = "commit" =>
            \/ carry'[d] = carry[d]
            \/ carry'[d].version = policy.version
    BY <1>2, <1>4 DEF CarryTyped
  <2>3. GrantsSound'
    BY <1>1, <1>2, <1>4, <2>2 DEF AuthorityInv, GrantsSound, Permitted
  <2> QED
    BY <1>1, <2>1, <2>3
       DEF AuthorityInv, AATypeOK, MissionTyped, GrantsTyped, StagesTyped, HandedOutAssigned
<1> QED
  BY <1>3, <1>4 DEF GrantRead, CarryTo, NoStager

LEMMA GrantsCommit == ASSUME AuthorityInv, NEW c \in Carriers, GrantCommit(c) PROVE AuthorityInv'
<1>1. UNCHANGED <<am, revs, bases, policy, jobs, stager, given>>
  BY DEF GrantCommit
<1>2. MissionTyped /\ GrantsTyped /\ CarryTyped
  BY DEF AuthorityInv, AATypeOK
<1>3. PICK s \in {"idle", "resume"} : carry' = [carry EXCEPT ![c] = [pc |-> s]]
  BY DEF GrantCommit, CarryTo, NoStager
<1>4. /\ CarryTyped' /\ carry' \in [Carriers -> CarryStates]
      /\ \A d \in Carriers : carry'[d].pc = "commit" => carry'[d] = carry[d]
  BY <1>2, <1>3, CallerMoves
<1>5. CASE UNCHANGED <<grants, handoff>>
  BY <1>1, <1>2, <1>4, <1>5, MissionMoves DEF MissionTyped
<1>6. CASE ~UNCHANGED <<grants, handoff>>
  <2> DEFINE new == [rev |-> am.rev, epoch |-> am.epoch,
                     version |-> carry[c].version, revoked |-> FALSE]
  <2>1. /\ carry[c].pc = "commit" /\ Grantable
        /\ policy.version = carry[c].version /\ Unique(carry[c].version)
        /\ grants' = Append(grants, new)
        /\ handoff' = [handoff EXCEPT !.grant = Len(grants')]
    BY <1>6 DEF GrantCommit
  <2>2. /\ am.epoch \in DOMAIN bases /\ am.epoch # 0 /\ am.rev \in DOMAIN revs
        /\ am.epoch \in Nat /\ am.rev \in Nat
    BY <1>2 DEF MissionTyped
  <2>3. new \in GrantRows
    BY <1>2, <2>1, <2>2 DEF GrantsTyped, GrantRows
  <2>4. grants \in Seq(GrantRows)
    BY <1>2 DEF GrantsTyped, GrantRows
  <2>5. /\ grants' \in Seq(GrantRows)
        /\ Len(grants') = Len(grants) + 1 /\ DOMAIN grants' = 1..(Len(grants) + 1)
        /\ DOMAIN grants = 1..Len(grants) /\ Len(grants) \in Nat
        /\ \A g \in DOMAIN grants : grants'[g] = grants[g]
        /\ grants'[Len(grants) + 1] = new
    BY <2>1, <2>3, <2>4, AppendProperties
  <2>6. /\ DOMAIN grants' = DOMAIN grants \cup {Len(grants) + 1} /\ Len(grants') \in Nat
    BY <2>5
  <2>7. /\ handoff' \in [open : BOOLEAN, rev : Nat, from : Nat, epoch : Nat, grant : Nat]
        /\ handoff'.epoch = handoff.epoch /\ handoff'.rev = handoff.rev
    BY <1>2, <2>1, <2>6 DEF MissionTyped
  <2>8. MissionTyped' /\ GrantsTyped'
    BY <1>1, <1>2, <2>5, <2>7 DEF MissionTyped, GrantsTyped, GrantRows
  <2>9. /\ new.rev \in DOMAIN revs /\ revs[new.rev].human
        /\ new.epoch \in DOMAIN bases /\ bases[new.epoch] = new.rev
        /\ Permitted(new.version)
    BY <2>1, <2>2 DEF AuthorityInv, Grantable, GrantsSound
  <2>10. \A g \in DOMAIN grants :
           ~(grants[g].rev = new.rev /\ grants[g].epoch = new.epoch /\ grants[g].version = new.version)
    BY <2>1 DEF Unique
  <2>11. \A g, h \in DOMAIN grants' :
            grants'[g].rev = grants'[h].rev /\ grants'[g].epoch = grants'[h].epoch
              /\ grants'[g].version = grants'[h].version => g = h
    BY <2>5, <2>6, <2>10 DEF AuthorityInv, GrantsSound
  <2>12. \A g \in DOMAIN grants' :
          /\ grants'[g].rev \in DOMAIN revs /\ revs[grants'[g].rev].human
          /\ grants'[g].epoch \in DOMAIN bases /\ bases[grants'[g].epoch] = grants'[g].rev
          /\ Permitted(grants'[g].version)
    BY <2>5, <2>6, <2>9 DEF AuthorityInv, GrantsSound
  <2>13. GrantsSound'
    BY <1>1, <1>4, <2>7, <2>11, <2>12 DEF AuthorityInv, GrantsSound, Permitted
  <2> QED
    BY <1>1, <1>4, <2>8, <2>13 DEF AuthorityInv, AATypeOK, StagesTyped, HandedOutAssigned
<1> QED
  BY <1>5, <1>6

\* The rows of jobs, and what their part of the invariant says of them.
JobRows == [grant : Nat, child : BOOLEAN, agent : StageAgents \cup {"none"}]

LEMMA JobsArePrepared == ASSUME AuthorityInv, PrepareJob PROVE AuthorityInv'
<1>1. PICK g \in DOMAIN grants :
         jobs' = Append(jobs, [grant |-> g, child |-> FALSE, agent |-> "none"])
  BY DEF PrepareJob, ForScope
<1>2. /\ given' = Append(given, {})
      /\ UNCHANGED <<am, revs, bases, policy, grants, handoff, carry, stager>>
  BY DEF PrepareJob
<1>3. /\ jobs \in Seq(JobRows) /\ given \in Seq(SUBSET StageAgents) /\ Len(given) = Len(jobs)
      /\ stager \in [Stagers -> StagerStates]
  BY DEF AuthorityInv, AATypeOK, StagesTyped, JobRows, StagerStates
<1>4. grants \in Seq(GrantRows)
  BY DEF AuthorityInv, AATypeOK, GrantsTyped, GrantRows
<1>5. [grant |-> g, child |-> FALSE, agent |-> "none"] \in JobRows
  BY <1>4 DEF JobRows
<1>6. /\ jobs' \in Seq(JobRows) /\ Len(jobs') = Len(jobs) + 1
      /\ DOMAIN jobs' = 1..(Len(jobs) + 1) /\ DOMAIN jobs = 1..Len(jobs) /\ Len(jobs) \in Nat
      /\ \A j \in DOMAIN jobs : jobs'[j] = jobs[j]
  BY <1>1, <1>3, <1>5, AppendProperties
<1>7. /\ given' \in Seq(SUBSET StageAgents) /\ Len(given') = Len(given) + 1
      /\ DOMAIN given' = 1..(Len(given) + 1) /\ DOMAIN given = 1..Len(given)
      /\ \A j \in DOMAIN given : given'[j] = given[j]
      /\ given'[Len(given) + 1] = {}
  BY <1>2, <1>3, AppendProperties
<1>8. DOMAIN jobs \subseteq DOMAIN jobs'
  BY <1>6
<1>9. stager' \in [Stagers -> StagerStates']
  <2>1. StagerStates \subseteq StagerStates'
    BY <1>8 DEF StagerStates
  <2> QED
    BY <1>2, <1>3, <2>1
<1>10. StagesTyped'
  BY <1>3, <1>6, <1>7, <1>9 DEF StagesTyped, JobRows, StagerStates
<1>11. HandedOutAssigned'
  <2> SUFFICES ASSUME NEW j \in DOMAIN given' PROVE given'[j] \subseteq {jobs'[j].agent}
    BY DEF HandedOutAssigned
  <2>1. CASE j \in DOMAIN given
    BY <1>3, <1>6, <1>7, <2>1 DEF AuthorityInv, HandedOutAssigned
  <2>2. CASE j = Len(given) + 1
    BY <1>7, <2>2
  <2> QED
    BY <1>3, <1>6, <1>7, <2>1, <2>2
<1> QED
  BY <1>2, <1>10, <1>11
     DEF AuthorityInv, AATypeOK, MissionTyped, GrantsTyped, CarryTyped, GrantsSound, Permitted

\* Steps of a worker that write nothing but its own state, or mark its job.
LEMMA WorkerMoves ==
    ASSUME AuthorityInv, NEW w \in Stagers, NEW s \in StagerStates,
           stager' = [stager EXCEPT ![w] = s],
           UNCHANGED <<am, revs, bases, policy, grants, handoff, carry, given>>,
           jobs' \in Seq(JobRows), Len(jobs') = Len(jobs),
           \A j \in DOMAIN jobs : jobs'[j].agent = jobs[j].agent
    PROVE  AuthorityInv'
<1>1. /\ jobs \in Seq(JobRows) /\ given \in Seq(SUBSET StageAgents) /\ Len(given) = Len(jobs)
      /\ stager \in [Stagers -> StagerStates]
  BY DEF AuthorityInv, AATypeOK, StagesTyped, JobRows, StagerStates
<1>2. DOMAIN jobs' = DOMAIN jobs /\ DOMAIN given = DOMAIN jobs
  BY <1>1
<1>3. StagerStates' = StagerStates
  BY <1>2 DEF StagerStates
<1>4. stager' \in [Stagers -> StagerStates']
  BY <1>1, <1>3
<1>5. StagesTyped'
  BY <1>1, <1>4 DEF StagesTyped, JobRows, StagerStates
<1>6. HandedOutAssigned'
  BY <1>2 DEF AuthorityInv, HandedOutAssigned
<1> QED
  BY <1>5, <1>6
     DEF AuthorityInv, AATypeOK, MissionTyped, GrantsTyped, CarryTyped, GrantsSound, Permitted

LEMMA JobsAreAuthorized ==
    ASSUME AuthorityInv, NEW w \in Stagers,
           RecordJob(w) \/ \E j \in DOMAIN jobs : DecideJob(w, j)
    PROVE  AuthorityInv'
<1>1. jobs \in Seq(JobRows) /\ stager \in [Stagers -> StagerStates]
  BY DEF AuthorityInv, AATypeOK, StagesTyped, JobRows, StagerStates
<1>2. ASSUME NEW j \in DOMAIN jobs, DecideJob(w, j)
      PROVE  AuthorityInv'
  <2>1. [pc |-> "child", job |-> j] \in StagerStates
    BY DEF StagerStates
  <2>2. /\ stager' = [stager EXCEPT ![w] = [pc |-> "child", job |-> j]]
        /\ UNCHANGED <<am, revs, bases, policy, grants, handoff, carry, jobs, given>>
    BY <1>2 DEF DecideJob, StageTo
  <2> QED
    BY <1>1, <2>1, <2>2, WorkerMoves
<1>3. CASE RecordJob(w)
  <2> DEFINE k == stager[w].job
             row == [jobs[k] EXCEPT !.child = TRUE]
  <2>1. /\ stager' = [stager EXCEPT ![w] = [pc |-> "idle"]] /\ stager[w].pc = "child"
        /\ jobs' = [jobs EXCEPT ![k].child = TRUE]
        /\ UNCHANGED <<am, revs, bases, policy, grants, handoff, carry, given>>
    BY <1>3 DEF RecordJob, StageTo, NoStager
  <2>2. stager[w] \in StagerStates /\ k \in DOMAIN jobs
    BY <1>1, <2>1 DEF StagerStates
  <2>3. jobs[k] \in JobRows
    BY <1>1, <2>2
  <2>4. row \in JobRows /\ row.agent = jobs[k].agent
    BY <2>3 DEF JobRows
  <2>5. jobs' = [jobs EXCEPT ![k] = row]
    BY <2>1
  <2>6. jobs' \in Seq(JobRows) /\ Len(jobs') = Len(jobs)
    BY <1>1, <2>2, <2>4, <2>5, ExceptProperties
  <2>7. \A j \in DOMAIN jobs : jobs'[j].agent = jobs[j].agent
    BY <1>1, <2>4, <2>5
  <2>8. [pc |-> "idle"] \in StagerStates
    BY DEF StagerStates
  <2> QED
    BY <2>1, <2>6, <2>7, <2>8, WorkerMoves
<1> QED
  BY <1>2, <1>3

LEMMA StagesAreDecided ==
    ASSUME AuthorityInv, NEW w \in Stagers,
           \/ DecideStage(w)
           \/ \E j \in DOMAIN jobs, a \in StageAgents : ViewStage(w, j, a)
    PROVE  AuthorityInv'
<1>1. jobs \in Seq(JobRows) /\ stager \in [Stagers -> StagerStates]
  BY DEF AuthorityInv, AATypeOK, StagesTyped, JobRows, StagerStates
<1>2. ASSUME NEW j \in DOMAIN jobs, NEW a \in StageAgents, ViewStage(w, j, a)
      PROVE  AuthorityInv'
  <2>1. [pc |-> "decide", job |-> j, agent |-> a] \in StagerStates
    BY DEF StagerStates
  <2>2. /\ stager' = [stager EXCEPT ![w] = [pc |-> "decide", job |-> j, agent |-> a]]
        /\ UNCHANGED <<am, revs, bases, policy, grants, handoff, carry, jobs, given>>
    BY <1>2 DEF ViewStage, StageTo
  <2> QED
    BY <1>1, <2>1, <2>2, WorkerMoves
<1>3. CASE DecideStage(w)
  <2> DEFINE go == [stager[w] EXCEPT !.pc = "assign"]
  <2>1. /\ \/ stager' = [stager EXCEPT ![w] = go]
           \/ stager' = [stager EXCEPT ![w] = [pc |-> "idle"]]
        /\ stager[w].pc = "decide"
        /\ UNCHANGED <<am, revs, bases, policy, grants, handoff, carry, jobs, given>>
    BY <1>3 DEF DecideStage, StageTo, NoStager
  <2>2. stager[w] \in [pc : {"decide", "assign"}, job : DOMAIN jobs, agent : StageAgents]
    BY <1>1, <2>1 DEF StagerStates
  <2>3. go \in StagerStates /\ [pc |-> "idle"] \in StagerStates
    BY <2>2 DEF StagerStates
  <2> QED
    BY <1>1, <2>1, <2>3, WorkerMoves
<1> QED
  BY <1>2, <1>3

LEMMA StagesAreAssigned == ASSUME AuthorityInv, NEW w \in Stagers, AssignStage(w) PROVE AuthorityInv'
<1> DEFINE o == stager[w]
<1>1. /\ jobs \in Seq(JobRows) /\ given \in Seq(SUBSET StageAgents) /\ Len(given) = Len(jobs)
      /\ stager \in [Stagers -> StagerStates]
  BY DEF AuthorityInv, AATypeOK, StagesTyped, JobRows, StagerStates
<1>2. /\ o.pc = "assign" /\ stager' = [stager EXCEPT ![w] = [pc |-> "idle"]]
      /\ UNCHANGED <<am, revs, bases, policy, grants, handoff, carry>>
  BY DEF AssignStage, StageTo, NoStager
<1>3. [pc |-> "idle"] \in StagerStates
  BY DEF StagerStates
<1>4. o.job \in DOMAIN jobs /\ o.agent \in StageAgents
  BY <1>1, <1>2 DEF StagerStates
<1>5. CASE ~Assignable(w)
  <2>1. UNCHANGED <<jobs, given>>
    BY <1>5 DEF AssignStage
  <2> QED
    BY <1>1, <1>2, <1>3, <2>1, WorkerMoves
<1>6. CASE Assignable(w)
  <2> DEFINE row == [jobs[o.job] EXCEPT !.agent = o.agent]
             new == given[o.job] \cup {o.agent}
  <2>1. /\ jobs' = [jobs EXCEPT ![o.job].agent = IF @ = "none" THEN o.agent ELSE @]
        /\ given' = [given EXCEPT ![o.job] = @ \cup {o.agent}]
        /\ jobs[o.job].agent \in {"none", o.agent}
    BY <1>6 DEF AssignStage, HandOut, Assignable
  <2>2. jobs[o.job] \in JobRows
    BY <1>1, <1>4
  <2>3. row \in JobRows /\ row.agent = o.agent
    BY <1>4, <2>2 DEF JobRows
  <2>4. jobs' = [jobs EXCEPT ![o.job] = row]
    BY <2>1, <2>2 DEF JobRows
  <2>5. jobs' \in Seq(JobRows) /\ Len(jobs') = Len(jobs) /\ DOMAIN jobs' = DOMAIN jobs
    BY <1>1, <1>4, <2>3, <2>4, ExceptProperties
  <2>6. given[o.job] \in SUBSET StageAgents /\ o.job \in DOMAIN given /\ DOMAIN given = DOMAIN jobs
    BY <1>1, <1>4
  <2>7. given' = [given EXCEPT ![o.job] = new] /\ new \in SUBSET StageAgents
    BY <1>4, <2>1, <2>6
  <2>8. /\ given' \in Seq(SUBSET StageAgents) /\ Len(given') = Len(given)
        /\ DOMAIN given' = DOMAIN given
    BY <1>1, <2>6, <2>7, ExceptProperties
  <2>9. StagerStates' = StagerStates
    BY <2>5 DEF StagerStates
  <2>10. StagesTyped'
    BY <1>1, <1>2, <1>3, <2>5, <2>8, <2>9 DEF StagesTyped, JobRows, StagerStates
  <2>11. given[o.job] \subseteq {o.agent}
    BY <1>4, <2>1, <2>6, AuthorityAssumption DEF AuthorityInv, HandedOutAssigned
  <2>12. HandedOutAssigned'
    BY <1>1, <2>3, <2>4, <2>6, <2>7, <2>8, <2>11 DEF AuthorityInv, HandedOutAssigned
  <2> QED
    BY <1>2, <2>10, <2>12
       DEF AuthorityInv, AATypeOK, MissionTyped, GrantsTyped, CarryTyped, GrantsSound, Permitted
<1> QED
  BY <1>5, <1>6

LEMMA AuthorityStep == AuthorityInv /\ [AANext]_aavars => AuthorityInv'
<1> SUFFICES ASSUME AuthorityInv, [AANext]_aavars PROVE AuthorityInv'
  OBVIOUS
<1>1. CASE UNCHANGED aavars
  BY <1>1 DEF aavars, AuthorityInv, AATypeOK, MissionTyped, GrantsTyped, CarryTyped, StagesTyped,
              GrantsSound, Permitted, HandedOutAssigned
<1>2. CASE SwitchPolicy
  BY <1>2, PolicySwitches
<1>3. CASE ProposeMaterial \/ ApplyHuman
  BY <1>3, RevisionsCome
<1>4. CASE RouteMaterial \/ BeginHandoff \/ \E b \in BOOLEAN : Control(b)
  BY <1>4, ControlMoves
<1>5. CASE \E g \in DOMAIN grants : RevokeAuthority(g)
  BY <1>5, Revokes
<1>6. ASSUME NEW c \in Carriers,
             CarryEpoch(c) \/ GrantRead(c) \/ GrantCommit(c) \/ CarryResume(c) \/ KillCarrier(c)
      PROVE  AuthorityInv'
  BY <1>6, EpochsCome, GrantsRead, GrantsCommit, ControlMoves
<1>7. CASE PrepareJob
  BY <1>7, JobsArePrepared
<1>8. ASSUME NEW w \in Stagers,
             \/ RecordJob(w) \/ DecideStage(w) \/ AssignStage(w)
             \/ \E j \in DOMAIN jobs :
                   DecideJob(w, j) \/ \E a \in StageAgents : ViewStage(w, j, a)
      PROVE  AuthorityInv'
  BY <1>8, JobsAreAuthorized, StagesAreDecided, StagesAreAssigned
<1> QED
  BY <1>1, <1>2, <1>3, <1>4, <1>5, <1>6, <1>7, <1>8 DEF AANext

LEMMA AuthorityHolds == AASpec => []AuthorityInv
  BY AuthorityInit, AuthorityStep, PTL DEF AASpec

\* The mission, its grants, the carriers and the stages keep their types
\* (autonomous_authorization.py).
THEOREM AuthorityTypeCorrect == AASpec => []AATypeOK
<1>1. AuthorityInv => AATypeOK
  BY DEF AuthorityInv
<1> QED
  BY <1>1, AuthorityHolds, PTL

\* At most one authority is in force, for an approved revision, its own epoch, and
\* never under an emergency stop (_resolve_execution, grant_execution_authority).
LEMMA AuthorityIsOne == AASpec => []OneAuthorityInForce
<1>1. AuthorityInv => OneAuthorityInForce
  BY DEF AuthorityInv, OneAuthorityInForce, Covers, GrantsSound, Permitted
<1> QED
  BY <1>1, AuthorityHolds, PTL

\* A stage is handed out to one agent only (authorize_stage, provider_authorization).
LEMMA StagesHaveOneAgent == AASpec => []OneAgentPerStage
<1>1. AuthorityInv => OneAgentPerStage
  BY DEF AuthorityInv, HandedOutAssigned, OneAgentPerStage
<1> QED
  BY <1>1, AuthorityHolds, PTL

\* Both together (grant_execution_authority, authorize_stage).
THEOREM AuthorityIsSound == AASpec => []AuthoritySound
<1>1. (OneAuthorityInForce /\ OneAgentPerStage) => AuthoritySound
  BY DEF AuthoritySound
<1> QED
  BY <1>1, AuthorityIsOne, StagesHaveOneAgent, PTL

(* The event log and its outbox (storage.py).                                *)

LEMMA OutboxInit == EOInit => OutboxInv
<1> SUFFICES ASSUME EOInit PROVE OutboxInv
  OBVIOUS
<1>1. PICK s \in Subjects : events = <<Legacy(s), Legacy(s)>>
  BY DEF EOInit
<1>2. Legacy(s) \in LegacyRows
  BY DEF LegacyRows
<1>3. events \in Seq(LegacyRows)
  BY <1>1, <1>2
<1> QED
  BY <1>3 DEF EOInit, OutboxInv

\* An envelope is one of the rows, whatever its subject is.
LEMMA EnvelopeIsOne ==
    ASSUME NEW s \in Subjects, NEW p \in Nat, NEW h \in Nat \ {0}
    PROVE  /\ Envelope(s, p, h) \in Envelopes
           /\ Envelope(s, p, h).previous = p /\ Envelope(s, p, h).hash = h
  BY DEF Envelopes, Envelope

LEMMA EnvelopeParts ==
    ASSUME NEW e \in Envelopes
    PROVE  /\ e.previous \in Nat /\ e.hash \in Nat \ {0} /\ e.about \in Subjects
           /\ e.task \in DOMAIN MissionOfTask => e.mission = MissionOfTask[e.task]
<1>1. PICK s \in Subjects, p \in Nat, h \in Nat \ {0} : e = Envelope(s, p, h)
  BY DEF Envelopes
<1> QED
  BY <1>1 DEF Envelope, Correlation

\* Rows an older version left are completed into a chain, and rows that have their
\* envelope stay as they are.
LEMMA Completion ==
    ASSUME events \in Seq(LegacyRows) \/ (events \in Seq(Envelopes) /\ Linked(events))
    PROVE  /\ Completed \in Seq(Envelopes) /\ Linked(Completed)
           /\ Len(Completed) = Len(events) /\ DOMAIN Completed = DOMAIN events
<1>1. DOMAIN events = 1..Len(events) /\ Len(events) \in Nat
  OBVIOUS
<1>2. /\ DOMAIN Completed = DOMAIN events /\ DOMAIN Completed = 1..Len(events)
      /\ \A n \in DOMAIN events :
            Completed[n] = IF events[n].hash # 0 THEN events[n]
                           ELSE Envelope(events[n].about, HashAt(n - 1), n)
  BY <1>1 DEF Completed
<1>3. CASE events \in Seq(LegacyRows)
  <2>1. \A n \in DOMAIN events : events[n].hash = 0 /\ events[n].about \in Subjects
    <3>1. \A n \in DOMAIN events : events[n] \in LegacyRows
      BY <1>3
    <3> QED
      BY <3>1 DEF LegacyRows, Legacy
  <2>2. \A n \in 0..Len(events) : HashAt(n) = n
    BY <1>1, <2>1 DEF HashAt
  <2>3. \A n \in DOMAIN events : /\ Completed[n] \in Envelopes
                                 /\ Completed[n].previous = n - 1 /\ Completed[n].hash = n
    <3> SUFFICES ASSUME NEW n \in DOMAIN events
                 PROVE  /\ Completed[n] \in Envelopes
                        /\ Completed[n].previous = n - 1 /\ Completed[n].hash = n
      OBVIOUS
    <3>1. n - 1 \in 0..Len(events) /\ n - 1 \in Nat /\ n \in Nat \ {0}
      BY <1>1
    <3>2. Completed[n] = Envelope(events[n].about, n - 1, n)
      BY <1>2, <2>1, <2>2, <3>1
    <3> QED
      BY <2>1, <3>1, <3>2, EnvelopeIsOne
  <2>4. Completed \in Seq(Envelopes) /\ Len(Completed) = Len(events)
    <3>1. Completed \in [1..Len(events) -> Envelopes]
      BY <1>1, <2>3 DEF Completed
    <3> QED
      BY <1>1, <3>1
  <2>5. Linked(Completed)
    <3> SUFFICES ASSUME NEW n \in 1..Len(events)
                 PROVE  Completed[n].previous = IF n = 1 THEN 0 ELSE Completed[n - 1].hash
      BY <2>4 DEF Linked
    <3>1. n \in DOMAIN events /\ (n # 1 => n - 1 \in DOMAIN events)
      BY <1>1
    <3> QED
      BY <2>3, <3>1
  <2> QED
    BY <1>2, <2>4, <2>5
<1>4. CASE events \in Seq(Envelopes) /\ Linked(events)
  <2>1. \A n \in DOMAIN events : events[n] \in Envelopes
    BY <1>4
  <2>2. \A n \in DOMAIN events : events[n].hash # 0
    BY <2>1, EnvelopeParts
  <2>3. \A n \in DOMAIN events : Completed[n] = events[n]
    BY <1>2, <2>2
  <2>4. Completed = events
    BY <1>2, <1>4, <2>3 DEF Completed
  <2> QED
    BY <1>4, <2>4
<1> QED
  BY <1>3, <1>4

LEMMA OutboxOpens == ASSUME OutboxInv, NEW p \in Processes, Open(p) PROVE OutboxInv'
<1>1. /\ lock = 0 /\ unit = <<>> /\ lock' = 0 /\ unit' = <<>> /\ claims' = claims
      /\ events' = Completed
      /\ outbox' = [n \in DOMAIN events |->
                      IF n \in DOMAIN outbox THEN outbox[n] ELSE NewMessage("delivered")]
  BY DEF Open, OutboxInv
<1>2. events \in Seq(LegacyRows) \/ (events \in Seq(Envelopes) /\ Linked(events))
  <2>1. events \in Seq(Envelopes) => events \o <<>> = events
    OBVIOUS
  <2> QED
    BY <1>1, <2>1 DEF OutboxInv
<1>3. /\ events' \in Seq(Envelopes) /\ Linked(events')
      /\ Len(events') = Len(events)
  BY <1>1, <1>2, Completion
<1>4. outbox' \in Seq(Messages) /\ Len(outbox') = Len(events)
  <2>1. NewMessage("delivered") \in Messages
    BY DEF NewMessage, Messages
  <2>2. \A n \in DOMAIN outbox : outbox[n] \in Messages
    BY DEF OutboxInv
  <2>3. DOMAIN events = 1..Len(events) /\ Len(events) \in Nat
    BY <1>2
  <2>4. outbox' \in [1..Len(events) -> Messages]
    BY <1>1, <2>1, <2>2, <2>3
  <2> QED
    BY <2>3, <2>4
<1>5. events' \o unit' = events' /\ unit' \in Seq(Envelopes)
  BY <1>1, <1>3
<1> QED
  BY <1>1, <1>3, <1>4, <1>5 DEF OutboxInv

\* Once somebody has the database open, or holds its lock, the rows have envelopes.
Chained ==
    /\ events \in Seq(Envelopes) /\ unit \in Seq(Envelopes)
    /\ Linked(events \o unit)
    /\ Len(outbox) = Len(events)

LEMMA AppendContinues ==
    ASSUME OutboxInv, NEW p \in Processes, NEW s \in Subjects, AppendEvent(p, s)
    PROVE  OutboxInv'
<1> DEFINE rows == events \o unit
           e == Envelope(s, SeenBy(p), Len(events) + Len(unit) + 1)
<1>1. /\ Chained /\ claims' = claims /\ events' = events /\ outbox' = outbox
      /\ unit' = Append(unit, e) /\ lock' = p /\ p # 0
  BY OutboxAssumption DEF AppendEvent, OutboxInv, Chained
<1>2. /\ rows \in Seq(Envelopes) /\ Len(rows) = Len(events) + Len(unit)
      /\ Len(rows) \in Nat /\ DOMAIN rows = 1..Len(rows)
  BY <1>1 DEF Chained
<1>3. /\ SeenBy(p) \in Nat
      /\ SeenBy(p) = IF Len(rows) = 0 THEN 0 ELSE rows[Len(rows)].hash
  <2>1. SeenBy(p) = IF Len(rows) = 0 THEN 0 ELSE rows[Len(rows)].hash
    BY <1>2 DEF SeenBy, HashOf
  <2>2. Len(rows) # 0 => rows[Len(rows)] \in Envelopes
    BY <1>2
  <2> QED
    BY <2>1, <2>2, EnvelopeParts
<1>4. e \in Envelopes /\ e.previous = SeenBy(p)
  <2>1. Len(events) + Len(unit) + 1 \in Nat \ {0}
    BY <1>1 DEF Chained
  <2> QED
    BY <1>3, <2>1, EnvelopeIsOne
<1>5. events' \o unit' = Append(rows, e) /\ unit' \in Seq(Envelopes)
  <2>1. events \in Seq(Envelopes) /\ unit \in Seq(Envelopes)
    BY <1>1 DEF Chained
  <2>2. events \o Append(unit, e) = Append(events \o unit, e)
    BY <1>4, <2>1
  <2> QED
    BY <1>1, <1>4, <2>1, <2>2
<1>6. Linked(Append(rows, e))
  <2>1. /\ Len(Append(rows, e)) = Len(rows) + 1
        /\ \A n \in 1..Len(rows) : Append(rows, e)[n] = rows[n]
        /\ Append(rows, e)[Len(rows) + 1] = e
    BY <1>2, <1>4, AppendProperties
  <2> SUFFICES ASSUME NEW n \in 1..(Len(rows) + 1)
               PROVE  Append(rows, e)[n].previous =
                         IF n = 1 THEN 0 ELSE Append(rows, e)[n - 1].hash
    BY <2>1 DEF Linked
  <2>2. CASE n \in 1..Len(rows)
    <3>1. rows[n].previous = IF n = 1 THEN 0 ELSE rows[n - 1].hash
      BY <1>1, <2>2 DEF Chained, Linked
    <3>2. n # 1 => n - 1 \in 1..Len(rows)
      BY <1>2, <2>2
    <3> QED
      BY <2>1, <2>2, <3>1, <3>2
  <2>3. CASE n = Len(rows) + 1
    <3>1. n # 1 => n - 1 \in 1..Len(rows) /\ n - 1 = Len(rows)
      BY <1>2, <2>3
    <3>2. n = 1 <=> Len(rows) = 0
      BY <1>2, <2>3
    <3> QED
      BY <1>3, <1>4, <2>1, <2>3, <3>1, <3>2
  <2> QED
    BY <1>2, <2>2, <2>3
<1>7. Linked(events' \o unit')
  BY <1>5, <1>6
<1> QED
  BY <1>1, <1>5, <1>7 DEF OutboxInv, Chained

\* What joined sequences hold.
LEMMA ConcatProperties ==
    ASSUME NEW S, NEW s \in Seq(S), NEW u \in Seq(S)
    PROVE  s \o u \in Seq(S) /\ Len(s \o u) = Len(s) + Len(u)
  OBVIOUS

LEMMA CommitKeeps == ASSUME OutboxInv, NEW p \in Processes, Commit(p) PROVE OutboxInv'
<1> DEFINE new == [n \in DOMAIN unit |-> NewMessage("pending")]
<1>1. /\ Chained /\ claims' = claims /\ events' = events \o unit /\ unit' = <<>> /\ lock' = 0
      /\ outbox' = outbox \o new /\ outbox \in Seq(Messages)
  BY OutboxAssumption DEF Commit, OutboxInv, Chained
<1>2. new \in Seq(Messages) /\ Len(new) = Len(unit)
  <2>1. DOMAIN unit = 1..Len(unit) /\ Len(unit) \in Nat
    BY <1>1 DEF Chained
  <2>2. new \in [1..Len(unit) -> Messages]
    BY <2>1 DEF NewMessage, Messages
  <2> QED
    BY <2>1, <2>2
<1>3. outbox' \in Seq(Messages) /\ Len(outbox') = Len(outbox) + Len(unit)
  <2>1. outbox \o new \in Seq(Messages) /\ Len(outbox \o new) = Len(outbox) + Len(new)
    BY <1>1, <1>2, ConcatProperties
  <2> QED
    BY <1>1, <1>2, <2>1
<1>4. /\ events' \in Seq(Envelopes) /\ Len(events') = Len(events) + Len(unit)
      /\ events' \o unit' = events' /\ unit' \in Seq(Envelopes)
  BY <1>1 DEF Chained
<1>5. Linked(events' \o unit')
  BY <1>1, <1>4 DEF Chained
<1> QED
  BY <1>1, <1>3, <1>4, <1>5 DEF OutboxInv, Chained

LEMMA RollbackKeeps == ASSUME OutboxInv, NEW p \in Processes, Rollback(p) PROVE OutboxInv'
<1>1. /\ Chained /\ claims' = claims /\ events' = events /\ unit' = <<>> /\ lock' = 0
      /\ outbox' = outbox
  BY OutboxAssumption DEF Rollback, OutboxInv, Chained
<1>2. unit' \in Seq(Envelopes) /\ events' \o unit' = events
  BY <1>1 DEF Chained
<1>3. Linked(events)
  <2>1. /\ Len(events \o unit) = Len(events) + Len(unit) /\ Len(events) \in Nat /\ Len(unit) \in Nat
        /\ \A n \in 1..Len(events) : (events \o unit)[n] = events[n]
    BY <1>1 DEF Chained
  <2> SUFFICES ASSUME NEW n \in 1..Len(events)
               PROVE  events[n].previous = IF n = 1 THEN 0 ELSE events[n - 1].hash
    BY DEF Linked
  <2>2. n \in 1..Len(events \o unit) /\ (n # 1 => n - 1 \in 1..Len(events))
    BY <2>1
  <2> QED
    BY <1>1, <2>1, <2>2 DEF Chained, Linked
<1> QED
  BY <1>1, <1>2, <1>3 DEF OutboxInv, Chained

\* A message is written over by another one.
LEMMA MessagesMove ==
    ASSUME OutboxInv, NEW m \in DOMAIN outbox, NEW row \in Messages,
           outbox' = [outbox EXCEPT ![m] = row],
           claims' \in Nat, UNCHANGED <<events, lock, unit, opened>>
    PROVE  OutboxInv'
<1>1. outbox' \in Seq(Messages) /\ Len(outbox') = Len(outbox) /\ outbox # <<>>
  BY ExceptProperties DEF OutboxInv
<1> QED
  BY <1>1 DEF OutboxInv

LEMMA ConsumersMove ==
    ASSUME OutboxInv, NEW m \in DOMAIN outbox,
           \/ RetryDue(m)
           \/ \E c \in Consumers : ClaimMessage(c, m) \/ Acknowledge(c, m) \/ FailMessage(c, m)
    PROVE  OutboxInv'
<1>1. outbox \in Seq(Messages) /\ outbox[m] \in Messages /\ claims \in Nat
  BY DEF OutboxInv
<1>2. CASE RetryDue(m)
  <2> DEFINE row == [outbox[m] EXCEPT !.ready = TRUE]
  <2>1. outbox' = [outbox EXCEPT ![m] = row] /\ UNCHANGED <<events, lock, unit, opened, claims>>
    BY <1>2 DEF RetryDue
  <2>2. row \in Messages
    BY <1>1 DEF Messages
  <2> QED
    BY <1>1, <2>1, <2>2, MessagesMove
<1>3. ASSUME NEW c \in Consumers, ClaimMessage(c, m)
      PROVE  OutboxInv'
  <2> DEFINE row == [status |-> "dispatching", token |-> claims + 1, ready |-> TRUE]
  <2>1. /\ outbox' = [outbox EXCEPT ![m] = row] /\ UNCHANGED <<events, lock, unit, opened>>
        /\ claims' = claims + 1
    BY <1>3 DEF ClaimMessage
  <2>2. row \in Messages /\ claims' \in Nat
    BY <1>1, <2>1 DEF Messages
  <2> QED
    BY <2>1, <2>2, MessagesMove
<1>4. ASSUME NEW c \in Consumers, Acknowledge(c, m)
      PROVE  OutboxInv'
  <2> DEFINE row == [outbox[m] EXCEPT !.status = "delivered"]
  <2>1. outbox' = [outbox EXCEPT ![m] = row] /\ UNCHANGED <<events, lock, unit, opened, claims>>
    BY <1>4 DEF Acknowledge
  <2>2. row \in Messages
    BY <1>1 DEF Messages
  <2> QED
    BY <1>1, <2>1, <2>2, MessagesMove
<1>5. ASSUME NEW c \in Consumers, FailMessage(c, m)
      PROVE  OutboxInv'
  <2>1. PICK now \in BOOLEAN :
           outbox' = [outbox EXCEPT ![m] = [status |-> "failed", token |-> 0, ready |-> now]]
    BY <1>5 DEF FailMessage
  <2>2. [status |-> "failed", token |-> 0, ready |-> now] \in Messages
    BY DEF Messages
  <2>3. UNCHANGED <<events, lock, unit, opened, claims>>
    BY <1>5 DEF FailMessage
  <2> QED
    BY <1>1, <2>1, <2>2, <2>3, MessagesMove
<1> QED
  BY <1>2, <1>3, <1>4, <1>5

LEMMA OutboxStep == OutboxInv /\ [EONext]_eovars => OutboxInv'
<1> SUFFICES ASSUME OutboxInv, [EONext]_eovars PROVE OutboxInv'
  OBVIOUS
<1>1. CASE UNCHANGED eovars \/ \E c \in Consumers : KillConsumer(c)
  BY <1>1 DEF eovars, KillConsumer, OutboxInv
<1>2. ASSUME NEW p \in Processes,
             Open(p) \/ Commit(p) \/ Rollback(p) \/ \E s \in Subjects : AppendEvent(p, s)
      PROVE  OutboxInv'
  BY <1>2, OutboxOpens, CommitKeeps, RollbackKeeps, AppendContinues
<1>3. ASSUME NEW m \in DOMAIN outbox,
             \/ RetryDue(m)
             \/ \E c \in Consumers : ClaimMessage(c, m) \/ Acknowledge(c, m) \/ FailMessage(c, m)
      PROVE  OutboxInv'
  BY <1>3, ConsumersMove
<1> QED
  BY <1>1, <1>2, <1>3 DEF EONext

\* verify_audit_chain has nothing to report of an opened database: the log is one
\* chain, each record has its message, and names the mission of its work item.
THEOREM ChainStaysUnbroken == EOSpec => []ChainUnbroken
<1>1. OutboxInv => ChainUnbroken
  <2> SUFFICES ASSUME OutboxInv, opened # {}
               PROVE  /\ DOMAIN outbox = DOMAIN events
                      /\ \A n \in DOMAIN events :
                            /\ events[n].hash # 0
                            /\ events[n].previous = IF n = 1 THEN 0 ELSE events[n - 1].hash
                            /\ events[n].task \in DOMAIN MissionOfTask =>
                                  events[n].mission = MissionOfTask[events[n].task]
    BY DEF ChainUnbroken
  <2>1. Chained /\ outbox \in Seq(Messages)
    BY DEF OutboxInv, Chained
  <2>2. DOMAIN events = 1..Len(events) /\ DOMAIN outbox = 1..Len(outbox) /\ Len(events) \in Nat
    BY <2>1 DEF Chained
  <2>3. DOMAIN outbox = DOMAIN events
    BY <2>1, <2>2 DEF Chained
  <2> SUFFICES ASSUME NEW n \in DOMAIN events
               PROVE  /\ events[n].hash # 0
                      /\ events[n].previous = IF n = 1 THEN 0 ELSE events[n - 1].hash
                      /\ events[n].task \in DOMAIN MissionOfTask =>
                            events[n].mission = MissionOfTask[events[n].task]
    BY <2>3
  <2>4. /\ Len(events \o unit) = Len(events) + Len(unit) /\ Len(unit) \in Nat
        /\ \A k \in 1..Len(events) : (events \o unit)[k] = events[k]
    BY <2>1 DEF Chained
  <2>5. n \in 1..Len(events \o unit) /\ (n # 1 => n - 1 \in 1..Len(events)) /\ n \in 1..Len(events)
    BY <2>2, <2>4
  <2>6. events[n].previous = IF n = 1 THEN 0 ELSE events[n - 1].hash
    BY <2>1, <2>4, <2>5 DEF Chained, Linked
  <2>7. events[n] \in Envelopes
    BY <2>1 DEF Chained
  <2> QED
    BY <2>6, <2>7, EnvelopeParts
<1> QED
  BY <1>1, OutboxInit, OutboxStep, PTL DEF EOSpec

------------------------------------------------------------------------------
(* From a specification to an approved backlog (the planning pipeline, the   *)
(* verification of its proposal and the approval).                           *)

Ended == {"completing", "failing", "owner"}
RunRows == [source : Nat, started : BOOLEAN, revision : Nat,
            authority : {"none", "open", "expired"} \cup Ended,
            bound : BOOLEAN, completed : BOOLEAN, failed : BOOLEAN]
ProposalRows == [run : PipelineRuns \cup {"none"}, source : Nat, invalid : BOOLEAN]
ReportRows == [run : PipelineRuns, revision : Nat, ready : BOOLEAN, result : Nat]
DecisionStates == [pc : {"idle"}] \cup
    [pc : {"verify"}, run : PipelineRuns, version : Nat, ready : BOOLEAN] \cup
    [pc : {"approve"}, report : Nat]

PlanRows == [version : Nat, phase : {"analysis", "generation", "waiting", "approved"},
             disposition : {"RUNNING", "STOPPED"}, approved : Nat]
PlanTyped ==
    /\ plan \in PlanRows
    /\ content \in Seq({1, 2}) /\ content # <<>>
RowsTyped ==
    /\ run \in [PipelineRuns -> RunRows]
    /\ tries \in [PipelineRuns -> [RoleSet -> Seq(BOOLEAN)]]
    /\ proposals \in Seq(ProposalRows) /\ reports \in Seq(ReportRows)
CallsTyped ==
    /\ executor = [x \in Executors |-> executor[x]]
    /\ decision \in [Deciders -> DecisionStates]
PlanningTyped == PlanTyped /\ RowsTyped /\ CallsTyped

\* A run that ended has no authority left; one that completed has every role's
\* artifact and its own revision.
RunKnown(r) ==
    /\ run[r].revision # 0 =>
          run[r].revision \in DOMAIN proposals /\ proposals[run[r].revision].run = r
    /\ run[r].source = 0 => run[r].authority = "none" /\ run[r].revision = 0
    /\ run[r].bound => run[r].revision # 0
    /\ ~(run[r].completed /\ run[r].failed)
    /\ run[r].completed \/ run[r].failed => Closed(r)
    /\ run[r].completed => Artifacts(r) = RoleSet /\ run[r].bound

\* An execution that is past its roles, or gave up, closed the authority before.
Late == {"proposing", "binding", "finishing", "closed"}
Points == {"role", "asked", "invoking", "failing"} \cup Late
ExecutorKnown(x) ==
    LET e == executor[x] IN
    e = Resting \/
      /\ e \in [pc : Points, run : PipelineRuns, have : {e.have}, try : {e.try}]
      /\ run[e.run].source # 0
      /\ e.pc \in Late => Closed(e.run)
      /\ e.pc \in {"binding", "finishing"} => run[e.run].revision # 0

DecisionKnown(c) ==
    /\ decision[c].pc = "verify" => run[decision[c].run].completed
    /\ decision[c].pc = "approve" => decision[c].report \in DOMAIN reports

ReportKnown(v) ==
    run[reports[v].run].completed /\ reports[v].revision = run[reports[v].run].revision

\* What was approved is out of the specification's reach.
ApprovalKnown ==
    plan.approved # 0 =>
        /\ plan.phase = "approved" /\ plan.approved \in DOMAIN reports
        /\ reports[plan.approved].ready /\ ~Stale(reports[plan.approved].run)
        /\ ~proposals[reports[plan.approved].revision].invalid

PlanningInv ==
    /\ PlanningTyped /\ ApprovalKnown
    /\ \A r \in PipelineRuns : RunKnown(r)
    /\ \A x \in Executors : ExecutorKnown(x)
    /\ \A c \in Deciders : DecisionKnown(c)
    /\ \A v \in DOMAIN reports : ReportKnown(v)

LEMMA PlanningInit == PInit => PlanningInv
<1> SUFFICES ASSUME PInit PROVE PlanningInv
  OBVIOUS
<1> USE DEF PInit
<1>1. PlanTyped
  BY DEF PlanTyped, PlanRows
<1>2. RowsTyped
  <2>1. run \in [PipelineRuns -> RunRows]
    BY DEF RunRows
  <2>2. tries \in [PipelineRuns -> [RoleSet -> Seq(BOOLEAN)]]
    OBVIOUS
  <2> QED
    BY <2>1, <2>2 DEF RowsTyped
<1>3. CallsTyped
  BY DEF CallsTyped, DecisionStates, Resting
<1>4. \A r \in PipelineRuns : RunKnown(r)
  BY DEF RunKnown
<1>5. /\ \A x \in Executors : ExecutorKnown(x)
      /\ \A c \in Deciders : DecisionKnown(c)
      /\ ApprovalKnown /\ \A v \in DOMAIN reports : ReportKnown(v)
  BY DEF ExecutorKnown, DecisionKnown, ApprovalKnown, Resting
<1> QED
  BY <1>1, <1>2, <1>3, <1>4, <1>5 DEF PlanningInv, PlanningTyped

\* What no step takes back.
RunsGoOn ==
    \A r \in PipelineRuns :
        /\ run[r].source # 0 => run'[r].source = run[r].source
        /\ run[r].revision # 0 => run'[r].revision = run[r].revision
        /\ Closed(r) => Closed(r)'
        /\ run[r].completed => run'[r].completed
        /\ Artifacts(r) = RoleSet => Artifacts(r)' = RoleSet
RowsStay ==
    /\ \A i \in DOMAIN proposals :
          i \in DOMAIN proposals' /\ proposals'[i].run = proposals[i].run
    /\ \A v \in DOMAIN reports : v \in DOMAIN reports' /\ reports'[v] = reports[v]
    /\ plan.phase = "approved" =>
          /\ plan'.phase = "approved" /\ content' = content
          /\ \A i \in DOMAIN proposals : proposals'[i].invalid = proposals[i].invalid

\* A step that goes on keeps what it leaves alone.
LEMMA RestIsKept ==
    ASSUME PlanningInv, PlanningTyped', RunsGoOn, RowsStay,
           plan'.approved = plan.approved \/ ApprovalKnown',
           \A r \in PipelineRuns : run'[r] = run[r] \/ RunKnown(r)',
           \A x \in Executors : executor'[x] = executor[x] \/ ExecutorKnown(x)',
           \A c \in Deciders : decision'[c] = decision[c] \/ DecisionKnown(c)',
           \A v \in DOMAIN reports' : v \in DOMAIN reports \/ ReportKnown(v)'
    PROVE  PlanningInv'
<1>1. \A r \in PipelineRuns : RunKnown(r)'
  BY DEF PlanningInv, RunsGoOn, RowsStay, RunKnown
<1>2. ASSUME NEW x \in Executors PROVE ExecutorKnown(x)'
  BY <1>2 DEF PlanningInv, RunsGoOn, ExecutorKnown
<1>3. ASSUME NEW c \in Deciders PROVE DecisionKnown(c)'
  <2>1. decision[c].pc = "verify" => decision[c].run \in PipelineRuns
    BY <1>3 DEF PlanningInv, PlanningTyped, CallsTyped, DecisionStates
  <2> QED
    BY <1>3, <2>1 DEF PlanningInv, RunsGoOn, RowsStay, DecisionKnown
<1>t. \A v \in DOMAIN reports : reports[v].run \in PipelineRuns
  <2>1. reports \in Seq(ReportRows)
    BY DEF PlanningInv, PlanningTyped, RowsTyped
  <2>2. \A v \in DOMAIN reports : reports[v] \in ReportRows
    BY <2>1
  <2> QED
    BY <2>2 DEF ReportRows
<1>c. \A r \in PipelineRuns : run[r].completed => run[r].source # 0 /\ run[r].revision # 0
  BY DEF PlanningInv, RunKnown, Closed
<1>4. ASSUME NEW v \in DOMAIN reports' PROVE ReportKnown(v)'
  BY <1>4, <1>t, <1>c DEF PlanningInv, RunsGoOn, RowsStay, ReportKnown
<1>5. ApprovalKnown'
  <2> SUFFICES ASSUME plan.approved # 0, plan'.approved = plan.approved PROVE ApprovalKnown'
    BY DEF ApprovalKnown
  <2> DEFINE v == plan.approved
  <2>1. /\ v \in DOMAIN reports /\ plan.phase = "approved" /\ reports[v].ready
        /\ run[reports[v].run].source = Len(content)
        /\ ~proposals[reports[v].revision].invalid
    BY DEF PlanningInv, ApprovalKnown, Stale, CurrentSource
  <2>2. /\ reports[v].run \in PipelineRuns /\ run[reports[v].run].completed
        /\ reports[v].revision = run[reports[v].run].revision
    BY <1>t, <2>1 DEF PlanningInv, ReportKnown
  <2>3. reports[v].revision \in DOMAIN proposals /\ run[reports[v].run].source # 0
    BY <1>c, <2>2 DEF PlanningInv, RunKnown
  <2> QED
    BY <2>1, <2>2, <2>3 DEF ApprovalKnown, Stale, CurrentSource, RunsGoOn, RowsStay
<1> QED
  BY <1>1, <1>2, <1>3, <1>4, <1>5 DEF PlanningInv

\* A step that leaves the runs' rows and the tables alone.
LEMMA TablesStay ==
    UNCHANGED <<run, tries, proposals, reports>> => RunsGoOn /\ (RowsTyped => RowsTyped')
  BY DEF RunsGoOn, RowsTyped, Closed, Artifacts

LEMMA RowsUnchanged ==
    UNCHANGED <<plan, content, proposals, reports>> => RowsStay /\ (PlanTyped => PlanTyped')
  BY DEF RowsStay, PlanTyped

-----------------------------------------------------------------------------
\* An execution that only moves: it rests, or goes on with its run.
LEMMA ExecutionMoves ==
    ASSUME PlanningInv, NEW x \in Executors, NEW e, Goes(x, e),
           UNCHANGED <<plan, content, run, tries, proposals, reports, decision>>,
           ExecutorKnown(x)'
    PROVE  PlanningInv'
<1>1. /\ executor' = [y \in Executors |-> executor'[y]]
      /\ \A y \in Executors : executor'[y] = executor[y] \/ ExecutorKnown(y)'
  <2>1. executor' = [executor EXCEPT ![x] = e] /\ executor = [y \in Executors |-> executor[y]]
    BY DEF Goes, PlanningInv, PlanningTyped, CallsTyped
  <2> QED
    BY <2>1
<1>2. CallsTyped'
  BY <1>1 DEF PlanningInv, PlanningTyped, CallsTyped
<1>3. PlanningTyped' /\ RunsGoOn /\ RowsStay
  BY <1>2, TablesStay, RowsUnchanged DEF PlanningInv, PlanningTyped
<1> QED
  BY <1>1, <1>3, RestIsKept

\* What an execution becomes.
LEMMA ExecutionBecomes ==
    ASSUME PlanningInv, NEW x \in Executors, NEW e, Goes(x, e)
    PROVE  executor'[x] = e /\ executor' = [y \in Executors |-> IF y = x THEN e ELSE executor[y]]
<1>1. executor' = [executor EXCEPT ![x] = e] /\ executor = [y \in Executors |-> executor[y]]
  BY DEF Goes, PlanningInv, PlanningTyped, CallsTyped
<1> QED
  BY <1>1
LEMMA RunMoves ==
    ASSUME PlanningInv, NEW r \in PipelineRuns, NEW new \in RunRows, run' = [run EXCEPT ![r] = new],
           UNCHANGED tries,
           run[r].source # 0 => new.source = run[r].source,
           run[r].revision # 0 => new.revision = run[r].revision,
           Closed(r) => new.authority \in Ended,
           run[r].completed => new.completed
    PROVE  /\ run' \in [PipelineRuns -> RunRows] /\ run'[r] = new
           /\ RunsGoOn /\ \A q \in PipelineRuns : q = r \/ run'[q] = run[q]
<1>1. run \in [PipelineRuns -> RunRows]
  BY DEF PlanningInv, PlanningTyped, RowsTyped
<1>2. /\ run' \in [PipelineRuns -> RunRows] /\ run'[r] = new
      /\ \A q \in PipelineRuns : q = r \/ run'[q] = run[q]
  BY <1>1
<1> QED
  BY <1>2 DEF RunsGoOn, Closed, Ended, Artifacts

\* A call without an execution that changes a run, and nothing else.
LEMMA OneRunMoves ==
    ASSUME PlanningInv, NEW r \in PipelineRuns, NEW new \in RunRows, run' = [run EXCEPT ![r] = new],
           UNCHANGED <<plan, content, tries, proposals, reports, executor, decision>>,
           run[r].source # 0 => new.source = run[r].source,
           run[r].revision # 0 => new.revision = run[r].revision,
           Closed(r) => new.authority \in Ended,
           run[r].completed => new.completed,
           RunKnown(r)'
    PROVE  PlanningInv'
<1>1. /\ run' \in [PipelineRuns -> RunRows]
      /\ RunsGoOn /\ \A q \in PipelineRuns : q = r \/ run'[q] = run[q]
  BY RunMoves
<1>2. PlanningTyped'
  BY <1>1 DEF PlanningInv, PlanningTyped, PlanTyped, RowsTyped, CallsTyped
<1> QED
  BY <1>1, <1>2, RestIsKept, RowsUnchanged

\* One that an execution makes, which goes on after it.
LEMMA ExecutionMovesRun ==
    ASSUME PlanningInv, NEW r \in PipelineRuns, NEW new \in RunRows, run' = [run EXCEPT ![r] = new],
           NEW x \in Executors, NEW e, Goes(x, e),
           UNCHANGED <<plan, content, tries, proposals, reports, decision>>,
           run[r].source # 0 => new.source = run[r].source,
           run[r].revision # 0 => new.revision = run[r].revision,
           Closed(r) => new.authority \in Ended,
           run[r].completed => new.completed,
           RunKnown(r)', ExecutorKnown(x)'
    PROVE  PlanningInv'
<1>1. /\ run' \in [PipelineRuns -> RunRows]
      /\ RunsGoOn /\ \A q \in PipelineRuns : q = r \/ run'[q] = run[q]
  BY RunMoves
<1>2. executor' = [y \in Executors |-> IF y = x THEN e ELSE executor[y]]
  BY ExecutionBecomes
<1>3. \A y \in Executors : executor'[y] = executor[y] \/ ExecutorKnown(y)'
  BY <1>2
<1>4. executor' = [y \in Executors |-> executor'[y]]
  BY <1>2
<1>5. PlanningTyped'
  BY <1>1, <1>4 DEF PlanningInv, PlanningTyped, PlanTyped, RowsTyped, CallsTyped
<1> QED
  BY <1>1, <1>3, <1>5, RestIsKept, RowsUnchanged

LEMMA RunIsTyped == ASSUME PlanningInv, NEW r \in PipelineRuns PROVE run[r] \in RunRows /\ RunKnown(r)
  BY DEF PlanningInv, PlanningTyped, RowsTyped

LEMMA PrepareKeeps == ASSUME PlanningInv, NEW r \in PipelineRuns, PrepareRun(r) PROVE PlanningInv'
<1> DEFINE new == [run[r] EXCEPT !.source = CurrentSource, !.authority = "open"]
<1>1. /\ run[r] \in RunRows /\ RunKnown(r) /\ run[r].source = 0
  BY RunIsTyped DEF PrepareRun
<1>2. run[r].authority = "none" /\ run[r].revision = 0 /\ ~run[r].completed /\ ~run[r].failed
      /\ ~Closed(r) /\ ~run[r].bound
  BY <1>1 DEF RunKnown, Closed
<1>3. CurrentSource \in Nat \ {0}
  BY DEF CurrentSource, PlanningInv, PlanningTyped, PlanTyped
<1>4. /\ new \in RunRows /\ new.source # 0 /\ new.revision = 0
      /\ ~new.completed /\ ~new.failed /\ ~new.bound
  BY <1>1, <1>2, <1>3 DEF RunRows
<1>5. /\ run' = [run EXCEPT ![r] = new]
      /\ UNCHANGED <<plan, content, tries, proposals, reports, executor, decision>>
  BY DEF PrepareRun
<1> HIDE DEF new
<1>6. run'[r] = new
  BY <1>4, <1>5 DEF PlanningInv, PlanningTyped, RowsTyped
<1>7. RunKnown(r)'
  BY <1>4, <1>6 DEF RunKnown
<1> QED
  BY <1>1, <1>2, <1>4, <1>5, <1>7, OneRunMoves

LEMMA EndKeeps ==
    ASSUME PlanningInv, NEW r \in PipelineRuns, NEW how \in {"owner", "expired"}, EndAuthority(r, how)
    PROVE  PlanningInv'
<1> DEFINE new == [run[r] EXCEPT !.authority = how]
<1>1. /\ run[r] \in RunRows /\ RunKnown(r) /\ run[r].authority \in {"open", "expired"}
  BY RunIsTyped DEF EndAuthority
<1>2. run[r].source # 0 /\ ~run[r].completed /\ ~run[r].failed /\ ~Closed(r)
  BY <1>1 DEF RunKnown, Closed
<1>4. /\ new \in RunRows /\ new.source = run[r].source /\ new.revision = run[r].revision
      /\ ~new.completed /\ ~new.failed /\ new.bound = run[r].bound
  BY <1>1, <1>2 DEF RunRows, Ended
<1>5. /\ run' = [run EXCEPT ![r] = new]
      /\ UNCHANGED <<plan, content, tries, proposals, reports, executor, decision>>
  BY DEF EndAuthority
<1> HIDE DEF new
<1>6. run'[r] = new
  BY <1>4, <1>5 DEF PlanningInv, PlanningTyped, RowsTyped
<1>7. RunKnown(r)'
  BY <1>1, <1>2, <1>4, <1>5, <1>6 DEF RunKnown
<1> QED
  BY <1>1, <1>2, <1>4, <1>5, <1>7, OneRunMoves

LEMMA StartKeeps ==
    ASSUME PlanningInv, NEW x \in Executors, NEW r \in PipelineRuns, StartRun(x, r)
    PROVE  PlanningInv'
<1> DEFINE new == [run[r] EXCEPT !.started = TRUE]
           e == [pc |-> "role", run |-> r, have |-> Artifacts(r), try |-> 0]
<1>1. run[r] \in RunRows /\ RunKnown(r) /\ run[r].source # 0
  BY RunIsTyped DEF StartRun
<1>4. /\ new \in RunRows /\ new.source = run[r].source /\ new.revision = run[r].revision
      /\ new.completed = run[r].completed /\ new.failed = run[r].failed /\ new.bound = run[r].bound
      /\ new.authority = run[r].authority
  BY <1>1 DEF RunRows
<1>5. /\ run' = [run EXCEPT ![r] = new] /\ Goes(x, e)
      /\ UNCHANGED <<plan, content, tries, proposals, reports, decision>>
  BY DEF StartRun
<1>8. e \in [pc : Points, run : PipelineRuns, have : {e.have}, try : {e.try}] /\ e.pc = "role" /\ e.run = r
  BY DEF Points
<1> HIDE DEF new, e
<1>6. run'[r] = new
  BY <1>4, <1>5 DEF PlanningInv, PlanningTyped, RowsTyped
<1>7. RunKnown(r)'
  BY <1>1, <1>4, <1>5, <1>6 DEF RunKnown, Closed, Artifacts
<1>9. ExecutorKnown(x)'
  <2>1. executor'[x] = e
    BY <1>5, ExecutionBecomes
  <2> QED
    BY <1>1, <1>4, <1>6, <1>8, <2>1 DEF ExecutorKnown, Late
<1> QED
  BY <1>1, <1>4, <1>5, <1>7, <1>9, ExecutionMovesRun DEF Closed, Ended
\* An execution at work, and one that went to another point with its run.
LEMMA AtWork ==
    ASSUME PlanningInv, NEW x \in Executors, executor[x].pc # "idle"
    PROVE  /\ executor[x] \in [pc : Points, run : PipelineRuns, have : {executor[x].have},
                              try : {executor[x].try}]
           /\ executor[x].run \in PipelineRuns /\ run[executor[x].run].source # 0
           /\ executor[x].pc \in Late => Closed(executor[x].run)
           /\ executor[x].pc \in {"binding", "finishing"} => run[executor[x].run].revision # 0
  BY DEF PlanningInv, ExecutorKnown, Resting

LEMMA GoesOn ==
    ASSUME PlanningInv, NEW x \in Executors, executor[x].pc # "idle", NEW p \in Points, NEW h, NEW n,
           NEW r \in PipelineRuns, r = executor[x].run,
           \/ Goes(x, [executor[x] EXCEPT !.pc = p, !.have = h, !.try = n])
           \/ Goes(x, [executor[x] EXCEPT !.pc = p, !.try = n])
           \/ Goes(x, [executor[x] EXCEPT !.pc = p]),
           run'[r].source # 0, p \in Late => Closed(r)',
           p \in {"binding", "finishing"} => run'[r].revision # 0
    PROVE  ExecutorKnown(x)'
<1> DEFINE c == executor[x]
           At(h1, n1) == [pc : {p}, run : {c.run}, have : {h1}, try : {n1}]
<1>1. c.run \in PipelineRuns /\ c \in [pc : Points, run : PipelineRuns, have : {c.have}, try : {c.try}]
  BY AtWork
<1>2. PICK e, h1, n1 : Goes(x, e) /\ e \in At(h1, n1)
  <2>1. /\ [c EXCEPT !.pc = p, !.have = h, !.try = n] \in At(h, n)
        /\ [c EXCEPT !.pc = p, !.try = n] \in At(c.have, n)
        /\ [c EXCEPT !.pc = p] \in At(c.have, c.try)
    BY <1>1
  <2> QED
    BY <2>1
<1>3. executor'[x] = e
  BY <1>2, ExecutionBecomes
<1>4. e \in [pc : Points, run : PipelineRuns, have : {e.have}, try : {e.try}] /\ e.pc = p /\ e.run = c.run
  BY <1>1, <1>2
<1> QED
  BY <1>1, <1>3, <1>4 DEF ExecutorKnown

LEMMA Rests ==
    ASSUME PlanningInv, NEW x \in Executors, Raises(x)
    PROVE  ExecutorKnown(x)' /\ Goes(x, Resting)
  BY ExecutionBecomes DEF Raises, ExecutorKnown

\* An execution that goes to a point before its last ones, and changes no run.
LEMMA GoesEarly ==
    ASSUME PlanningInv, NEW x \in Executors, executor[x].pc # "idle", UNCHANGED run,
           NEW p \in {"role", "asked", "invoking", "failing"}
    PROVE  /\ Goes(x, [executor[x] EXCEPT !.pc = p]) => ExecutorKnown(x)'
           /\ \A n : Goes(x, [executor[x] EXCEPT !.pc = p, !.try = n]) => ExecutorKnown(x)'
           /\ \A h, n : Goes(x, [executor[x] EXCEPT !.pc = p, !.have = h, !.try = n]) =>
                 ExecutorKnown(x)'
<1>1. p \in Points /\ p \notin Late
  BY DEF Points, Late
<1>2. executor[x].run \in PipelineRuns /\ run'[executor[x].run].source # 0
  BY AtWork
<1>3. ASSUME NEW h, NEW n,
             \/ Goes(x, [executor[x] EXCEPT !.pc = p, !.have = h, !.try = n])
             \/ Goes(x, [executor[x] EXCEPT !.pc = p, !.try = n])
             \/ Goes(x, [executor[x] EXCEPT !.pc = p])
      PROVE  ExecutorKnown(x)'
  <2>1. p \notin {"binding", "finishing"}
    OBVIOUS
  <2> QED
    BY <1>1, <1>2, <1>3, <2>1, GoesOn
<1> QED
  BY <1>3

LEMMA RaisingKeeps ==
    ASSUME PlanningInv, NEW x \in Executors, executor[x].pc # "idle", RaisesOrFails(x),
           UNCHANGED <<plan, content, run, tries, proposals, reports, decision>>
    PROVE  PlanningInv'
<1>1. CASE Goes(x, [executor[x] EXCEPT !.pc = "failing"])
  <2>1. ExecutorKnown(x)'
    BY <1>1, GoesEarly
  <2> QED
    BY <1>1, <2>1, ExecutionMoves
<1>2. CASE Raises(x)
  BY <1>2, Rests, ExecutionMoves
<1> QED
  BY <1>1, <1>2 DEF RaisesOrFails

LEMMA AskKeeps == ASSUME PlanningInv, NEW x \in Executors, AskRole(x) PROVE PlanningInv'
<1> DEFINE e == executor[x]
           n == IF e.try = 0 THEN Len(tries[e.run][NextRole(x)]) + 1 ELSE e.try
<1>1. /\ e.pc = "role" /\ UNCHANGED <<plan, content, run, tries, proposals, reports, decision>>
      /\ \/ Goes(x, [e EXCEPT !.pc = "failing"])
         \/ Goes(x, [e EXCEPT !.pc = "asked", !.try = n])
         \/ Raises(x)
  BY DEF AskRole
<1> HIDE DEF n
<1>2. CASE Goes(x, [e EXCEPT !.pc = "failing"])
  BY <1>1, <1>2, GoesEarly, ExecutionMoves
<1>3. CASE Goes(x, [e EXCEPT !.pc = "asked", !.try = n])
  BY <1>1, <1>3, GoesEarly, ExecutionMoves
<1>4. CASE Raises(x)
  BY <1>1, <1>4, Rests, ExecutionMoves
<1> QED
  BY <1>1, <1>2, <1>3, <1>4

LEMMA AuthorizeKeeps ==
    ASSUME PlanningInv, NEW x \in Executors, AuthorizeRole(x) \/ KillExecutor(x)
    PROVE  PlanningInv'
<1>1. executor[x].pc # "idle" /\ UNCHANGED <<plan, content, run, tries, proposals, reports, decision>>
  BY DEF AuthorizeRole, KillExecutor
<1>2. CASE Goes(x, [executor[x] EXCEPT !.pc = "invoking"])
  BY <1>1, <1>2, GoesEarly, ExecutionMoves
<1>3. CASE Raises(x)
  BY <1>1, <1>3, Rests, ExecutionMoves
<1>4. CASE RaisesOrFails(x)
  BY <1>1, <1>4, RaisingKeeps
<1> QED
  BY <1>2, <1>3, <1>4 DEF AuthorizeRole, KillExecutor

\* An attempt that is recorded is appended: no artifact is lost.
LEMMA RecordKeeps ==
    ASSUME PlanningInv, NEW x \in Executors, NEW valid \in BOOLEAN, RecordRole(x, valid)
    PROVE  PlanningInv'
<1> DEFINE e == executor[x]
           k == NextRole(x)
<1>1. e.pc = "invoking" /\ UNCHANGED <<plan, content, run, proposals, reports, decision>>
  BY DEF RecordRole
<1>2. e.run \in PipelineRuns /\ run[e.run].source # 0
  BY <1>1, AtWork
<1>3. tries' = tries \/ tries' = [tries EXCEPT ![e.run][k] = Append(tries[e.run][k], valid)]
  BY DEF RecordRole
<1>4. \/ Goes(x, [e EXCEPT !.pc = "failing"]) \/ Raises(x)
      \/ Goes(x, [e EXCEPT !.pc = "role", !.have = e.have \cup {k}, !.try = 0])
      \/ Goes(x, [e EXCEPT !.pc = "role", !.try = e.try + 1])
  BY DEF RecordRole
<1> HIDE DEF k
<1>5. ExecutorKnown(x)'
  BY <1>1, <1>2, <1>4, GoesEarly, Rests
<1>6. PICK new : Goes(x, new)
  BY <1>4 DEF Raises
<1>7. executor' = [y \in Executors |-> IF y = x THEN new ELSE executor[y]]
  BY <1>6, ExecutionBecomes
<1>8. executor' = [y \in Executors |-> executor'[y]] /\ \A y \in Executors : y = x \/ executor'[y] = executor[y]
  BY <1>7
<1>9. /\ tries' \in [PipelineRuns -> [RoleSet -> Seq(BOOLEAN)]]
      /\ \A r \in PipelineRuns : \A q \in RoleSet :
            /\ Len(tries[r][q]) <= Len(tries'[r][q])
            /\ \A i \in 1..Len(tries[r][q]) : tries'[r][q][i] = tries[r][q][i]
  <2>1. tries \in [PipelineRuns -> [RoleSet -> Seq(BOOLEAN)]]
    BY DEF PlanningInv, PlanningTyped, RowsTyped
  <2>2. CASE tries' = tries
    BY <2>1, <2>2
  <2>3. CASE tries' = [tries EXCEPT ![e.run][k] = Append(tries[e.run][k], valid)]
    <3>1. CASE k \in RoleSet
      <4> DEFINE longer == Append(tries[e.run][k], valid)
      <4>1. /\ longer \in Seq(BOOLEAN) /\ Len(longer) = Len(tries[e.run][k]) + 1
            /\ \A i \in 1..Len(tries[e.run][k]) : longer[i] = tries[e.run][k][i]
        BY <1>2, <2>1, <3>1
      <4>2. tries' = [tries EXCEPT ![e.run][k] = longer]
        BY <2>3
      <4> HIDE DEF longer
      <4>3. /\ tries' \in [PipelineRuns -> [RoleSet -> Seq(BOOLEAN)]] /\ tries'[e.run][k] = longer
            /\ \A r \in PipelineRuns, q \in RoleSet :
                  r # e.run \/ q # k => tries'[r][q] = tries[r][q]
        BY <1>2, <2>1, <3>1, <4>1, <4>2
      <4>4. Len(tries[e.run][k]) \in Nat
        BY <1>2, <2>1, <3>1
      <4>5. \A r \in PipelineRuns, q \in RoleSet : Len(tries[r][q]) \in Nat
        BY <2>1
      <4>6. ASSUME NEW r \in PipelineRuns, NEW q \in RoleSet
            PROVE  /\ Len(tries[r][q]) <= Len(tries'[r][q])
                   /\ \A i \in 1..Len(tries[r][q]) : tries'[r][q][i] = tries[r][q][i]
        <5>1. CASE r = e.run /\ q = k
          BY <4>1, <4>3, <4>4, <5>1
        <5>2. CASE r # e.run \/ q # k
          BY <4>3, <4>5, <5>2
        <5> QED
          BY <5>1, <5>2
      <4> QED
        BY <4>3, <4>6
    <3>2. CASE k \notin RoleSet
      <4> DEFINE own == [tries[e.run] EXCEPT ![k] = Append(tries[e.run][k], valid)]
      <4>1. own = tries[e.run]
        BY <1>2, <2>1, <3>2
      <4>2. tries' = [tries EXCEPT ![e.run] = own]
        BY <2>3
      <4> HIDE DEF own
      <4> QED
        BY <1>2, <2>1, <4>1, <4>2
    <3> QED
      BY <3>1, <3>2
  <2> QED
    BY <1>3, <2>2, <2>3
<1>10. RunsGoOn
  <2>1. \A r \in PipelineRuns : Artifacts(r) \subseteq Artifacts(r)' /\ Artifacts(r)' \subseteq RoleSet
    <3> TAKE r \in PipelineRuns
    <3> SUFFICES ASSUME NEW q \in Artifacts(r) PROVE q \in Artifacts(r)'
      BY DEF Artifacts
    <3>1. PICK i \in 1..Len(tries[r][q]) : q \in RoleSet /\ tries[r][q][i]
      BY DEF Artifacts
    <3>2. i \in 1..Len(tries'[r][q]) /\ tries'[r][q][i]
      BY <1>9, <3>1
    <3> QED
      BY <3>1, <3>2 DEF Artifacts
  <2> QED
    BY <1>1, <2>1 DEF RunsGoOn, Closed
<1>11. PlanningTyped'
  BY <1>1, <1>8, <1>9 DEF PlanningInv, PlanningTyped, PlanTyped, RowsTyped, CallsTyped
<1>12. RowsStay
  BY <1>1, RowsUnchanged
<1> QED
  BY <1>1, <1>5, <1>8, <1>10, <1>11, <1>12, RestIsKept
-----------------------------------------------------------------------------
\* The last points of an execution: the authority is closed before the revision
\* exists, and the revision before the run is bound and completed.
LEMMA CloseKeeps == ASSUME PlanningInv, NEW x \in Executors, CloseAuthority(x) PROVE PlanningInv'
<1>r. PICK r \in PipelineRuns : executor[x].pc # "idle" /\ r = executor[x].run
  BY AtWork DEF CloseAuthority, BindRevision, CompleteRun, CloseFailed, FailRun, Propose
<1> USE <1>r
<1> DEFINE new == [run[r] EXCEPT !.authority = "completing"]
<1>1. /\ executor[x].pc = "role" /\ r \in PipelineRuns /\ run[r].source # 0
      /\ run[r] \in RunRows /\ RunKnown(r)
  BY <1>r, AtWork, RunIsTyped DEF CloseAuthority
<1>2. CASE RaisesOrFails(x) /\ UNCHANGED run
  BY <1>1, <1>2, RaisingKeeps DEF CloseAuthority
<1>3. CASE ~(Closed(r) /\ run[r].authority # "completing")
  <2>1. /\ run' = [run EXCEPT ![r] = new] /\ Goes(x, [executor[x] EXCEPT !.pc = "proposing"])
        /\ UNCHANGED <<plan, content, tries, proposals, reports, decision>>
    BY <1>3 DEF CloseAuthority
  <2>2. /\ new \in RunRows /\ new.authority = "completing"
        /\ new.source = run[r].source /\ new.revision = run[r].revision /\ new.bound = run[r].bound
        /\ new.completed = run[r].completed /\ new.failed = run[r].failed
    BY <1>1 DEF RunRows, Ended
  <2> HIDE DEF new
  <2>3. run'[r] = new
    BY <1>1, <2>1, <2>2 DEF PlanningInv, PlanningTyped, RowsTyped
  <2>4. RunKnown(r)' /\ Closed(r)'
    BY <1>1, <2>1, <2>2, <2>3 DEF RunKnown, Closed, Artifacts
  <2>5. "proposing" \in Points
    BY DEF Points, Late
  <2>6. ExecutorKnown(x)'
    BY <1>1, <2>1, <2>2, <2>3, <2>4, <2>5, GoesOn
  <2> QED
    BY <1>1, <2>1, <2>2, <2>4, <2>6, ExecutionMovesRun DEF Ended
<1> QED
  BY <1>2, <1>3 DEF CloseAuthority

LEMMA BindKeeps == ASSUME PlanningInv, NEW x \in Executors, BindRevision(x) PROVE PlanningInv'
<1>r. PICK r \in PipelineRuns : executor[x].pc # "idle" /\ r = executor[x].run
  BY AtWork DEF CloseAuthority, BindRevision, CompleteRun, CloseFailed, FailRun, Propose
<1> USE <1>r
<1> DEFINE new == [run[r] EXCEPT !.bound = TRUE]
<1>1. /\ executor[x].pc = "binding" /\ r \in PipelineRuns /\ run[r].source # 0
      /\ run[r] \in RunRows /\ RunKnown(r) /\ Closed(r) /\ run[r].revision # 0
  BY <1>r, AtWork, RunIsTyped DEF BindRevision, Late
<1>2. CASE RaisesOrFails(x) /\ UNCHANGED run
  BY <1>1, <1>2, RaisingKeeps DEF BindRevision
<1>3. CASE ~Stale(r)
  <2>1. /\ run' = [run EXCEPT ![r] = new] /\ Goes(x, [executor[x] EXCEPT !.pc = "finishing"])
        /\ UNCHANGED <<plan, content, tries, proposals, reports, decision>>
    BY <1>3 DEF BindRevision
  <2>2. /\ new \in RunRows /\ new.authority = run[r].authority
        /\ new.source = run[r].source /\ new.revision = run[r].revision /\ new.bound
        /\ new.completed = run[r].completed /\ new.failed = run[r].failed
    BY <1>1 DEF RunRows
  <2> HIDE DEF new
  <2>3. run'[r] = new
    BY <1>1, <2>1, <2>2 DEF PlanningInv, PlanningTyped, RowsTyped
  <2>4. RunKnown(r)' /\ Closed(r)'
    BY <1>1, <2>1, <2>2, <2>3 DEF RunKnown, Closed, Artifacts
  <2>5. "finishing" \in Points
    BY DEF Points, Late
  <2>6. ExecutorKnown(x)'
    BY <1>1, <2>1, <2>2, <2>3, <2>4, <2>5, GoesOn
  <2> QED
    BY <1>1, <2>1, <2>2, <2>4, <2>6, ExecutionMovesRun DEF Closed, Ended
<1> QED
  BY <1>2, <1>3 DEF BindRevision

LEMMA CompleteKeeps == ASSUME PlanningInv, NEW x \in Executors, CompleteRun(x) PROVE PlanningInv'
<1>r. PICK r \in PipelineRuns : executor[x].pc # "idle" /\ r = executor[x].run
  BY AtWork DEF CloseAuthority, BindRevision, CompleteRun, CloseFailed, FailRun, Propose
<1> USE <1>r
<1> DEFINE new == [run[r] EXCEPT !.completed = TRUE]
<1>1. /\ executor[x].pc = "finishing" /\ r \in PipelineRuns /\ run[r].source # 0
      /\ run[r] \in RunRows /\ RunKnown(r) /\ Closed(r)
  BY <1>r, AtWork, RunIsTyped DEF CompleteRun, Late
<1>2. CASE RaisesOrFails(x) /\ UNCHANGED run
  BY <1>1, <1>2, RaisingKeeps DEF CompleteRun
<1>3. CASE ~run[r].completed /\ Completable(r)
  <2>1. /\ run' = [run EXCEPT ![r] = new] /\ Raises(x)
        /\ UNCHANGED <<plan, content, tries, proposals, reports, decision>>
    BY <1>3 DEF CompleteRun
  <2>2. /\ new \in RunRows /\ new.authority = run[r].authority
        /\ new.source = run[r].source /\ new.revision = run[r].revision /\ new.bound
        /\ new.completed /\ ~new.failed
    BY <1>1, <1>3 DEF RunRows, Completable
  <2> HIDE DEF new
  <2>3. run'[r] = new
    BY <1>1, <2>1, <2>2 DEF PlanningInv, PlanningTyped, RowsTyped
  <2>4. RunKnown(r)'
    BY <1>1, <1>3, <2>1, <2>2, <2>3 DEF RunKnown, Closed, Artifacts, Completable
  <2> QED
    BY <1>1, <2>1, <2>2, <2>4, Rests, ExecutionMovesRun DEF Closed, Ended
<1> QED
  BY <1>2, <1>3 DEF CompleteRun

LEMMA FailKeeps ==
    ASSUME PlanningInv, NEW x \in Executors, CloseFailed(x) \/ FailRun(x) PROVE PlanningInv'
<1>r. PICK r \in PipelineRuns : executor[x].pc # "idle" /\ r = executor[x].run
  BY AtWork DEF CloseAuthority, BindRevision, CompleteRun, CloseFailed, FailRun, Propose
<1> USE <1>r
<1> DEFINE ended == [run[r] EXCEPT !.authority = IF Closed(r) THEN @ ELSE "failing"]
           failed == [run[r] EXCEPT !.failed = @ \/ ~run[r].completed]
<1>1. /\ executor[x].pc # "idle" /\ r \in PipelineRuns /\ run[r].source # 0
      /\ run[r] \in RunRows /\ RunKnown(r)
      /\ UNCHANGED <<plan, content, tries, proposals, reports, decision>>
  BY <1>r, AtWork, RunIsTyped DEF CloseFailed, FailRun
<1>2. CASE CloseFailed(x)
  <2>1. run' = [run EXCEPT ![r] = ended] /\ Goes(x, [executor[x] EXCEPT !.pc = "closed"])
    BY <1>2 DEF CloseFailed
  <2>2. /\ ended \in RunRows /\ ended.authority \in Ended
        /\ ended.source = run[r].source /\ ended.revision = run[r].revision
        /\ ended.bound = run[r].bound
        /\ ended.completed = run[r].completed /\ ended.failed = run[r].failed
    BY <1>1 DEF RunRows, Closed, Ended
  <2> HIDE DEF ended
  <2>3. run'[r] = ended
    BY <1>1, <2>1, <2>2 DEF PlanningInv, PlanningTyped, RowsTyped
  <2>4. RunKnown(r)' /\ Closed(r)'
    BY <1>1, <2>1, <2>2, <2>3 DEF RunKnown, Closed, Artifacts, Ended
  <2>5. "closed" \in Points
    BY DEF Points, Late
  <2>6. ExecutorKnown(x)'
    BY <1>1, <2>1, <2>2, <2>3, <2>4, <2>5, GoesOn
  <2> QED
    BY <1>1, <2>1, <2>2, <2>4, <2>6, ExecutionMovesRun
<1>3. CASE FailRun(x)
  <2>1. run' = [run EXCEPT ![r] = failed] /\ Raises(x) /\ Closed(r)
    BY <1>3, AtWork DEF FailRun, Late
  <2>2. /\ failed \in RunRows /\ failed.authority = run[r].authority
        /\ failed.source = run[r].source /\ failed.revision = run[r].revision
        /\ failed.bound = run[r].bound
        /\ failed.completed = run[r].completed /\ (failed.completed => ~failed.failed)
    BY <1>1 DEF RunRows, RunKnown
  <2> HIDE DEF failed
  <2>3. run'[r] = failed
    BY <1>1, <2>1, <2>2 DEF PlanningInv, PlanningTyped, RowsTyped
  <2>4. RunKnown(r)'
    BY <1>1, <2>1, <2>2, <2>3 DEF RunKnown, Closed, Artifacts
  <2> QED
    BY <1>1, <2>1, <2>2, <2>4, Rests, ExecutionMovesRun DEF Closed, Ended
<1> QED
  BY <1>2, <1>3

\* A table that gets a row keeps its rows.
LEMMA RowAppended ==
    ASSUME NEW S, NEW s \in Seq(S), NEW e \in S
    PROVE  /\ Append(s, e) \in Seq(S) /\ Append(s, e)[Len(s) + 1] = e
           /\ Len(s) + 1 \in DOMAIN Append(s, e) /\ Len(s) \in Nat
           /\ \A i \in DOMAIN s : i \in DOMAIN Append(s, e) /\ Append(s, e)[i] = s[i]
           /\ \A i \in DOMAIN Append(s, e) : i \in DOMAIN s \/ i = Len(s) + 1
  OBVIOUS

\* The revision of a run is a row of its own.
LEMMA ProposeKeeps == ASSUME PlanningInv, NEW x \in Executors, Propose(x) PROVE PlanningInv'
<1>r. PICK r \in PipelineRuns : executor[x].pc # "idle" /\ r = executor[x].run
  BY AtWork DEF CloseAuthority, BindRevision, CompleteRun, CloseFailed, FailRun, Propose
<1> USE <1>r
<1> DEFINE row == [run |-> r, source |-> CurrentSource, invalid |-> FALSE]
           new == [run[r] EXCEPT !.revision = Len(proposals) + 1]
<1>1. /\ executor[x].pc = "proposing" /\ r \in PipelineRuns /\ run[r].source # 0
      /\ run[r] \in RunRows /\ RunKnown(r) /\ Closed(r)
      /\ UNCHANGED <<plan, content, tries, reports, decision>>
  BY <1>r, AtWork, RunIsTyped DEF Propose, Late
<1>2. CASE Raises(x) /\ UNCHANGED <<run, proposals>>
  BY <1>1, <1>2, Rests, ExecutionMoves
<1>3. CASE RaisesOrFails(x) /\ UNCHANGED <<run, proposals>>
  BY <1>1, <1>3, RaisingKeeps
<1>p. "binding" \in Points
  BY DEF Points, Late
<1>4. CASE /\ run[r].revision # 0 /\ UNCHANGED <<run, proposals>>
           /\ Goes(x, [executor[x] EXCEPT !.pc = "binding"])
  <2>1. Closed(r)'
    BY <1>1, <1>4 DEF Closed
  <2>2. ExecutorKnown(x)'
    BY <1>1, <1>4, <1>p, <2>1, GoesOn
  <2> QED
    BY <1>1, <1>4, <2>2, ExecutionMoves
<1>5. CASE /\ run[r].revision = 0 /\ ~run[r].completed
           /\ proposals' = Append(proposals, row)
           /\ run' = [run EXCEPT ![r].revision = Len(proposals) + 1]
           /\ Goes(x, [executor[x] EXCEPT !.pc = "binding"])
  <2>1. row \in ProposalRows /\ row.run = r
    BY <1>1 DEF ProposalRows, CurrentSource, PlanningInv, PlanningTyped, PlanTyped
  <2>2. proposals \in Seq(ProposalRows)
    BY DEF PlanningInv, PlanningTyped, RowsTyped
  <2>3. run' = [run EXCEPT ![r] = new]
    BY <1>5
  <2>4. /\ new \in RunRows /\ new.revision = Len(proposals) + 1 /\ new.revision # 0
        /\ new.authority = run[r].authority /\ new.source = run[r].source
        /\ new.bound = run[r].bound /\ ~new.completed /\ new.failed = run[r].failed
    BY <1>1, <1>5, <2>2 DEF RunRows
  <2> HIDE DEF new, row
  <2>5. /\ proposals' \in Seq(ProposalRows) /\ proposals'[Len(proposals) + 1] = row
        /\ Len(proposals) + 1 \in DOMAIN proposals'
        /\ \A i \in DOMAIN proposals : i \in DOMAIN proposals' /\ proposals'[i] = proposals[i]
    BY <1>5, <2>1, <2>2, RowAppended
  <2>6. /\ run' \in [PipelineRuns -> RunRows] /\ run'[r] = new
        /\ RunsGoOn /\ \A q \in PipelineRuns : q = r \/ run'[q] = run[q]
    <3>1. new \in RunRows /\ new.authority \in Ended /\ new.source = run[r].source
      BY <1>1, <2>4 DEF Closed, Ended
    <3>2. run[r].revision = 0 /\ ~run[r].completed /\ tries' = tries
      BY <1>1, <1>5
    <3> QED
      BY <2>3, <3>1, <3>2, RunMoves
  <2>7. RunKnown(r)' /\ Closed(r)'
    BY <1>1, <2>1, <2>4, <2>5, <2>6 DEF RunKnown, Closed
  <2>8. ExecutorKnown(x)'
    BY <1>1, <1>5, <1>p, <2>4, <2>6, <2>7, GoesOn
  <2>9. /\ executor' = [y \in Executors |-> executor'[y]]
        /\ \A y \in Executors : y = x \/ executor'[y] = executor[y]
    BY <1>5, ExecutionBecomes
  <2>10. PlanningTyped'
    BY <1>1, <2>5, <2>6, <2>9 DEF PlanningInv, PlanningTyped, PlanTyped, RowsTyped, CallsTyped
  <2>11. RowsStay
    BY <1>1, <2>5 DEF RowsStay
  <2> QED
    BY <1>1, <2>6, <2>7, <2>8, <2>9, <2>10, <2>11, RestIsKept
<1> QED
  BY <1>2, <1>3, <1>4, <1>5 DEF Propose
-----------------------------------------------------------------------------
\* The owner, who changes the specification, the proposals and the phase.
LEMMA PlanAdvances ==
    ASSUME plan \in PlanRows, NEW new \in PlanRows, Advance(new)
    PROVE  plan' \in PlanRows /\ plan'.approved = new.approved /\ plan'.phase = new.phase
  BY DEF Advance, PlanRows

LEMMA PhaseAdvances ==
    ASSUME plan \in PlanRows, NEW p \in {"analysis", "generation", "waiting", "approved"},
           Advance([plan EXCEPT !.phase = p])
    PROVE  plan' \in PlanRows /\ plan'.approved = plan.approved /\ plan'.phase = p
<1> DEFINE new == [plan EXCEPT !.phase = p]
<1>1. new \in PlanRows /\ new.approved = plan.approved /\ new.phase = p
  BY DEF PlanRows
<1> HIDE DEF new
<1> QED
  BY <1>1, PlanAdvances DEF new

LEMMA AttachKeeps == ASSUME PlanningInv, NEW bytes \in {1, 2}, AttachSource(bytes) PROVE PlanningInv'
<1> DEFINE Marked(i) == [proposals[i] EXCEPT !.invalid = @ \/ content[proposals[i].source] # bytes]
<1>1. /\ proposals' = [i \in 1..Len(proposals) |-> Marked(i)]
      /\ content' = Append(content, bytes) /\ plan.phase # "approved"
      /\ UNCHANGED <<run, tries, reports, executor, decision>>
  BY DEF AttachSource, Preapproval
<1>2. /\ plan.approved = plan'.approved
      /\ plan' \in PlanRows
  <2>1. plan \in PlanRows
    BY DEF PlanningInv, PlanningTyped, PlanTyped
  <2>2. PICK p \in {"analysis", "generation"} :
            Advance([plan EXCEPT !.phase = p])
    BY DEF AttachSource
  <2> QED
    BY <2>1, <2>2, PhaseAdvances
<1>3. PlanTyped'
  BY <1>1, <1>2 DEF PlanningInv, PlanningTyped, PlanTyped
<1>4. /\ proposals' \in Seq(ProposalRows)
      /\ \A i \in DOMAIN proposals : i \in DOMAIN proposals' /\ proposals'[i].run = proposals[i].run
  <2>1. proposals \in Seq(ProposalRows)
    BY DEF PlanningInv, PlanningTyped, RowsTyped
  <2>2. ASSUME NEW i \in 1..Len(proposals)
        PROVE  Marked(i) \in ProposalRows /\ Marked(i).run = proposals[i].run
    <3>1. proposals[i] \in ProposalRows
      BY <2>1
    <3> QED
      BY <3>1 DEF ProposalRows
  <2> HIDE DEF Marked
  <2> QED
    BY <1>1, <2>1, <2>2
<1>5. PlanningTyped' /\ RunsGoOn
  <2>1. RowsTyped'
    BY <1>1, <1>4 DEF PlanningInv, PlanningTyped, RowsTyped
  <2>2. RunsGoOn
    BY <1>1 DEF RunsGoOn, Closed, Artifacts
  <2> QED
    BY <1>1, <1>3, <2>1, <2>2 DEF PlanningInv, PlanningTyped, CallsTyped
<1>6. RowsStay
  BY <1>1, <1>4 DEF RowsStay
<1> QED
  BY <1>1, <1>2, <1>5, <1>6, RestIsKept

LEMMA ReviseKeeps == ASSUME PlanningInv, ReviseByHand PROVE PlanningInv'
<1> DEFINE row == [run |-> "none", source |-> CurrentSource, invalid |-> FALSE]
<1>1. /\ proposals' = Append(proposals, row)
      /\ UNCHANGED <<plan, content, run, tries, reports, executor, decision>>
  BY DEF ReviseByHand
<1>2. row \in ProposalRows
  BY DEF ProposalRows, CurrentSource, PlanningInv, PlanningTyped, PlanTyped
<1> HIDE DEF row
<1>3. /\ proposals' \in Seq(ProposalRows)
      /\ \A i \in DOMAIN proposals : i \in DOMAIN proposals' /\ proposals'[i] = proposals[i]
  <2>1. proposals \in Seq(ProposalRows)
    BY DEF PlanningInv, PlanningTyped, RowsTyped
  <2> QED
    BY <1>1, <1>2, <2>1, RowAppended
<1>4. PlanningTyped'
  BY <1>1, <1>3 DEF PlanningInv, PlanningTyped, PlanTyped, RowsTyped, CallsTyped
<1>5. RowsStay
  BY <1>1, <1>3 DEF RowsStay
<1>6. RunsGoOn
  BY <1>1 DEF RunsGoOn, Closed, Artifacts
<1> QED
  BY <1>1, <1>4, <1>5, <1>6, RestIsKept

LEMMA MoveKeeps ==
    ASSUME PlanningInv,
           \/ \E from, to \in {"analysis", "generation", "waiting", "approved"} : MovePlan(from, to)
           \/ \E d \in {"RUNNING", "STOPPED"} : HoldPlan(d)
    PROVE  PlanningInv'
<1>1. UNCHANGED <<content, run, tries, proposals, reports, executor, decision>>
  BY DEF MovePlan, HoldPlan
<1>2. PICK p \in {"analysis", "generation", "waiting", "approved"}, d \in {"RUNNING", "STOPPED"} :
          \/ Advance([plan EXCEPT !.phase = p]) /\ plan.phase # "approved"
          \/ Advance([plan EXCEPT !.disposition = d])
  BY DEF MovePlan, HoldPlan, Schedulable, Preapproval
<1>3. /\ plan.approved = plan'.approved /\ (plan.phase = "approved" => plan'.phase = "approved")
      /\ plan' \in PlanRows
  <2>1. plan \in PlanRows
    BY DEF PlanningInv, PlanningTyped, PlanTyped
  <2> DEFINE held == [plan EXCEPT !.disposition = d]
  <2>2. held \in PlanRows /\ held.approved = plan.approved /\ held.phase = plan.phase
    BY <2>1 DEF PlanRows
  <2>3. \/ Advance([plan EXCEPT !.phase = p]) /\ plan.phase # "approved"
        \/ Advance(held)
    BY <1>2
  <2> HIDE DEF held
  <2> QED
    BY <2>1, <2>2, <2>3, PhaseAdvances, PlanAdvances
<1>4. PlanningTyped'
  BY <1>1, <1>3 DEF PlanningInv, PlanningTyped, PlanTyped, RowsTyped, CallsTyped
<1>5. RowsStay /\ RunsGoOn
  BY <1>1, <1>3 DEF RowsStay, RunsGoOn, Closed, Artifacts
<1> QED
  BY <1>1, <1>3, <1>4, <1>5, RestIsKept

-----------------------------------------------------------------------------
\* The decisions: what a decision read, and the commit that asks again.
LEMMA DecisionIsTyped == ASSUME PlanningInv, NEW c \in Deciders
                         PROVE  /\ decision[c] \in DecisionStates /\ DecisionKnown(c)
                                /\ decision \in [Deciders -> DecisionStates]
  BY DEF PlanningInv, PlanningTyped, CallsTyped

\* One that only reads, or gives up.
LEMMA DecisionMoves ==
    ASSUME PlanningInv, NEW c \in Deciders, NEW d \in DecisionStates,
           decision' = [decision EXCEPT ![c] = d],
           UNCHANGED <<plan, content, run, tries, proposals, reports, executor>>,
           d.pc = "verify" => run[d.run].completed,
           d.pc = "approve" => d.report \in DOMAIN reports
    PROVE  PlanningInv'
<1>1. decision' \in [Deciders -> DecisionStates] /\ decision'[c] = d
      /\ \A b \in Deciders : b = c \/ decision'[b] = decision[b]
  BY DecisionIsTyped
<1>2. DecisionKnown(c)'
  BY <1>1 DEF DecisionKnown
<1>3. PlanningTyped'
  BY <1>1 DEF PlanningInv, PlanningTyped, PlanTyped, RowsTyped, CallsTyped
<1> QED
  BY <1>1, <1>2, <1>3, RestIsKept, TablesStay, RowsUnchanged

LEMMA ReadKeeps ==
    ASSUME PlanningInv, NEW c \in Deciders,
           \/ \E r \in PipelineRuns, passes \in BOOLEAN : ReadVerify(c, r, passes)
           \/ \E v \in 1..Len(reports) : ReadApprove(c, v)
           \/ GiveUp(c)
    PROVE  PlanningInv'
<1>1. CASE \E r \in PipelineRuns, passes \in BOOLEAN : ReadVerify(c, r, passes)
  <2>1. PICK r \in PipelineRuns, passes \in BOOLEAN : ReadVerify(c, r, passes)
    BY <1>1
  <2> DEFINE d == [pc |-> "verify", run |-> r, version |-> plan.version,
                   ready |-> passes /\ ~Stale(r) /\ ~proposals[run[r].revision].invalid /\ Schedulable]
  <2>2. plan.version \in Nat
    BY DEF PlanningInv, PlanningTyped, PlanTyped, PlanRows
  <2>3. d \in DecisionStates /\ d.pc = "verify" /\ d.run = r
    BY <2>2 DEF DecisionStates
  <2>4. decision' = [decision EXCEPT ![c] = d] /\ run[r].completed
        /\ UNCHANGED <<plan, content, run, tries, proposals, reports, executor>>
    BY <2>1 DEF ReadVerify
  <2> HIDE DEF d
  <2> QED
    BY <2>3, <2>4, DecisionMoves
<1>2. CASE \E v \in 1..Len(reports) : ReadApprove(c, v)
  <2>1. PICK v \in 1..Len(reports) : ReadApprove(c, v)
    BY <1>2
  <2> DEFINE d == [pc |-> "approve", report |-> v]
  <2>2. d \in DecisionStates /\ d.pc = "approve" /\ d.report = v
    BY DEF DecisionStates
  <2>3. decision' = [decision EXCEPT ![c] = d]
        /\ UNCHANGED <<plan, content, run, tries, proposals, reports, executor>>
    BY <2>1 DEF ReadApprove
  <2>4. v \in DOMAIN reports
    BY DEF PlanningInv, PlanningTyped, RowsTyped
  <2> HIDE DEF d
  <2> QED
    BY <2>2, <2>3, <2>4, DecisionMoves
<1>3. CASE GiveUp(c)
  <2>1. Resting \in DecisionStates /\ Resting.pc = "idle"
    BY DEF Resting, DecisionStates
  <2> QED
    BY <1>3, <2>1, DecisionMoves DEF GiveUp
<1> QED
  BY <1>1, <1>2, <1>3

LEMMA VerifyKeeps == ASSUME PlanningInv, NEW c \in Deciders, CommitVerify(c) PROVE PlanningInv'
<1>1. PICK r \in PipelineRuns, ready \in BOOLEAN :
          /\ decision[c].pc = "verify" /\ decision[c].run = r /\ decision[c].ready = ready
          /\ run[r].completed
  BY DecisionIsTyped DEF CommitVerify, DecisionStates, DecisionKnown
<1>2. PICK result \in Nat :
          reports' = Append(reports, [run |-> r, revision |-> run[r].revision, ready |-> ready,
                                      result |-> result])
  <2>1. plan.version \in Nat
    BY DEF PlanningInv, PlanningTyped, PlanTyped, PlanRows
  <2>2. (IF ready THEN plan.version + 1 ELSE 0) \in Nat
    BY <2>1
  <2>3. reports' = Append(reports, [run |-> r, revision |-> run[r].revision, ready |-> ready,
                                    result |-> IF ready THEN plan.version + 1 ELSE 0])
    BY <1>1 DEF CommitVerify
  <2> QED
    BY <2>2, <2>3
<1> DEFINE row == [run |-> r, revision |-> run[r].revision, ready |-> ready, result |-> result]
<1>3. row \in ReportRows /\ row.run = r /\ row.revision = run[r].revision
  <2>1. run[r].revision \in Nat
    BY RunIsTyped DEF RunRows
  <2> QED
    BY <2>1 DEF ReportRows
<1> HIDE DEF row
<1>4. /\ reports' \in Seq(ReportRows) /\ reports'[Len(reports) + 1] = row
      /\ \A v \in DOMAIN reports : v \in DOMAIN reports' /\ reports'[v] = reports[v]
      /\ \A v \in DOMAIN reports' : v \in DOMAIN reports \/ v = Len(reports) + 1
  <2>1. reports \in Seq(ReportRows)
    BY DEF PlanningInv, PlanningTyped, RowsTyped
  <2> QED
    BY <1>2, <1>3, <2>1, RowAppended DEF row
<1>5. UNCHANGED <<content, run, tries, proposals, executor>>
      /\ decision' = [decision EXCEPT ![c] = Resting]
  BY DEF CommitVerify
<1>6. /\ decision' \in [Deciders -> DecisionStates]
      /\ \A b \in Deciders : decision'[b] = decision[b] \/ decision'[b].pc = "idle"
  BY <1>5, DecisionIsTyped DEF Resting, DecisionStates
<1>7. /\ plan'.approved = plan.approved /\ (plan.phase = "approved" => plan' = plan)
      /\ plan' \in PlanRows
  <2>1. plan \in PlanRows
    BY DEF PlanningInv, PlanningTyped, PlanTyped
  <2>2. \/ plan' = plan
        \/ Advance([plan EXCEPT !.phase = "waiting"]) /\ plan.phase = "generation"
    BY DEF CommitVerify, Presentable
  <2> QED
    BY <2>1, <2>2, PhaseAdvances
<1>8. PlanningTyped'
  BY <1>4, <1>5, <1>6, <1>7 DEF PlanningInv, PlanningTyped, PlanTyped, RowsTyped, CallsTyped
<1>9. RowsStay /\ RunsGoOn
  BY <1>4, <1>5, <1>7 DEF RowsStay, RunsGoOn, Closed, Artifacts
<1>10. \A v \in DOMAIN reports' : v \in DOMAIN reports \/ ReportKnown(v)'
  BY <1>1, <1>3, <1>4, <1>5 DEF ReportKnown
<1>11. \A b \in Deciders : decision'[b] = decision[b] \/ DecisionKnown(b)'
  BY <1>6 DEF DecisionKnown
<1> QED
  BY <1>5, <1>7, <1>8, <1>9, <1>10, <1>11, RestIsKept

\* The commit of an approval finds all that was verified still true.
LEMMA ApproveKeeps == ASSUME PlanningInv, NEW c \in Deciders, CommitApprove(c) PROVE PlanningInv'
<1>1. PICK v \in DOMAIN reports : decision[c].report = v /\ decision[c].pc = "approve"
  BY DecisionIsTyped DEF CommitApprove, DecisionKnown
<1>2. /\ reports[v].ready /\ plan.phase = "waiting" /\ ~Stale(reports[v].run)
      /\ ~proposals[reports[v].revision].invalid
  BY <1>1 DEF CommitApprove, StillApprovable, Approvable
<1>3. /\ UNCHANGED <<content, run, tries, proposals, reports, executor>>
      /\ decision' = [decision EXCEPT ![c] = Resting]
      /\ Advance([plan EXCEPT !.phase = "approved", !.approved = v])
  BY <1>1 DEF CommitApprove
<1>4. /\ decision' \in [Deciders -> DecisionStates]
      /\ \A b \in Deciders : decision'[b] = decision[b] \/ decision'[b].pc = "idle"
  BY <1>3, DecisionIsTyped DEF Resting, DecisionStates
<1>5. /\ plan'.phase = "approved" /\ plan'.approved = v
      /\ plan' \in PlanRows
  <2>1. plan \in PlanRows
    BY DEF PlanningInv, PlanningTyped, PlanTyped
  <2>2. v \in Nat
    BY DEF PlanningInv, PlanningTyped, RowsTyped
  <2> DEFINE new == [plan EXCEPT !.phase = "approved", !.approved = v]
  <2>3. new \in PlanRows /\ new.approved = v /\ new.phase = "approved"
    BY <2>1, <2>2 DEF PlanRows
  <2>4. Advance(new)
    BY <1>3
  <2> HIDE DEF new
  <2> QED
    BY <2>1, <2>3, <2>4, PlanAdvances
<1>6. PlanningTyped'
  BY <1>3, <1>4, <1>5 DEF PlanningInv, PlanningTyped, PlanTyped, RowsTyped, CallsTyped
<1>7. RowsStay /\ RunsGoOn
  BY <1>2, <1>3 DEF RowsStay, RunsGoOn, Closed, Artifacts
<1>8. ApprovalKnown'
  BY <1>2, <1>3, <1>5 DEF ApprovalKnown, Stale, CurrentSource
<1>9. \A b \in Deciders : decision'[b] = decision[b] \/ DecisionKnown(b)'
  BY <1>4 DEF DecisionKnown
<1> QED
  BY <1>3, <1>6, <1>7, <1>8, <1>9, RestIsKept

LEMMA PlanningStep == PlanningInv /\ [PNext]_plvars => PlanningInv'
<1> SUFFICES ASSUME PlanningInv, [PNext]_plvars PROVE PlanningInv'
  OBVIOUS
<1>1. CASE UNCHANGED plvars
  <2>1. UNCHANGED <<plan, content, run, tries, proposals, reports, executor, decision>>
    BY <1>1 DEF plvars
  <2>2. PlanningTyped'
    BY <2>1 DEF PlanningInv, PlanningTyped, PlanTyped, RowsTyped, CallsTyped
  <2> QED
    BY <2>1, <2>2, TablesStay, RowsUnchanged, RestIsKept
<1>2. CASE \E r \in PipelineRuns :
              PrepareRun(r) \/ \E how \in {"owner", "expired"} : EndAuthority(r, how)
  BY <1>2, PrepareKeeps, EndKeeps
<1>3. CASE \E x \in Executors :
              \/ \E r \in PipelineRuns : StartRun(x, r)
              \/ AskRole(x) \/ AuthorizeRole(x) \/ (\E valid \in BOOLEAN : RecordRole(x, valid))
              \/ CloseAuthority(x) \/ Propose(x) \/ BindRevision(x) \/ CompleteRun(x)
              \/ CloseFailed(x) \/ FailRun(x) \/ KillExecutor(x)
  BY <1>3, StartKeeps, AskKeeps, AuthorizeKeeps, RecordKeeps, CloseKeeps, ProposeKeeps, BindKeeps,
     CompleteKeeps, FailKeeps
<1>4. CASE \/ \E bytes \in {1, 2} : AttachSource(bytes)
           \/ ReviseByHand
           \/ \E from, to \in {"analysis", "generation", "waiting", "approved"} : MovePlan(from, to)
           \/ \E d \in {"RUNNING", "STOPPED"} : HoldPlan(d)
  BY <1>4, AttachKeeps, ReviseKeeps, MoveKeeps
<1>5. CASE \E c \in Deciders :
              \/ \E r \in PipelineRuns, passes \in BOOLEAN : ReadVerify(c, r, passes)
              \/ \E v \in 1..Len(reports) : ReadApprove(c, v)
              \/ CommitVerify(c) \/ CommitApprove(c) \/ GiveUp(c)
  BY <1>5, ReadKeeps, VerifyKeeps, ApproveKeeps
<1> QED
  BY <1>1, <1>2, <1>3, <1>4, <1>5 DEF PNext

\* ProposalsSound: a run ends once, complete with every role's artifact or failed, and
\* a mission is approved on a verified proposal of the specification in force.
THEOREM PlanningIsSound == PSpec => []ProposalsSound
<1>1. PlanningInv => ProposalsSound
  <2> SUFFICES ASSUME PlanningInv PROVE NoPartialProposal /\ ApprovedFromCurrentSource
    BY DEF ProposalsSound
  <2>1. NoPartialProposal
    BY DEF PlanningInv, RunKnown, NoPartialProposal
  <2>2. ApprovedFromCurrentSource
    <3> SUFFICES ASSUME plan.approved # 0 PROVE ApprovedFromCurrentSource
      BY DEF ApprovedFromCurrentSource
    <3>1. plan.approved \in DOMAIN reports
      BY DEF PlanningInv, ApprovalKnown
    <3>2. reports[plan.approved].run \in PipelineRuns
      <4>1. reports \in Seq(ReportRows)
        BY DEF PlanningInv, PlanningTyped, RowsTyped
      <4>2. reports[plan.approved] \in ReportRows
        BY <3>1, <4>1
      <4> QED
        BY <4>2 DEF ReportRows
    <3> QED
      BY <3>1, <3>2 DEF PlanningInv, ApprovalKnown, ReportKnown, RunKnown, ApprovedFromCurrentSource
  <2> QED
    BY <2>1, <2>2
<1> QED
  BY <1>1, PlanningInit, PlanningStep, PTL DEF PSpec

-----------------------------------------------------------------------------
(* The proposal people are asked about (autonomous_proposal_verifier.py).    *)

\* A listed backlog that the schemas and the verifier let through.
Ordered(items) ==
    /\ Len(items) \in Nat /\ DOMAIN items = 1..Len(items)
    /\ \A n \in DOMAIN items : items[n].id \in Nat
    /\ GraphValid(items) /\ InCanonicalOrder(items)

\* The delivery goes through the executable items in the order of the rows.
DeliveredInOrder ==
    /\ Delivered \subseteq Executables(proposal.items)
    /\ \A n \in DOMAIN proposal.items : \A k \in 1..(n - 1) :
          proposal.items[n].id \in Delivered /\ proposal.items[k].executable =>
              proposal.items[k].id \in Delivered

SetUpFirst ==
    \A n \in DOMAIN built, name \in proposal.bootstrap :
        name \in ItemOf(proposal.items, built[n]).needs =>
            \E k \in 1..n : SetsUp(ItemOf(proposal.items, built[k]), name)

ProposalInv ==
    /\ proposal \in Proposals
    /\ stage = "approved" => Evaluates(proposal)
    /\ stage # "approved" => built = <<>>
    /\ \E S : built \in Seq(S)
    /\ DeliveredInOrder /\ SetUpFirst

\* A non-empty set of naturals has a least element.
LEMMA LeastOf == ASSUME NEW T \in SUBSET Nat, T # {} PROVE \E x \in T : \A y \in T : x <= y
<1> DEFINE R == OpToRel(<, Nat)
<1>1. IsWellFoundedOn(R, Nat)
  BY NatLessThanWellFounded, Zenon
<1>2. \A x, y \in Nat : x < y => <<x, y>> \in R
  BY DEF OpToRel
<1>3. \E x \in T : \A y \in T : ~(<<y, x>> \in R)
  <2> HIDE DEF R
  <2> QED
    BY <1>1, WFMin
<1> HIDE DEF R
<1>4. \A x, y \in T : ~(y < x) => x <= y
  OBVIOUS
<1> QED
  BY <1>2, <1>3, <1>4

\* An item is found by its stable id.
LEMMA ItemFound ==
  ASSUME NEW items, GraphValid(items), NEW n \in DOMAIN items
  PROVE  /\ items[n].id \in Ids(items)
         /\ ItemOf(items, items[n].id) = items[n]
         /\ \A m \in DOMAIN items : items[m].id = items[n].id => m = n
<1>1. \A m \in DOMAIN items : items[m].id = items[n].id => m = n
  BY DEF GraphValid
<1>2. (CHOOSE m \in DOMAIN items : items[m].id = items[n].id) = n
  BY <1>1
<1> QED
  BY <1>1, <1>2 DEF Ids, ItemOf

\* In the canonical order everything comes after what it stands on.
LEMMA PrerequisitesFirst ==
  ASSUME NEW items, Ordered(items), NEW n \in DOMAIN items
  PROVE  /\ Prerequisites(items, items[n].id) \subseteq Placed(items, n)
         /\ items[n].deps \subseteq Placed(items, n)
         /\ Placed(items, n) \subseteq Ids(items)
         /\ \A id \in Placed(items, n) : \E k \in 1..(n - 1) : k \in DOMAIN items /\ items[k].id = id
         /\ n \in Nat /\ 1..(n - 1) \subseteq DOMAIN items
<1>1. items[n].id \in Heap(items, n)
  BY DEF Ordered, InCanonicalOrder
<1>2. Prerequisites(items, items[n].id) \subseteq Placed(items, n)
  BY <1>1 DEF Heap
<1>3. items[n].deps \subseteq Prerequisites(items, items[n].id)
  BY ItemFound DEF Ordered, Prerequisites
<1>4. n \in Nat /\ 1..(n - 1) \subseteq DOMAIN items
  BY DEF Ordered
<1>5. \A id \in Placed(items, n) : \E k \in 1..(n - 1) : k \in DOMAIN items /\ items[k].id = id
  BY <1>4 DEF Placed
<1>6. Placed(items, n) \subseteq Ids(items)
  BY <1>5 DEF Ids
<1> QED
  BY <1>2, <1>3, <1>4, <1>5, <1>6

LEMMA CanonicalIsAnOrder ==
  ASSUME NEW items, Ordered(items)
  PROVE  [n \in DOMAIN items |-> items[n].id] \in Orders(items)
<1> DEFINE order == [n \in DOMAIN items |-> items[n].id]
<1>1. order \in [DOMAIN items -> Ids(items)]
  BY DEF Ids
<1>2. \A id \in Ids(items) : \E n \in DOMAIN items : order[n] = id
  BY DEF Ids
<1>3. ASSUME NEW m \in DOMAIN items, NEW n \in DOMAIN items,
             order[n] \in ItemOf(items, order[m]).deps \cup Parent(ItemOf(items, order[m]))
      PROVE  n < m
  <2>1. items[n].id \in Placed(items, m)
    BY <1>3, PrerequisitesFirst DEF Prerequisites
  <2>2. PICK k \in 1..(m - 1) : k \in DOMAIN items /\ items[k].id = items[n].id
    BY <2>1, PrerequisitesFirst
  <2>3. k = n
    BY <2>2, ItemFound DEF Ordered
  <2>4. m \in Nat
    BY PrerequisitesFirst
  <2> QED
    BY <2>2, <2>3, <2>4
<1> QED
  BY <1>1, <1>2, <1>3 DEF Orders

\* An order gives every item one place.
LEMMA OrdersAreInjective ==
  ASSUME NEW items, Ordered(items), NEW o \in Orders(items)
  PROVE  \A m, n \in DOMAIN items : o[m] = o[n] => m = n
<1> DEFINE named == [n \in DOMAIN items |-> items[n].id]
<1>1. IsFiniteSet(DOMAIN items)
  <2>1. Len(items) \in Int /\ 1 \in Int /\ DOMAIN items = 1..Len(items)
    BY DEF Ordered
  <2>2. IsFiniteSet(1..Len(items))
    BY <2>1, FS_Interval
  <2> QED
    BY <2>1, <2>2
<1>2. named \in Bijection(DOMAIN items, Ids(items))
  <2>1. named \in [DOMAIN items -> Ids(items)]
    BY DEF Ids
  <2>2. \A m, n \in DOMAIN items : named[m] = named[n] => m = n
    BY DEF Ordered, GraphValid
  <2>3. \A id \in Ids(items) : \E n \in DOMAIN items : named[n] = id
    BY DEF Ids
  <2> HIDE DEF named
  <2>4. DOMAIN named = DOMAIN items
    BY <2>1
  <2> QED
    BY <2>1, <2>2, <2>3, <2>4 DEF Bijection, Injection, Surjection, IsInjective
<1>3. ExistsBijection(DOMAIN items, Ids(items))
  BY <1>2 DEF ExistsBijection
<1>4. Cardinality(Ids(items)) = Cardinality(DOMAIN items)
  BY <1>1, <1>3, FS_Bijection
<1>5. o \in Surjection(DOMAIN items, Ids(items))
  BY DEF Orders, Surjection
<1>6. o \in Injection(DOMAIN items, Ids(items))
  BY <1>1, <1>4, <1>5, FS_SurjSameCardinalityImpliesInj
<1>7. DOMAIN o = DOMAIN items
  BY <1>5 DEF Surjection
<1> QED
  BY <1>6, <1>7 DEF Injection, IsInjective

\* Of all orders it is the least.
LEMMA CanonicalIsLeast ==
  ASSUME NEW items, Ordered(items), NEW o \in Orders(items)
  PROVE  ~Before(o, [n \in DOMAIN items |-> items[n].id])
<1> DEFINE order == [n \in DOMAIN items |-> items[n].id]
<1>1. /\ o \in [DOMAIN items -> Ids(items)]
      /\ \A id \in Ids(items) : \E n \in DOMAIN items : o[n] = id
      /\ \A m, n \in DOMAIN items :
            o[n] \in ItemOf(items, o[m]).deps \cup Parent(ItemOf(items, o[m])) => n < m
  BY DEF Orders
<1> SUFFICES ASSUME NEW n \in DOMAIN items, o[n] < order[n], \A k \in 1..(n - 1) : o[k] = order[k]
             PROVE  FALSE
  BY <1>1 DEF Before
<1>2. n \in Nat /\ 1..(n - 1) \subseteq DOMAIN items
  BY PrerequisitesFirst
<1>3. \A k \in 1..(n - 1) : o[k] = items[k].id
  BY <1>2
<1>4. o[n] \in Ids(items)
  BY <1>1
<1>5. Prerequisites(items, o[n]) \subseteq Placed(items, n)
  <2> SUFFICES ASSUME NEW p \in Prerequisites(items, o[n]) PROVE p \in Placed(items, n)
    OBVIOUS
  <2>1. p \in Ids(items)
    BY <1>4 DEF Ordered, GraphValid
  <2>2. PICK j \in DOMAIN items : o[j] = p
    BY <1>1, <2>1
  <2>3. j < n /\ j \in 1..(n - 1)
    <3>1. j < n
      BY <1>1, <2>2 DEF Prerequisites
    <3>2. j \in Nat \ {0}
      BY DEF Ordered
    <3> QED
      BY <1>2, <3>1, <3>2
  <2> QED
    BY <1>3, <2>2, <2>3 DEF Placed
<1>6. o[n] \notin Placed(items, n)
  <2>1. \A k \in 1..(n - 1) : k \in DOMAIN items /\ k # n
    BY <1>2
  <2>2. \A k \in 1..(n - 1) : o[k] # o[n]
    BY <2>1, OrdersAreInjective
  <2> QED
    BY <1>3, <2>2 DEF Placed
<1>7. items[n].id <= o[n]
  BY <1>4, <1>5, <1>6 DEF Ordered, InCanonicalOrder, Heap
<1>8. o[n] \in Nat /\ items[n].id \in Nat
  BY <1>4 DEF Ids, Ordered
<1> QED
  BY <1>7, <1>8

\* What an item descends from comes before it.
LEMMA AncestorsFirst ==
  ASSUME NEW items, Ordered(items), NEW n \in DOMAIN items
  PROVE  Ancestors(items, items[n].id) \subseteq Placed(items, n)
<1>1. Placed(items, n) \in SUBSET Ids(items)
  BY PrerequisitesFirst
<1>2. ItemOf(items, items[n].id).deps \subseteq Placed(items, n)
  BY ItemFound, PrerequisitesFirst DEF Ordered
<1>3. ASSUME NEW f \in Placed(items, n) PROVE ItemOf(items, f).deps \subseteq Placed(items, n)
  <2>1. PICK k \in 1..(n - 1) : k \in DOMAIN items /\ items[k].id = f
    BY PrerequisitesFirst
  <2>2. ItemOf(items, f).deps \subseteq Placed(items, k)
    BY <2>1, ItemFound, PrerequisitesFirst DEF Ordered
  <2>3. 1..(k - 1) \subseteq 1..(n - 1)
    BY PrerequisitesFirst
  <2> QED
    BY <2>2, <2>3 DEF Placed
<1>4. UNION {ItemOf(items, f).deps : f \in Placed(items, n)} \subseteq Placed(items, n)
  BY <1>3
<1> QED
  BY <1>1, <1>2, <1>4 DEF Ancestors

\* What was approved is ordered.
LEMMA ApprovedIsOrdered ==
  ASSUME ProposalInv, stage = "approved"
  PROVE  /\ Ordered(proposal.items) /\ Evaluates(proposal)
         /\ InfrastructureOrdered(proposal)
<1>1. Evaluates(proposal)
  BY DEF ProposalInv
<1>2. /\ GraphValid(proposal.items) /\ InCanonicalOrder(proposal.items)
      /\ InfrastructureOrdered(proposal)
  BY <1>1 DEF Evaluates, Parses
<1>3. /\ Len(proposal.items) \in Nat /\ DOMAIN proposal.items = 1..Len(proposal.items)
      /\ \A n \in DOMAIN proposal.items : proposal.items[n].id \in Nat
  BY ProposalsAssumption DEF ProposalInv, ProposalsAssumption
<1> QED
  BY <1>1, <1>2, <1>3 DEF Ordered

LEMMA ProposalStart == PRInit => ProposalInv
<1> SUFFICES ASSUME PRInit PROVE ProposalInv
  OBVIOUS
<1>1. built = <<>> /\ DOMAIN built = {} /\ proposal \in Proposals /\ stage = "requirements"
  BY DEF PRInit
<1>2. \E S : built \in Seq(S)
  BY <1>1
<1>3. Delivered = {}
  BY <1>1 DEF Delivered
<1> QED
  BY <1>1, <1>2, <1>3 DEF ProposalInv, DeliveredInOrder, SetUpFirst

\* A role answers, or the verifier evaluates: nothing was delivered yet.
LEMMA AnswerStays ==
  ASSUME ProposalInv, UNCHANGED <<proposal, built>>, stage # "approved",
         stage' = "approved" => Evaluates(proposal)
  PROVE  ProposalInv'
<1>1. built' = <<>> /\ proposal' = proposal /\ built' = built
  BY DEF ProposalInv
<1>2. DeliveredInOrder' /\ SetUpFirst'
  BY <1>1 DEF ProposalInv, DeliveredInOrder, SetUpFirst, Delivered
<1> QED
  BY <1>1, <1>2 DEF ProposalInv

\* Whatever executable comes before the item that is taken was delivered.
LEMMA EarlierDelivered ==
  ASSUME ProposalInv, stage = "approved", NEW n \in DOMAIN proposal.items,
         \A k \in 1..(n - 1) : ~(proposal.items[k].executable /\ ReadyItem(proposal.items[k].id))
  PROVE  \A k \in 1..(n - 1) : proposal.items[k].executable => proposal.items[k].id \in Delivered
<1> DEFINE items == proposal.items
           T == {k \in 1..(n - 1) : items[k].executable /\ items[k].id \notin Delivered}
<1>1. Ordered(items)
  BY ApprovedIsOrdered
<1> SUFFICES ASSUME T # {} PROVE FALSE
  OBVIOUS
<1>2. T \in SUBSET Nat
  BY <1>1, PrerequisitesFirst
<1>3. PICK m \in T : \A k \in T : m <= k
  BY <1>2, LeastOf
<1>4. m \in DOMAIN items /\ m \in Nat /\ m \in 1..(n - 1) /\ n \in Nat
  BY <1>1, <1>3, PrerequisitesFirst
<1>5. items[m].deps \cap Executables(items) \subseteq Delivered
  <2> SUFFICES ASSUME NEW d \in items[m].deps, d \in Executables(items) PROVE d \in Delivered
    OBVIOUS
  <2>1. d \in Placed(items, m)
    BY <1>1, <1>4, PrerequisitesFirst
  <2>2. PICK j \in 1..(m - 1) : j \in DOMAIN items /\ items[j].id = d
    BY <1>1, <1>4, <2>1, PrerequisitesFirst
  <2>3. items[j].executable
    BY <1>1, <2>2, ItemFound DEF Ordered, Executables
  <2>4. j \in 1..(n - 1) /\ ~(m <= j)
    BY <1>4, <2>2
  <2> QED
    BY <1>3, <2>2, <2>3, <2>4
<1>6. ItemOf(items, items[m].id) = items[m]
  BY <1>1, <1>4, ItemFound DEF Ordered
<1>7. ReadyItem(items[m].id)
  BY <1>3, <1>5, <1>6 DEF ReadyItem
<1> QED
  BY <1>3, <1>4, <1>7

LEMMA DeliveryStays ==
  ASSUME ProposalInv, Deliver
  PROVE  ProposalInv'
<1> DEFINE items == proposal.items
<1>1. PICK n \in DOMAIN items :
         /\ items[n].executable /\ ReadyItem(items[n].id)
         /\ \A k \in 1..(n - 1) : ~(items[k].executable /\ ReadyItem(items[k].id))
         /\ built' = Append(built, items[n].id)
  BY DEF Deliver
<1>2. stage = "approved" /\ stage' = stage /\ proposal' = proposal
  BY DEF Deliver
<1>3. PICK new : new = items[n].id
  OBVIOUS
<1>4. PICK S : built \in Seq(S)
  BY DEF ProposalInv
<1>5. PICK next : next = Len(built) + 1
  OBVIOUS
<1>6. /\ built' \in Seq(S \cup {new}) /\ next \in Nat /\ DOMAIN built = 1..(next - 1)
      /\ DOMAIN built' = 1..next /\ built'[next] = new
      /\ \A k \in DOMAIN built : built'[k] = built[k]
  BY <1>1, <1>3, <1>4, <1>5
<1>7. /\ DOMAIN built' = DOMAIN built \cup {next} /\ next \notin DOMAIN built
      /\ \A k \in DOMAIN built : k \in 1..next
      /\ next \in 1..next
  <2>1. next >= 1
    BY <1>4, <1>5
  <2> QED
    BY <1>6, <2>1
<1>8. Delivered' = Delivered \cup {new}
  BY <1>6, <1>7 DEF Delivered
<1>9. Ordered(items) /\ InfrastructureOrdered(proposal) /\ Evaluates(proposal)
  BY <1>2, ApprovedIsOrdered
<1>10. /\ new \in Ids(items) /\ ItemOf(items, new) = items[n]
       /\ \A m \in DOMAIN items : items[m].id = new => m = n
  BY <1>3, <1>9, ItemFound DEF Ordered
<1>11. new \in Executables(items)
  BY <1>1, <1>10 DEF Executables
<1>12. \A k \in 1..(n - 1) : items[k].executable => items[k].id \in Delivered
  BY <1>1, <1>2, EarlierDelivered
<1>13. DeliveredInOrder'
  <2>1. Delivered' \subseteq Executables(proposal'.items)
    BY <1>2, <1>8, <1>11 DEF ProposalInv, DeliveredInOrder
  <2>2. ASSUME NEW m \in DOMAIN items, NEW k \in 1..(m - 1), items[m].id \in Delivered', items[k].executable
        PROVE  items[k].id \in Delivered'
    <3>1. CASE items[m].id \in Delivered
      BY <1>8, <2>2, <3>1 DEF ProposalInv, DeliveredInOrder
    <3>2. CASE items[m].id = new
      <4>1. m = n
        BY <1>10, <3>2
      <4> QED
        BY <1>8, <1>12, <2>2, <4>1
    <3> QED
      BY <1>8, <2>2, <3>1, <3>2
  <2> QED
    BY <1>2, <2>1, <2>2 DEF DeliveredInOrder
<1>14. ASSUME NEW name \in proposal.bootstrap, name \in items[n].needs
       PROVE  \E k \in 1..next : SetsUp(ItemOf(items, built'[k]), name)
  <2> DEFINE setups == {id \in Ids(items) : SetsUp(ItemOf(items, id), name)}
  <2>1. CASE new \in setups
    BY <1>6, <1>7, <2>1
  <2>2. CASE new \notin setups
    <3>1. new \in Executables(items) \ setups /\ name \in ItemOf(items, new).needs
      BY <1>10, <1>11, <1>14, <2>2
    <3>2. Ancestors(items, new) \cap setups # {}
      BY <1>9, <3>1 DEF InfrastructureOrdered
    <3>3. PICK a \in Ancestors(items, new) : a \in setups
      BY <3>2
    <3>4. a \in Placed(items, n)
      BY <1>3, <1>9, <3>3, AncestorsFirst
    <3>5. PICK j \in 1..(n - 1) : j \in DOMAIN items /\ items[j].id = a
      BY <1>9, <3>4, PrerequisitesFirst
    <3>6. SetsUp(ItemOf(items, a), name) /\ items[j].executable
      BY <1>9, <3>3, <3>5, ItemFound DEF Ordered, SetsUp
    <3>7. a \in Delivered
      BY <1>12, <3>5, <3>6
    <3>8. PICK k \in DOMAIN built : built[k] = a
      BY <3>7 DEF Delivered
    <3> QED
      BY <1>6, <1>7, <3>6, <3>8
  <2> QED
    BY <2>1, <2>2
<1>15. SetUpFirst'
  <2> SUFFICES ASSUME NEW m \in DOMAIN built', NEW name \in proposal.bootstrap,
                      name \in ItemOf(items, built'[m]).needs
               PROVE  \E k \in 1..m : SetsUp(ItemOf(items, built'[k]), name)
    BY <1>2 DEF SetUpFirst
  <2>1. CASE m = next
    BY <1>6, <1>10, <1>14, <2>1
  <2>2. CASE m \in DOMAIN built
    <3>1. PICK k \in 1..m : SetsUp(ItemOf(items, built[k]), name)
      BY <1>6, <2>2 DEF ProposalInv, SetUpFirst
    <3>2. k \in DOMAIN built
      BY <1>6, <2>2, <3>1
    <3> QED
      BY <1>6, <3>1, <3>2
  <2> QED
    BY <1>7, <2>1, <2>2
<1> QED
  BY <1>2, <1>6, <1>9, <1>13, <1>15 DEF ProposalInv

LEMMA ProposalStep == ProposalInv /\ [PRNext]_prvars => ProposalInv'
<1> SUFFICES ASSUME ProposalInv, [PRNext]_prvars PROVE ProposalInv'
  OBVIOUS
<1>1. CASE AnalystAnswers \/ ArchitectAnswers \/ PlannerAnswers \/ ReviewerAnswers
  BY <1>1, AnswerStays
     DEF AnalystAnswers, ArchitectAnswers, PlannerAnswers, ReviewerAnswers, Answer
<1>2. CASE VerifyProposal
  BY <1>2, AnswerStays DEF VerifyProposal
<1>3. CASE Deliver
  BY <1>3, DeliveryStays
<1>4. CASE UNCHANGED prvars
  <2>1. proposal' = proposal /\ stage' = stage /\ built' = built
    BY <1>4 DEF prvars
  <2> QED
    BY <2>1 DEF ProposalInv, DeliveredInOrder, SetUpFirst, Delivered
<1> QED
  BY <1>1, <1>2, <1>3, <1>4 DEF PRNext

\* What is left of an approved plan never waits for itself.
LEMMA SomethingIsReady ==
  ASSUME ProposalInv, stage = "approved", Delivered # Executables(proposal.items)
  PROVE  \E id \in Executables(proposal.items) : ReadyItem(id)
<1> DEFINE items == proposal.items
           waiting == Executables(items) \ Delivered
<1>1. waiting # {} /\ waiting \subseteq Ids(items)
  BY DEF ProposalInv, DeliveredInOrder, Executables
<1>2. GraphValid(items)
  BY ApprovedIsOrdered DEF Ordered
<1>3. PICK id \in waiting : Prerequisites(items, id) \cap waiting = {}
  BY <1>1, <1>2 DEF GraphValid
<1>4. ItemOf(items, id).deps \cap Executables(items) \subseteq Delivered
  BY <1>3 DEF Prerequisites
<1> QED
  BY <1>3, <1>4 DEF ReadyItem

\* A plan that people are asked to approve can be carried out as it stands, for any
\* documents the roles come up with: its items are in the least order that respects
\* dependencies and parents, every requirement has work behind it, something is ready
\* until all is done, and nothing is built before what it needs was set up
\* (AutonomousProposalVerifier.evaluate, prepare_next_child).
THEOREM ApprovalCanBeBuilt == PRSpec => []ApprovedCanBeBuilt
<1>1. ProposalInv => ApprovedCanBeBuilt
  <2> SUFFICES ASSUME ProposalInv, stage = "approved" PROVE ApprovedCanBeBuilt
    BY DEF ApprovedCanBeBuilt
  <2>1. Ordered(proposal.items) /\ Evaluates(proposal)
    BY ApprovedIsOrdered
  <2>2. /\ [n \in DOMAIN proposal.items |-> proposal.items[n].id] \in Orders(proposal.items)
        /\ \A o \in Orders(proposal.items) :
              ~Before(o, [n \in DOMAIN proposal.items |-> proposal.items[n].id])
    BY <2>1, CanonicalIsAnOrder, CanonicalIsLeast
  <2>3. \A r \in proposal.ids :
           \E id \in Executables(proposal.items) : r \in ItemOf(proposal.items, id).refs
    BY <2>1 DEF Evaluates
  <2>4. Delivered # Executables(proposal.items) =>
           \E id \in Executables(proposal.items) : ReadyItem(id)
    BY SomethingIsReady
  <2>5. SetUpFirst
    BY DEF ProposalInv
  <2> QED
    BY <2>2, <2>3, <2>4, <2>5 DEF ApprovedCanBeBuilt, SetUpFirst
<1> QED
  BY <1>1, ProposalStart, ProposalStep, PTL DEF PRSpec
=============================================================================
