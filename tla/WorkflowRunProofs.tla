-------------------------- MODULE WorkflowRunProofs --------------------------
(***************************************************************************)
(* The safety of workflow runs for any number of work items, runs, stages  *)
(* and callers, and any dependencies between the stages; and of the chain  *)
(* of parent runs of an autonomous mission, for any commands, plans and    *)
(* rollovers.                                                              *)
(***************************************************************************)
EXTENDS WorkflowRun, MissionRuns, MissionDelivery, WellFoundedInduction, TLAPS

LEMMA RunIds == \A r \in Runs : r \in Nat /\ r # 0
  BY WorkflowAssumption

LEMMA StageKeys == \A k \in Stages : k \in Keys /\ k # "workflow"
  BY WorkflowAssumption DEF Keys

LEMMA StartSucceeds == Init => IInv
<1> SUFFICES ASSUME Init PROVE IInv
  OBVIOUS
<1>1. TypeOK
  BY RunIds, WorkflowAssumption DEF Init, TypeOK, Reads
<1>2. SlotHeldByActive
  BY RunIds, WorkflowAssumption DEF Init, SlotHeldByActive, Active
<1>3. CheckpointsTellStages
  BY StageKeys DEF Init, CheckpointsTellStages
<1>4. DependenciesSucceeded
  BY StageKeys DEF Init, DependenciesSucceeded
<1>5. GateFollowsRun
  BY DEF Init, GateFollowsRun
<1>6. ReadsHold
  BY DEF Init, ReadsHold
<1>7. RowsExist
  BY WorkflowAssumption DEF Init, RowsExist
<1> QED
  BY <1>1, <1>2, <1>3, <1>4, <1>5, <1>6, <1>7 DEF IInv

-----------------------------------------------------------------------------
\* Steps that touch no table of a run.
LEMMA Elsewhere ==
    ASSUME IInv, UNCHANGED <<run, slot, stages, held, gate, reading>>,
           stop' \in BOOLEAN, cleared' \in SUBSET (Slots \X Kinds)
    PROVE  IInv'
  BY DEF IInv, stages, TypeOK, SlotHeldByActive, Active, CheckpointsTellStages, NewestOf,
         DependenciesSucceeded, GateFollowsRun, ReadsHold, Ready, RowsExist

LEMMA StartRunKeepsIInv ==
    ASSUME IInv, NEW r \in Runs, NEW s \in Slots, NEW kind \in Kinds, StartRun(r, s, kind)
    PROVE  IInv'
<1> USE RunIds, StageKeys, WorkflowAssumption
<1>1. /\ run[r] = "absent" /\ slot[r] = "none" /\ gate[r] = "none" /\ log[r] = {} /\ seq[r] = 0
      /\ \A k \in Keys : stage[r][k] = "none"
  BY DEF IInv, RowsExist, StartRun, Fresh
<1>2. \A q \in Runs : /\ q # r => run'[q] = run[q] /\ slot'[q] = slot[q] /\ stage'[q] = stage[q]
                      /\ q = r => run'[q] = "running" /\ slot'[q] = s
  BY DEF IInv, TypeOK, StartRun
<1>3. /\ \A k \in Keys : stage'[r][k] \in {"none", "pending", "running"}
      /\ \A k \in Stages : stage'[r][k] \in {"none", "pending"}
  BY DEF IInv, TypeOK, StartRun
<1>4. TypeOK'
  BY DEF IInv, TypeOK, StartRun
<1>5. SlotHeldByActive'
  BY <1>1, <1>2 DEF IInv, TypeOK, SlotHeldByActive, Active, StartRun
<1>6. CheckpointsTellStages'
  BY <1>1, <1>2, <1>3 DEF IInv, TypeOK, CheckpointsTellStages, NewestOf, StartRun
<1>7. DependenciesSucceeded'
  BY <1>1, <1>2, <1>3 DEF IInv, TypeOK, DependenciesSucceeded, StartRun
<1>8. GateFollowsRun'
  BY <1>1, <1>2 DEF IInv, GateFollowsRun, StartRun
<1>9. ReadsHold'
  <2> SUFFICES ASSUME NEW c \in Callers, reading[c].run # 0
               PROVE  /\ reading[c].number <= seq[reading[c].run] + 1
                      /\ <<reading[c].source, reading[c].target>> \in StageMoves
                      /\ reading[c].target = "running" => Ready(reading[c].run, reading[c].key)'
    BY DEF StartRun, ReadsHold
  <2>1. reading[c].run \in Runs /\ reading[c].key \in Keys
    BY DEF IInv, TypeOK, Reads
  <2>2. CASE reading[c].run = r
    BY <2>1, <2>2, <1>1 DEF IInv, ReadsHold, Ready, StartRun
  <2>3. CASE reading[c].run # r
    BY <2>1, <2>3, <1>2 DEF IInv, ReadsHold, Ready, StartRun
  <2> QED
    BY <2>2, <2>3
<1>10. RowsExist'
  BY <1>1, <1>2, <1>3 DEF IInv, TypeOK, RowsExist, StartRun
<1> QED
  BY <1>4, <1>5, <1>6, <1>7, <1>8, <1>9, <1>10 DEF IInv

-----------------------------------------------------------------------------
LEMMA ReadStageKeepsIInv ==
    ASSUME IInv, NEW c \in Callers, NEW r \in Runs, NEW k \in Keys, NEW target,
           ReadStage(c, r, k, target)
    PROVE  IInv'
<1> USE RunIds, StageKeys
<1>1. /\ stage[r][k] \in {"pending", "running", "waiting_approval", "failed"}
      /\ target \in {"pending", "running", "waiting_approval", "succeeded", "failed"}
  BY DEF ReadStage, StageMoves
<1>2. TypeOK'
  BY <1>1 DEF IInv, TypeOK, ReadStage, Reads, stages
<1>3. ReadsHold'
  <2> SUFFICES ASSUME NEW d \in Callers, reading'[d].run # 0
               PROVE  /\ reading'[d].number <= seq[reading'[d].run] + 1
                      /\ <<reading'[d].source, reading'[d].target>> \in StageMoves
                      /\ reading'[d].target = "running" =>
                            Ready(reading'[d].run, reading'[d].key)
    BY DEF ReadStage, ReadsHold, Ready, stages
  <2>1. CASE d = c
    BY <2>1 DEF IInv, TypeOK, ReadStage
  <2>2. CASE d # c
    BY <2>2 DEF IInv, TypeOK, ReadStage, ReadsHold
  <2> QED
    BY <2>1, <2>2
<1>4. /\ SlotHeldByActive' /\ CheckpointsTellStages' /\ DependenciesSucceeded'
      /\ GateFollowsRun' /\ RowsExist'
  BY DEF IInv, ReadStage, stages, SlotHeldByActive, Active, CheckpointsTellStages, NewestOf,
         DependenciesSucceeded, GateFollowsRun, RowsExist
<1> QED
  BY <1>2, <1>3, <1>4 DEF IInv

LEMMA WriteStageFailsKeepsIInv ==
    ASSUME IInv, NEW c \in Callers, WriteStageFails(c)
    PROVE  IInv'
<1>1. TypeOK'
  BY DEF IInv, TypeOK, WriteStageFails, Reads, stages
<1>2. ReadsHold'
  BY DEF IInv, TypeOK, WriteStageFails, ReadsHold, Ready, stages
<1>3. /\ SlotHeldByActive' /\ CheckpointsTellStages' /\ DependenciesSucceeded'
      /\ GateFollowsRun' /\ RowsExist'
  BY DEF IInv, WriteStageFails, stages, SlotHeldByActive, Active, CheckpointsTellStages,
         NewestOf, DependenciesSucceeded, GateFollowsRun, RowsExist
<1> QED
  BY <1>1, <1>2, <1>3 DEF IInv

\* A stage that succeeded never changes, so what a caller read stays true; and
\* the number it read is free only if it is still the next one.
LEMMA WriteStageKeepsIInv ==
    ASSUME IInv, NEW c \in Callers, WriteStage(c)
    PROVE  IInv'
<1> USE RunIds, StageKeys
<1>0. PICK r \in Runs, k \in Keys, n \in Nat \ {0},
            target \in {"pending", "running", "waiting_approval", "succeeded", "failed"} :
         /\ reading[c].run = r /\ reading[c].key = k /\ reading[c].number = n
         /\ reading[c].target = target
  BY DEF IInv, TypeOK, Reads, WriteStage
<1>1. /\ stage[r][k] = reading[c].source
      /\ stage[r][k] \in {"pending", "running", "waiting_approval", "failed"}
      /\ <<stage[r][k], target>> \in StageMoves
      /\ target = "running" => Ready(r, k)
      /\ n <= seq[r] + 1
  BY <1>0 DEF IInv, TypeOK, Reads, ReadsHold, WriteStage, Current
<1> DEFINE new == [number |-> n, key |-> k, state |-> target]
<1>2. n = seq[r] + 1
  <2>1. n \notin {d.number : d \in log[r]}
    BY <1>0 DEF WriteStage, Current
  <2>2. n \notin 1..seq[r] /\ seq[r] \in Nat
    BY <2>1, <1>1 DEF IInv, TypeOK, CheckpointsTellStages
  <2> QED
    BY <2>2, <1>1
<1>3. /\ \A q \in Runs : q # r => stage'[q] = stage[q] /\ log'[q] = log[q] /\ seq'[q] = seq[q]
      /\ \A j \in Keys : stage'[r][j] = IF j = k THEN target ELSE stage[r][j]
      /\ log'[r] = log[r] \cup {new}
      /\ seq'[r] = n
      /\ run' = run /\ slot' = slot /\ gate' = gate
  BY <1>0, <1>1 DEF IInv, TypeOK, WriteStage
<1>4. \A q \in Runs, j \in Keys : stage[q][j] = "succeeded" => stage'[q][j] = "succeeded"
  <2> SUFFICES ASSUME NEW q \in Runs, NEW j \in Keys, stage[q][j] = "succeeded"
               PROVE  stage'[q][j] = "succeeded"
    OBVIOUS
  <2>1. CASE q = r
    BY <2>1, <1>1, <1>3
  <2>2. CASE q # r
    BY <2>2, <1>3
  <2> QED
    BY <2>1, <2>2
<1>5. new \in Checkpoints
  BY <1>1, <1>3 DEF Checkpoints
<1>6. TypeOK'
  <2>1. stage' \in [Runs -> [Keys -> {"none", "pending", "running",
                                      "waiting_approval", "succeeded", "failed"}]]
    BY <1>0, <1>1 DEF IInv, TypeOK, WriteStage
  <2>2. seq' \in [Runs -> Nat]
    BY <1>0, <1>1 DEF IInv, TypeOK, WriteStage
  <2>3. log' \in [Runs -> SUBSET Checkpoints]
    BY <1>0, <1>3, <1>5 DEF IInv, TypeOK, WriteStage
  <2>4. reading' \in [Callers -> Reads]
    BY DEF IInv, TypeOK, WriteStage, Reads
  <2> QED
    BY <2>1, <2>2, <2>3, <2>4 DEF IInv, TypeOK, WriteStage
<1>7. SlotHeldByActive' /\ GateFollowsRun'
  BY DEF IInv, SlotHeldByActive, Active, GateFollowsRun, WriteStage
<1>8. CheckpointsTellStages'
  <2> SUFFICES ASSUME NEW q \in Runs
               PROVE  /\ {d.number : d \in log'[q]} = 1..seq'[q]
                      /\ \A d, e \in log'[q] : d.number = e.number => d = e
                      /\ \A j \in Stages :
                            \/ /\ stage'[q][j] \in {"none", "pending"}
                               /\ \A d \in log'[q] : d.key # j
                            \/ \E d \in log'[q] : NewestOf(q, j, d)' /\ d.state = stage'[q][j]
    BY DEF CheckpointsTellStages
  <2>1. CASE q # r
    BY <2>1, <1>3 DEF IInv, CheckpointsTellStages, NewestOf
  <2>2. CASE q = r
    <3>1. /\ {d.number : d \in log[r]} = 1..seq[r]
          /\ \A d, e \in log[r] : d.number = e.number => d = e
          /\ seq[r] \in Nat
      BY <1>1 DEF IInv, TypeOK, CheckpointsTellStages
    <3>2. \A d \in log[r] : d.number \in 1..seq[r]
      BY <3>1
    <3>3. {d.number : d \in log'[r]} = 1..seq'[r]
      <4>1. {d.number : d \in log'[r]} = {d.number : d \in log[r]} \cup {n}
        <5>1. log'[r] = log[r] \cup {new} /\ new.number = n
          BY <1>3
        <5> HIDE DEF new
        <5> QED
          BY <5>1
      <4> QED
        BY <4>1, <3>1, <1>2, <1>3
    <3>4. \A d, e \in log'[r] : d.number = e.number => d = e
      BY <3>1, <3>2, <1>2, <1>3
    <3>5. ASSUME NEW j \in Stages
          PROVE  \/ /\ stage'[r][j] \in {"none", "pending"}
                    /\ \A d \in log'[r] : d.key # j
                 \/ \E d \in log'[r] : NewestOf(r, j, d)' /\ d.state = stage'[r][j]
      <4>1. CASE j = k
        <5>1. NewestOf(r, j, new)'
          <6>1. \A d \in log'[r] : d.key = j => d.number <= new.number
            BY <3>1, <3>2, <1>1, <1>2, <1>3
          <6> QED
            BY <6>1, <4>1, <1>3 DEF NewestOf
        <5>2. new \in log'[r] /\ new.state = stage'[r][j]
          BY <4>1, <1>3
        <5> QED
          BY <5>1, <5>2
      <4>2. CASE j # k
        <5>1. stage'[r][j] = stage[r][j] /\ new.key # j
          BY <4>2, <1>3
        <5>2. CASE stage[r][j] \in {"none", "pending"} /\ \A d \in log[r] : d.key # j
          BY <5>1, <5>2, <1>3
        <5>3. CASE \E d \in log[r] : NewestOf(r, j, d) /\ d.state = stage[r][j]
          BY <5>1, <5>3, <1>3 DEF NewestOf
        <5> QED
          BY <5>2, <5>3, <1>1 DEF IInv, CheckpointsTellStages
      <4> QED
        BY <4>1, <4>2
    <3> QED
      BY <2>2, <3>3, <3>4, <3>5
  <2> QED
    BY <2>1, <2>2
<1>9. DependenciesSucceeded'
  <2> SUFFICES ASSUME NEW q \in Runs, NEW j \in Stages,
                      stage'[q][j] \in {"running", "waiting_approval", "succeeded"},
                      NEW d \in StageDeps[j]
               PROVE  stage'[q][d] = "succeeded"
    BY DEF DependenciesSucceeded, WriteStage
  <2>1. d \in Keys
    BY WorkflowAssumption
  <2>2. stage[q][d] = "succeeded"
    <3>1. CASE q = r /\ j = k
      <4>1. CASE target = "running"
        BY <3>1, <4>1, <1>1 DEF Ready
      <4>2. CASE target # "running"
        <5>1. stage[r][k] \in {"running", "waiting_approval"}
          BY <3>1, <4>2, <1>1, <1>3 DEF StageMoves
        <5> QED
          BY <5>1, <3>1 DEF IInv, DependenciesSucceeded
      <4> QED
        BY <4>1, <4>2
    <3>2. CASE ~(q = r /\ j = k)
      BY <3>2, <1>3 DEF IInv, DependenciesSucceeded
    <3> QED
      BY <3>1, <3>2
  <2> QED
    BY <2>1, <2>2, <1>3, <1>4
<1>10. ReadsHold'
  <2> SUFFICES ASSUME NEW d \in Callers, reading'[d].run # 0
               PROVE  /\ reading'[d].number <= seq'[reading'[d].run] + 1
                      /\ <<reading'[d].source, reading'[d].target>> \in StageMoves
                      /\ reading'[d].target = "running" =>
                            Ready(reading[d].run, reading[d].key)'
    BY DEF ReadsHold
  <2>1. d # c /\ reading'[d] = reading[d]
    BY <1>0 DEF IInv, TypeOK, WriteStage
  <2>2. PICK q \in Runs, j \in Keys, m \in Nat \ {0} :
           reading[d].run = q /\ reading[d].key = j /\ reading[d].number = m
    BY <2>1 DEF IInv, TypeOK, Reads
  <2>3. /\ m <= seq[q] + 1
        /\ <<reading[d].source, reading[d].target>> \in StageMoves
        /\ reading[d].target = "running" => Ready(q, j)
    BY <2>1, <2>2 DEF IInv, ReadsHold
  <2>4. seq[q] <= seq'[q] /\ seq[q] \in Nat /\ seq'[q] \in Nat
    BY <1>2, <1>3 DEF IInv, TypeOK
  <2>5. Ready(q, j) => Ready(q, j)'
    BY <1>4, StageKeys, WorkflowAssumption DEF Ready
  <2> QED
    BY <2>1, <2>2, <2>3, <2>4, <2>5
<1>11. RowsExist'
  <2>1. \A q \in Runs : run'[q] = run[q] /\ slot'[q] = slot[q] /\ gate'[q] = gate[q]
    BY DEF WriteStage
  <2>2. run[r] # "absent"
    BY <1>1 DEF IInv, RowsExist
  <2>3. \A j \in Keys : stage'[r][j] = "none" => \A d \in log'[r] : d.key # j
    BY <1>1, <1>3 DEF IInv, RowsExist
  <2> QED
    BY <2>1, <2>2, <2>3, <1>3 DEF IInv, RowsExist
<1> QED
  BY <1>6, <1>7, <1>8, <1>9, <1>10, <1>11 DEF IInv

-----------------------------------------------------------------------------
\* A run ends or waits for approval: whoever shares its slot inherits the claim.
LEMMA TransitionKeepsClaims ==
    ASSUME IInv, NEW r \in Runs,
           NEW target \in {"awaiting_approval", "approved", "rejected", "failed"},
           TransitionRun(r, target)
    PROVE  held' \in [Slots -> Runs \cup {0}] /\ SlotHeldByActive'
<1> USE RunIds
<1>1. /\ \A q \in Runs : run'[q] = IF q = r THEN target ELSE run[q]
      /\ slot' = slot
      /\ run[r] \in {"running", "awaiting_approval"}
  BY DEF IInv, TypeOK, TransitionRun, RunMoves
<1>2. slot[r] \in Slots /\ held[slot[r]] \in Runs \cup {0}
  BY <1>1 DEF IInv, TypeOK, SlotHeldByActive, Active
<1>3. CASE Ended(target)
  <2>1. PICK heir \in Heirs(r) : held' = [held EXCEPT ![slot[r]] = heir]
    BY <1>3 DEF TransitionRun
  <2> DEFINE others == {q \in Runs \ {r} : Active(q) /\ slot[q] = slot[r]}
  <2>2. \/ heir \in others
        \/ heir = 0 /\ others = {}
    <3>1. heir # 0 => heir \in others
      BY <1>2, RunIds DEF Heirs, IInv, SlotHeldByActive
    <3>2. heir = 0 => others = {}
      BY <1>2, RunIds DEF Heirs
    <3> QED
      BY <3>1, <3>2
  <2>3. \A s \in Slots : held'[s] = IF s = slot[r] THEN heir ELSE held[s]
    BY <2>1 DEF IInv, TypeOK
  <2>4. held' \in [Slots -> Runs \cup {0}]
    BY <2>1, <2>2 DEF IInv, TypeOK
  <2>5. ASSUME NEW s \in Slots, NEW q \in Runs, held'[s] = q
        PROVE  Active(q)' /\ slot[q] = s
    <3>0. q # 0
      BY RunIds
    <3>1. CASE s = slot[r]
      <4>1. q \in others
        BY <3>0, <3>1, <2>2, <2>3, <2>5
      <4> QED
        BY <4>1, <3>1, <1>1 DEF Active
    <3>2. CASE s # slot[r]
      <4>1. held[s] = q /\ Active(q) /\ slot[q] = s
        BY <3>0, <3>2, <2>3, <2>5 DEF IInv, SlotHeldByActive
      <4> QED
        BY <4>1, <3>2, <1>1 DEF Active
    <3> QED
      BY <3>1, <3>2
  <2>6. ASSUME NEW q \in Runs, Active(q)'
        PROVE  slot[q] \in Slots /\ held'[slot[q]] # 0
    <3>1. q # r /\ Active(q)
      BY <2>6, <1>1, <1>3 DEF Active, Ended
    <3>2. slot[q] \in Slots /\ held[slot[q]] # 0
      BY <3>1 DEF IInv, SlotHeldByActive
    <3>3. CASE slot[q] = slot[r]
      BY <3>1, <3>2, <3>3, <2>2, <2>3
    <3>4. CASE slot[q] # slot[r]
      BY <3>2, <3>4, <2>3
    <3> QED
      BY <3>3, <3>4
  <2>7. ASSUME NEW s \in Slots, held'[s] # 0
        PROVE  run'[held'[s]] \in {"running", "awaiting_approval"} /\ slot'[held'[s]] = s
    <3>1. PICK q \in Runs : held'[s] = q
      BY <2>4, <2>7
    <3>2. run'[q] \in {"running", "awaiting_approval"} /\ slot'[q] = s
      BY <3>1, <2>5, <1>1 DEF Active
    <3> QED
      BY <3>1, <3>2
  <2>8. \A q \in Runs : run'[q] \in {"running", "awaiting_approval"} =>
           slot'[q] \in Slots /\ held'[slot'[q]] # 0
    BY <2>6, <1>1 DEF Active
  <2> QED
    BY <2>4, <2>7, <2>8 DEF SlotHeldByActive, Active
<1>4. CASE ~Ended(target)
  BY <1>4, <1>1 DEF TransitionRun, IInv, TypeOK, SlotHeldByActive, Active, Ended
<1> QED
  BY <1>3, <1>4

LEMMA TransitionKeepsIInv ==
    ASSUME IInv, NEW r \in Runs,
           NEW target \in {"awaiting_approval", "approved", "rejected", "failed"},
           TransitionRun(r, target),
           gate' \in [Runs -> {"none", "pending", "approved", "rejected"}],
           \A q \in Runs \ {r} : gate'[q] = gate[q],
           GateFollowsRun'
    PROVE  IInv'
<1> USE RunIds, StageKeys
<1>1. /\ \A q \in Runs : run'[q] = IF q = r THEN target ELSE run[q]
      /\ slot' = slot /\ seq' = seq /\ log' = log /\ reading' = reading
      /\ stop' = stop /\ cleared' = cleared
      /\ run[r] \in {"running", "awaiting_approval"}
  BY DEF IInv, TypeOK, TransitionRun, RunMoves
<1>2. stage' = stage \/ /\ stage[r]["workflow"] # "none"
                        /\ StageOf(target) \in {"waiting_approval", "succeeded", "failed"}
                        /\ stage' = [stage EXCEPT ![r]["workflow"] = StageOf(target)]
  BY DEF TransitionRun, StageOf
<1>3. /\ stage' \in [Runs -> [Keys -> {"none", "pending", "running",
                                       "waiting_approval", "succeeded", "failed"}]]
      /\ \A q \in Runs, k \in Stages : stage'[q][k] = stage[q][k]
      /\ \A q \in Runs, k \in Keys : (stage'[q][k] = "none") <=> (stage[q][k] = "none")
  <2>1. "workflow" \in Keys
    BY DEF Keys
  <2> HIDE DEF Keys
  <2>2. CASE stage' = stage
    BY <2>2 DEF IInv, TypeOK
  <2>3. CASE stage' # stage
    <3> DEFINE new == StageOf(target)
    <3>1. /\ stage[r]["workflow"] # "none"
          /\ new \in {"waiting_approval", "succeeded", "failed"}
          /\ stage' = [stage EXCEPT ![r]["workflow"] = new]
      BY <2>3, <1>2
    <3> HIDE DEF new
    <3>2. /\ \A q \in Runs : q # r => stage'[q] = stage[q]
          /\ \A k \in Keys : stage'[r][k] = IF k = "workflow" THEN new ELSE stage[r][k]
      BY <2>1, <3>1 DEF IInv, TypeOK
    <3>3. stage' \in [Runs -> [Keys -> {"none", "pending", "running",
                                       "waiting_approval", "succeeded", "failed"}]]
      BY <2>1, <3>1 DEF IInv, TypeOK
    <3> QED
      BY <3>1, <3>2, <3>3
  <2> QED
    BY <2>2, <2>3
<1>4. TypeOK'
  <2>1. run' \in [Runs -> {"absent", "running", "awaiting_approval",
                           "approved", "rejected", "failed"}]
    BY DEF IInv, TypeOK, TransitionRun
  <2> QED
    BY <2>1, <1>1, <1>3, TransitionKeepsClaims DEF IInv, TypeOK
<1>5. CheckpointsTellStages'
  BY <1>1, <1>3 DEF IInv, CheckpointsTellStages, NewestOf
<1>6. DependenciesSucceeded'
  BY <1>3, WorkflowAssumption DEF IInv, DependenciesSucceeded
<1>7. ReadsHold'
  <2>1. ASSUME NEW q \in Runs, NEW k \in Keys PROVE Ready(q, k) => Ready(q, k)'
    BY <2>1, <1>3, WorkflowAssumption DEF Ready
  <2>2. ASSUME NEW c \in Callers, reading[c].run # 0
        PROVE  reading[c].run \in Runs /\ reading[c].key \in Keys
    BY <2>2 DEF IInv, TypeOK, Reads
  <2> SUFFICES ASSUME NEW c \in Callers, reading[c].run # 0
               PROVE  /\ reading[c].number <= seq[reading[c].run] + 1
                      /\ <<reading[c].source, reading[c].target>> \in StageMoves
                      /\ reading[c].target = "running" =>
                            Ready(reading[c].run, reading[c].key)'
    BY <1>1 DEF ReadsHold
  <2>3. PICK q \in Runs, k \in Keys : reading[c].run = q /\ reading[c].key = k
    BY <2>2
  <2>4. Ready(q, k) => Ready(q, k)'
    BY <2>1
  <2> QED
    BY <2>3, <2>4, <1>1 DEF IInv, ReadsHold
<1>8. RowsExist'
  BY <1>1, <1>3 DEF IInv, RowsExist
<1> QED
  BY <1>4, <1>5, <1>6, <1>7, <1>8, TransitionKeepsClaims DEF IInv

LEMMA FinishRunKeepsIInv ==
    ASSUME IInv, NEW r \in Runs, NEW target \in {"awaiting_approval", "approved", "failed"},
           FinishRun(r, target)
    PROVE  IInv'
<1>1. GateFollowsRun'
  BY DEF FinishRun, TransitionRun, RunMoves, IInv, TypeOK, GateFollowsRun
<1> QED
  BY <1>1, TransitionKeepsIInv DEF FinishRun, IInv, TypeOK

LEMMA CreateApprovalGateKeepsIInv ==
    ASSUME IInv, NEW r \in Runs, CreateApprovalGate(r)
    PROVE  IInv'
<1>1. GateFollowsRun'
  BY DEF CreateApprovalGate, TransitionRun, RunMoves, IInv, TypeOK, GateFollowsRun
<1>2. /\ gate' \in [Runs -> {"none", "pending", "approved", "rejected"}]
      /\ \A q \in Runs \ {r} : gate'[q] = gate[q]
  BY DEF CreateApprovalGate, IInv, TypeOK
<1> QED
  BY <1>1, <1>2, TransitionKeepsIInv DEF CreateApprovalGate

LEMMA DecideApprovalKeepsIInv ==
    ASSUME IInv, NEW r \in Runs, NEW decision \in {"approved", "rejected"},
           DecideApproval(r, decision)
    PROVE  IInv'
<1>1. GateFollowsRun'
  BY DEF DecideApproval, TransitionRun, RunMoves, IInv, TypeOK, GateFollowsRun
<1>2. /\ gate' \in [Runs -> {"none", "pending", "approved", "rejected"}]
      /\ \A q \in Runs \ {r} : gate'[q] = gate[q]
  BY DEF DecideApproval, IInv, TypeOK
<1> QED
  BY <1>1, <1>2, TransitionKeepsIInv DEF DecideApproval

-----------------------------------------------------------------------------
LEMMA NextKeepsIInv == IInv /\ [Next]_vars => IInv'
<1> SUFFICES ASSUME IInv, [Next]_vars PROVE IInv'
  OBVIOUS
<1>1. ASSUME UNCHANGED <<run, slot, stages, held, gate, reading>>,
             stop' \in BOOLEAN, cleared' \in SUBSET (Slots \X Kinds)
      PROVE  IInv'
  BY <1>1, Elsewhere
<1>2. stop \in BOOLEAN /\ cleared \in SUBSET (Slots \X Kinds)
  BY DEF IInv, TypeOK
<1>3. CASE SetEmergencyStop
  BY <1>1, <1>2, <1>3 DEF SetEmergencyStop
<1>4. ASSUME NEW s \in Slots, NEW kind \in Kinds, AssertDispatchAllowed(s, kind)
      PROVE  IInv'
  BY <1>1, <1>2, <1>4 DEF AssertDispatchAllowed
<1>5. ASSUME NEW s \in Slots, NEW kind \in Kinds, StartRefused(s, kind)
      PROVE  IInv'
  BY <1>1, <1>2, <1>5 DEF StartRefused
<1>6. CASE UNCHANGED vars
  BY <1>1, <1>2, <1>6 DEF vars, stages
<1> QED
  BY <1>3, <1>4, <1>5, <1>6, StartRunKeepsIInv, ReadStageKeepsIInv, WriteStageKeepsIInv,
     WriteStageFailsKeepsIInv, FinishRunKeepsIInv, CreateApprovalGateKeepsIInv,
     DecideApprovalKeepsIInv
  DEF Next

\* The inductive invariant holds for every configuration of the constants.
THEOREM Inductive == Spec => []IInv
<1> QED
  BY StartSucceeds, NextKeepsIInv, PTL DEF Spec

\* Every column keeps its type.
THEOREM TypeCorrect == Spec => []TypeOK
<1>1. IInv => TypeOK
  BY DEF IInv
<1> QED
  BY <1>1, Inductive, PTL

\* A slot is claimed exactly as long as one of its runs is active.
THEOREM ClaimsHold == Spec => []SlotHeldByActive
<1>1. IInv => SlotHeldByActive
  BY DEF IInv
<1> QED
  BY <1>1, Inductive, PTL

\* The checkpoint log is gapless and tells every stage's status.
THEOREM LogTellsStages == Spec => []CheckpointsTellStages
<1>1. IInv => CheckpointsTellStages
  BY DEF IInv
<1> QED
  BY <1>1, Inductive, PTL

\* No stage overtakes what it depends on.
THEOREM NoStageOvertakes == Spec => []DependenciesSucceeded
<1>1. IInv => DependenciesSucceeded
  BY DEF IInv
<1> QED
  BY <1>1, Inductive, PTL

\* An approval gate and its run never disagree.
THEOREM GatesFollow == Spec => []GateFollowsRun
<1>1. IInv => GateFollowsRun
  BY DEF IInv
<1> QED
  BY <1>1, Inductive, PTL

-----------------------------------------------------------------------------
\* The only step that makes a run of an absent row claims an unclaimed slot.
LEMMA OnlyStartsAdd ==
    ASSUME IInv, [Next]_vars, NEW r \in Runs, run[r] = "absent", run'[r] # "absent"
    PROVE  \E s \in Slots, kind \in Kinds : StartRun(r, s, kind)
<1>1. ASSUME NEW q \in Runs, NEW target, TransitionRun(q, target)
      PROVE  FALSE
  BY <1>1 DEF TransitionRun, RunMoves, IInv, TypeOK
<1>2. ASSUME NEW q \in Runs, NEW s \in Slots, NEW kind \in Kinds, StartRun(q, s, kind)
      PROVE  q = r
  BY <1>2 DEF StartRun, IInv, TypeOK
<1>3. run' # run
  OBVIOUS
<1> QED
  BY <1>1, <1>2, <1>3
  DEF Next, vars, SetEmergencyStop, AssertDispatchAllowed, StartRefused, ReadStage,
      WriteStage, WriteStageFails, FinishRun, CreateApprovalGate, DecideApproval

\* A run never joins an active run of its slot.
THEOREM NoRunJoins == Spec => OneRunPerSlot
<1> DEFINE Alone == \A r, q \in Runs : run[r] = "absent" /\ run'[r] # "absent" =>
                       ~(Active(q) /\ slot[q] = slot'[r])
<1>1. IInv /\ [Next]_vars => Alone
  <2> SUFFICES ASSUME IInv, [Next]_vars, NEW r \in Runs, NEW q \in Runs,
                      run[r] = "absent", run'[r] # "absent", Active(q)
               PROVE  slot[q] # slot'[r]
    OBVIOUS
  <2>1. PICK s \in Slots, kind \in Kinds : StartRun(r, s, kind)
    BY OnlyStartsAdd
  <2>2. held[s] = 0 /\ slot'[r] = s
    BY <2>1 DEF StartRun, IInv, TypeOK
  <2> QED
    BY <2>2 DEF IInv, SlotHeldByActive
<1> HIDE DEF Alone
<1>2. Spec => [][Alone]_vars
  BY <1>1, Inductive, PTL DEF Spec
<1> QED
  BY <1>2 DEF Alone, OneRunPerSlot

-----------------------------------------------------------------------------
Users == [s \in Slots |-> {r \in Runs : Active(r) /\ slot[r] = s}]
EndedRuns == {r \in Runs : Ended(run[r])}

\* Steps that end no run and start none.
LEMMA StutterRefines ==
    ASSUME slot' = slot,
           \A q \in Runs : /\ Active(q)' <=> Active(q)
                           /\ Ended(run[q])' <=> Ended(run[q])
    PROVE  Users' = Users /\ EndedRuns' = EndedRuns
  BY DEF Users, EndedRuns, Active, Ended

LEMMA StartRefines ==
    ASSUME IInv, NEW r \in Runs, NEW s \in Slots, NEW kind \in Kinds, StartRun(r, s, kind)
    PROVE  Use!Next
<1>1. /\ \A q \in Runs : /\ run'[q] = IF q = r THEN "running" ELSE run[q]
                         /\ slot'[q] = IF q = r THEN s ELSE slot[q]
      /\ run[r] = "absent" /\ held[s] = 0
  BY DEF StartRun, Fresh, IInv, TypeOK
<1>2. \A q \in Runs : /\ Active(q)' <=> (q = r \/ Active(q))
                      /\ Ended(run[q])' <=> Ended(run[q])
  BY <1>1 DEF Active, Ended
<1>3. ~Active(r) /\ ~Ended(run[r]) /\ \A q \in Runs : Active(q) => slot[q] # s
  BY <1>1 DEF Active, Ended, IInv, SlotHeldByActive
<1>4. Users[s] = {} /\ r \notin EndedRuns /\ EndedRuns' = EndedRuns
  BY <1>2, <1>3 DEF Users, EndedRuns, Active, Ended
<1>5. Users' = [Users EXCEPT ![s] = {r}]
  <2>1. \A p \in Slots : {q \in Runs : Active(q)' /\ slot'[q] = p}
                       = IF p = s THEN {r} ELSE {q \in Runs : Active(q) /\ slot[q] = p}
    BY <1>1, <1>2, <1>3 DEF Active
  <2>2. \A p \in Slots : Users'[p] = IF p = s THEN {r} ELSE Users[p]
    BY <2>1 DEF Users
  <2>3. /\ Users = [p \in Slots |-> Users[p]]
        /\ Users' = [p \in Slots |-> Users'[p]]
    BY DEF Users
  <2> QED
    BY <2>2, <2>3
<1>6. Use!Start(s, r)
  BY <1>4, <1>5 DEF Use!Start, Users, EndedRuns
<1> QED
  BY <1>6, Zenon DEF Use!Next

LEMMA TransitionRefines ==
    ASSUME IInv, NEW r \in Runs,
           NEW target \in {"awaiting_approval", "approved", "rejected", "failed"},
           TransitionRun(r, target)
    PROVE  [Use!Next]_Use!vars
<1>1. /\ \A q \in Runs : run'[q] = IF q = r THEN target ELSE run[q]
      /\ slot' = slot
      /\ run[r] \in {"running", "awaiting_approval"}
  BY DEF TransitionRun, RunMoves, IInv, TypeOK
<1>2. Active(r) /\ slot[r] \in Slots
  BY <1>1 DEF Active, IInv, SlotHeldByActive
<1>3. CASE Ended(target)
  <2>1. \A q \in Runs : /\ Active(q)' <=> (q # r /\ Active(q))
                        /\ Ended(run[q])' <=> (q = r \/ Ended(run[q]))
    BY <1>1, <1>3 DEF Active, Ended
  <2> PICK s \in Slots : s = slot[r]
    BY <1>2
  <2>2. r \in Users[s] /\ EndedRuns' = EndedRuns \cup {r}
    BY <1>2, <2>1 DEF Users, EndedRuns, Active, Ended
  <2>3. Users' = [Users EXCEPT ![s] = @ \ {r}]
    <3>1. \A p \in Slots : {q \in Runs : Active(q)' /\ slot'[q] = p}
                         = IF p = s THEN {q \in Runs : Active(q) /\ slot[q] = p} \ {r}
                           ELSE {q \in Runs : Active(q) /\ slot[q] = p}
      BY <2>1, <1>1 DEF Active
    <3>2. \A p \in Slots : Users'[p] = IF p = s THEN Users[p] \ {r} ELSE Users[p]
      BY <3>1 DEF Users
    <3>3. /\ Users = [p \in Slots |-> Users[p]]
          /\ Users' = [p \in Slots |-> Users'[p]]
      BY DEF Users
    <3> HIDE DEF Users
    <3> QED
      BY <3>2, <3>3
  <2>4. Use!End(s, r)
    BY <2>2, <2>3 DEF Use!End, Users, EndedRuns
  <2>5. Use!Next
    BY <2>4, Zenon DEF Use!Next
  <2> QED
    BY <2>5
<1>4. CASE ~Ended(target)
  <2>1. \A q \in Runs : /\ Active(q)' <=> Active(q)
                        /\ Ended(run[q])' <=> Ended(run[q])
    BY <1>1, <1>4 DEF Active, Ended
  <2>2. Users' = Users /\ EndedRuns' = EndedRuns
    BY <2>1, <1>1, StutterRefines
  <2> QED
    BY <2>2 DEF Use!vars, Users, EndedRuns
<1> QED
  BY <1>3, <1>4

\* The claims implement one active run of a workflow per work item.
THEOREM Refinement == Spec => RefinesWorkflowSlots
<1>1. Init => Use!Init
  BY DEF Init, Use!Init, Active, Ended
<1>2. ASSUME IInv, [Next]_vars
      PROVE  [Use!Next]_Use!vars
  <2>1. ASSUME run' = run, slot' = slot PROVE [Use!Next]_Use!vars
    BY <2>1, StutterRefines DEF Active, Ended, Use!vars, Users, EndedRuns
  <2>2. ASSUME NEW r \in Runs, NEW s \in Slots, NEW kind \in Kinds, StartRun(r, s, kind)
        PROVE  Use!Next
    BY <1>2, <2>2, StartRefines
  <2>3. ASSUME NEW r \in Runs,
               NEW target \in {"awaiting_approval", "approved", "rejected", "failed"},
               TransitionRun(r, target)
        PROVE  [Use!Next]_Use!vars
    BY <1>2, <2>3, TransitionRefines
  <2> QED
    BY <1>2, <2>1, <2>2, <2>3
    DEF Next, vars, SetEmergencyStop, AssertDispatchAllowed, StartRefused, ReadStage,
        WriteStage, WriteStageFails, FinishRun, CreateApprovalGate, DecideApproval
<1> QED
  BY <1>1, <1>2, Inductive, PTL DEF Spec, RefinesWorkflowSlots, Use!Spec

-----------------------------------------------------------------------------
(* The chain of a mission's parent runs (orchestration/temporal).            *)

MissionPhases == {"DRAFT", "SPECIFICATION_ANALYSIS", "BACKLOG_GENERATION",
                  "WAITING_FOR_BACKLOG_APPROVAL", "APPROVED"}
MissionScopes == [version : Nat, phase : MissionPhases, disposition : {"RUNNING", "PAUSED"},
                  epoch : Nat]
ChainRows == [run : Nat, previous : Nat, scope : MissionScopes, token : Nat, accepted : Nat]
Applied == [scope : MissionScopes, token : Nat]
Planned == [steps : Nat, scope : MissionScopes]
Handled == {Nothing} \cup [answer : {Nothing, Says("rejected")} \cup
                              [is : {"applied"}, result : Applied, duplicate : BOOLEAN]]

RunRowsTyped ==
    /\ mrow \in MissionScopes
    /\ frow \in [token : Nat, scope : MissionScopes]
    /\ chain \in Seq(ChainRows)
    /\ opened \in Nat
    /\ input = Nothing \/ input \in MissionScopes
    /\ DOMAIN stored = Plans \cup Controls
    /\ \A p \in Plans : stored[p] = Nothing \/ stored[p] \in Planned
    /\ \A c \in Controls : stored[c] = Nothing \/ stored[c] \in Applied
    /\ handling \in [Controls -> Handled]

\* The fields the chain depends on.
FlowFields == {"pc", "n", "version", "phase", "disposition", "epoch", "token", "boundaries",
               "accepted", "plans", "notices", "seen", "command", "pending"}
FlowSound(f) ==
    /\ DOMAIN f = FlowFields
    /\ f.token \in Nat \ {0} /\ f.accepted \in Nat
    /\ f.plans \in Seq(Plans) /\ f.command \in Plans \cup {None}

\* A run waits for its registration, and a registration that was answered is in the ledger
\* or will never be.
Registers(f, j) ==
    /\ f.pc \in {"register", "unregistered"} /\ f.n = opened
    /\ DOMAIN j = {"kind", "run", "scope", "token", "accepted", "checked", "answer"}
    /\ j.kind = "register" /\ j.run = opened
    /\ j.token \in Nat \ {0} /\ j.accepted \in Nat
    /\ j.answer \in {Nothing, Says("registered"), Says("refused")}
    /\ j.answer = Says("registered") => Len(chain) = opened
    /\ j.answer = Says("refused") => Len(chain) # opened
    /\ f.pc = "unregistered" => j.answer = Says("refused")

\* A registered run is where its activity is.
Proceeds(f, j) ==
    \/ f.pc \in {"wait", "runnable", "developing"} /\ j = NoJob
    \/ /\ f.pc = "planning" /\ DOMAIN j = {"kind", "of", "step", "answer"}
       /\ j.kind = "plan" /\ j.of \in Plans
    \/ f.pc = "approving" /\ DOMAIN j = {"kind", "answer"} /\ j.kind = "approval"
    \/ f.pc = "fence" /\ DOMAIN j = {"kind", "answer"} /\ j.kind = "fence" /\ j.answer = Nothing

JobFits ==
    \/ flow.pc = "absent" /\ opened = 0 /\ Len(chain) = 0 /\ job = NoJob
    \/ opened > 0 /\ (Len(chain) = opened \/ Len(chain) + 1 = opened) /\ Registers(flow, job)
    \/ opened > 0 /\ Len(chain) = opened /\ Proceeds(flow, job)

\* No row is ahead of the fence, and one under its token is of its scope.
RowsInOrder ==
    \A i \in DOMAIN chain :
        /\ chain[i].run = i /\ chain[i].token <= frow.token
        /\ chain[i].token = frow.token =>
              /\ chain[i].scope.disposition = frow.scope.disposition
              /\ chain[i].scope.epoch = frow.scope.epoch
        /\ chain[i].token > 0
        /\ \A j \in DOMAIN chain : i < j =>
              /\ chain[i].token <= chain[j].token /\ chain[i].accepted <= chain[j].accepted
              /\ chain[i].token = chain[j].token =>
                    /\ chain[i].scope.disposition = chain[j].scope.disposition
                    /\ chain[i].scope.epoch = chain[j].scope.epoch

RunsInv == RunRowsTyped /\ FlowSound(flow) /\ JobFits /\ RowsInOrder

LEMMA RunsBegin == MRInit => RunsInv
<1> SUFFICES ASSUME MRInit PROVE RunsInv
  OBVIOUS
<1> USE DEF MRInit, Row
<1>1. mrow \in MissionScopes /\ frow \in [token : Nat, scope : MissionScopes]
  BY DEF MissionScopes, MissionPhases
<1>2. RunRowsTyped
  <2>1. chain \in Seq(ChainRows) /\ opened \in Nat /\ input = Nothing
    OBVIOUS
  <2>2. DOMAIN stored = Plans \cup Controls /\ \A s \in Plans \cup Controls : stored[s] = Nothing
    OBVIOUS
  <2>3. handling \in [Controls -> Handled]
    BY DEF Handled
  <2>4. /\ \A p \in Plans : stored[p] = Nothing \/ stored[p] \in Planned
        /\ \A c \in Controls : stored[c] = Nothing \/ stored[c] \in Applied
    BY <2>2
  <2> HIDE DEF MRInit
  <2> QED BY <1>1, <2>1, <2>2, <2>3, <2>4, Zenon DEF RunRowsTyped
<1>3. FlowSound(flow) /\ flow.pc = "absent"
  BY DEF FlowSound, FlowFields, Opens, CarryOver
<1>4. JobFits /\ RowsInOrder
  BY <1>3 DEF JobFits, RowsInOrder
<1> QED BY <1>2, <1>3, <1>4 DEF RunsInv

\* The fence's token grows, or names what it named.
FenceGoesOn ==
    /\ frow' \in [token : Nat, scope : MissionScopes]
    /\ \/ frow'.token > frow.token
       \/ /\ frow'.token = frow.token
          /\ frow'.scope.disposition = frow.scope.disposition
          /\ frow'.scope.epoch = frow.scope.epoch

LEMMA RowsStayInOrder ==
    ASSUME RunsInv, FenceGoesOn, UNCHANGED chain PROVE RowsInOrder'
<1>0. chain \in Seq(ChainRows)
  BY DEF RunsInv, RunRowsTyped
<1>4. \A i \in DOMAIN chain : chain[i] \in ChainRows
  BY <1>0
<1>1. \A i \in DOMAIN chain : chain[i].token \in Nat
  BY <1>4 DEF ChainRows
<1>2. frow.token \in Nat /\ frow'.token \in Nat
  BY DEF RunsInv, RunRowsTyped, FenceGoesOn
<1>3. ASSUME NEW i \in DOMAIN chain
      PROVE /\ chain[i].token <= frow'.token
            /\ chain[i].token = frow'.token =>
                  /\ chain[i].scope.disposition = frow'.scope.disposition
                  /\ chain[i].scope.epoch = frow'.scope.epoch
  BY <1>1, <1>2, <1>3 DEF RunsInv, RowsInOrder, FenceGoesOn
<1> QED BY <1>3 DEF RunsInv, RowsInOrder

LEMMA FenceFollows == ASSUME RunsInv PROVE frow' = FenceNow => FenceGoesOn
<1>1. mrow \in MissionScopes /\ frow.token \in Nat
  BY DEF RunsInv, RunRowsTyped
<1>2. FenceNow \in [token : Nat, scope : MissionScopes]
  BY <1>1 DEF FenceNow
<1>3. FenceNow.token > frow.token \/ /\ FenceNow.token = frow.token
                                     /\ FenceNow.scope.disposition = frow.scope.disposition
                                     /\ FenceNow.scope.epoch = frow.scope.epoch
  BY <1>1 DEF FenceNow
<1> QED BY <1>2, <1>3 DEF FenceGoesOn

LEMMA FenceRests == ASSUME RunsInv PROVE UNCHANGED frow => FenceGoesOn
  BY DEF RunsInv, RunRowsTyped, FenceGoesOn

\* Where the loop of a registered run goes on: the same run, or a new one.
LEMMA GoesOnAtTop ==
    ASSUME RunsInv, opened > 0, Len(chain) = opened, UNCHANGED chain, NEW f, FlowSound(f), NEW hs,
           AtTop(f, hs) \/ ContinuesAsNew(f, hs)
    PROVE  opened' \in Nat /\ FlowSound(flow') /\ JobFits'
<1>0. opened \in Nat
  BY DEF RunsInv, RunRowsTyped
<1>1. CASE ContinuesAsNew(f, hs)
  <2>1. FlowSound(flow') /\ flow'.pc = "register" /\ flow'.n = opened + 1 /\ opened' = opened + 1
    BY <1>1 DEF ContinuesAsNew, Opens, ToCarryOver, CarryOver, FlowSound, FlowFields
  <2>2. Registers(flow, job)'
    BY <2>1, <1>1 DEF ContinuesAsNew, Registers, Registration, FlowSound, Nothing, Says
  <2> QED BY <1>0, <2>1, <2>2 DEF JobFits
<1>2. CASE Stays([f EXCEPT !.pc = "fence"], [kind |-> "fence", answer |-> Nothing])
  <2>1. FlowSound(flow') /\ flow'.pc = "fence" /\ opened' = opened
    BY <1>2 DEF Stays, FlowSound, FlowFields
  <2>2. Proceeds(flow, job)'
    BY <2>1, <1>2 DEF Stays, Proceeds
  <2> QED BY <1>0, <2>1, <2>2 DEF JobFits
<1>3. CASE Stays([f EXCEPT !.pc = "wait"], NoJob)
  <2>1. FlowSound(flow') /\ flow'.pc = "wait" /\ opened' = opened
    BY <1>3 DEF Stays, FlowSound, FlowFields
  <2>2. Proceeds(flow, job)'
    BY <2>1, <1>3 DEF Stays, Proceeds
  <2> QED BY <1>0, <2>1, <2>2 DEF JobFits
<1> QED BY <1>1, <1>2, <1>3 DEF AtTop

LEMMA RunRowsStay ==
    ASSUME RunsInv, UNCHANGED <<mrow, frow, chain, stored, handling>>,
           opened' \in Nat, input' = input \/ input' \in MissionScopes
    PROVE  RunRowsTyped' /\ RowsInOrder'
<1>1. RunRowsTyped'
  BY DEF RunsInv, RunRowsTyped
<1>2. RowsInOrder'
  BY DEF RunsInv, RowsInOrder
<1> QED BY <1>1, <1>2

\* The run is where it was, whatever it has heard meanwhile.
LEMMA JobStays ==
    ASSUME RunsInv, UNCHANGED <<job, opened, chain>>, flow'.pc = flow.pc, flow'.n = flow.n
    PROVE  JobFits'
  BY DEF RunsInv, JobFits, Registers, Proceeds

LEMMA InputIsRead == ASSUME RunsInv, ReadInput \/ StartParent PROVE RunsInv'
<1>0. mrow \in MissionScopes /\ opened \in Nat
  BY DEF RunsInv, RunRowsTyped
<1>1. RunRowsTyped' /\ RowsInOrder'
  BY <1>0, RunRowsStay DEF ReadInput, StartParent
<1>2. CASE ReadInput
  <2>1. FlowSound(flow') /\ JobFits'
    BY <1>2, JobStays DEF RunsInv, ReadInput, JobFits, FlowSound
  <2> QED BY <1>1, <2>1 DEF RunsInv
<1>3. CASE StartParent
  <2>1. /\ FlowSound(flow') /\ flow'.pc = "register" /\ flow'.n = 1
        /\ opened' = 1 /\ opened = 0 /\ chain' = chain /\ job' = Registration(flow')
    BY <1>3 DEF StartParent, Opens, CarryOver, FlowSound, FlowFields
  <2>2. Len(chain) = 0
    BY <2>1 DEF RunsInv, JobFits
  <2>3. Registers(flow, job)'
    BY <2>1 DEF Registers, Registration, FlowSound, Nothing, Says
  <2>4. JobFits'
    BY <2>1, <2>2, <2>3 DEF JobFits
  <2> QED BY <1>1, <2>1, <2>4 DEF RunsInv
<1> QED BY <1>2, <1>3

\* While a registration is under way.
LEMMA Registering ==
    ASSUME RunsInv, job.kind = "register"
    PROVE  /\ opened > 0 /\ opened \in Nat /\ (Len(chain) = opened \/ Len(chain) + 1 = opened)
           /\ Registers(flow, job)
<1>1. opened \in Nat
  BY DEF RunsInv, RunRowsTyped
<1>2. job # NoJob
  BY DEF NoJob, None
<1> QED BY <1>1, <1>2 DEF RunsInv, JobFits, Proceeds

LEMMA ChainIsTyped ==
    ASSUME RunsInv PROVE chain \in Seq(ChainRows) /\ Len(chain) \in Nat /\ DOMAIN chain = 1..Len(chain)
<1>1. chain \in Seq(ChainRows)
  BY DEF RunsInv, RunRowsTyped
<1> QED BY <1>1

LEMMA RegistrationIsChecked == ASSUME RunsInv, RegisterCheck PROVE RunsInv'
<1>1. /\ opened > 0 /\ opened \in Nat /\ (Len(chain) = opened \/ Len(chain) + 1 = opened) /\ Registers(flow, job)
  BY Registering DEF RegisterCheck
<1>2. UNCHANGED <<mrow, chain, input, stored, handling, opened, flow>> /\ FenceGoesOn
  BY FenceFollows, FenceRests DEF RegisterCheck
<1>3. RowsInOrder'
  BY <1>2, RowsStayInOrder
<1>4. RunRowsTyped' /\ FlowSound(flow')
  BY <1>2 DEF RunsInv, RunRowsTyped, FenceGoesOn
<1>5. Known(job) <=> Len(chain) = opened
  <2>1. \A i \in DOMAIN chain : chain[i].run = i
    BY DEF RunsInv, RowsInOrder
  <2>2. job.run = opened /\ opened \in Nat /\ opened > 0 /\ (Len(chain) = opened \/ Len(chain) + 1 = opened)
    BY <1>1 DEF Registers
  <2>3. DOMAIN chain = 1..Len(chain) /\ Len(chain) \in Nat
    BY ChainIsTyped
  <2>4. Known(job) <=> \E i \in DOMAIN chain : i = opened
    <3>1. job.run = opened
      BY <1>1 DEF Registers
    <3>2. \A i \in DOMAIN chain : chain[i].run = job.run <=> i = opened
      BY <2>1, <3>1
    <3> QED BY <3>2, Zenon DEF Known
  <2>5. (\E i \in DOMAIN chain : i = opened) <=> Len(chain) = opened
    <3>3. Len(chain) \in Nat
      BY <2>3
    <3>4. Len(chain) = opened \/ Len(chain) + 1 = opened
      BY <2>2
    <3>1. opened \in Nat /\ opened > 0 /\ Len(chain) \in Nat /\ Len(chain) <= opened
      BY <2>2, <3>3, <3>4
    <3>2. (\E i \in 1..Len(chain) : i = opened) <=> Len(chain) = opened
      BY <3>1
    <3> QED BY <2>3, <3>2
  <2> QED BY <2>4, <2>5, Zenon
<1>7. Registers(flow, job)'
  <2>1. /\ DOMAIN job' = DOMAIN job /\ job'.kind = job.kind /\ job'.run = job.run
        /\ job'.token = job.token /\ job'.accepted = job.accepted
        /\ \/ job'.answer = Says("registered") /\ Known(job)
           \/ job'.answer = Says("refused") /\ ~Known(job)
           \/ job'.answer = job.answer
    BY <1>1 DEF RegisterCheck, Registers
  <2>2. flow.pc # "unregistered"
    BY <1>1 DEF Registers, RegisterCheck, Nothing, Says
  <2>3. Says("registered") # Says("refused")
    BY DEF Says
  <2> QED BY <1>1, <1>2, <1>5, <2>1, <2>2, <2>3 DEF Registers
<1> QED BY <1>1, <1>2, <1>3, <1>4, <1>7 DEF RunsInv, JobFits

LEMMA AppendedRow ==
    ASSUME NEW e \in ChainRows, chain \in Seq(ChainRows)
    PROVE  /\ Append(chain, e) \in Seq(ChainRows)
           /\ Len(Append(chain, e)) = Len(chain) + 1
           /\ DOMAIN Append(chain, e) = 1..(Len(chain) + 1)
           /\ \A n \in DOMAIN chain : Append(chain, e)[n] = chain[n]
           /\ Append(chain, e)[Len(chain) + 1] = e
  OBVIOUS

LEMMA RegistrationIsInserted == ASSUME RunsInv, RegisterInsert PROVE RunsInv'
<1>1. /\ opened > 0 /\ opened \in Nat /\ (Len(chain) = opened \/ Len(chain) + 1 = opened)
      /\ Registers(flow, job)
  BY Registering DEF RegisterInsert
<1>2. UNCHANGED <<mrow, frow, input, stored, handling, opened, flow>>
  BY DEF RegisterInsert
<1>3. CASE ~Extends(job)
  <2>1. job' = [job EXCEPT !.checked = FALSE] /\ chain' = chain
    BY <1>3 DEF RegisterInsert
  <2>2. RunRowsTyped' /\ RowsInOrder'
    BY <1>1, <1>2, <2>1, RunRowsStay
  <2>3. Registers(flow, job)'
    BY <1>1, <1>2, <2>1 DEF Registers
  <2> QED BY <1>1, <1>2, <2>1, <2>2, <2>3 DEF RunsInv, JobFits
<1>4. CASE Extends(job)
  <2> DEFINE e == [run |-> job.run, previous |-> job.run - 1, scope |-> job.scope,
                   token |-> job.token, accepted |-> job.accepted]
  <2>1. chain' = Append(chain, e) /\ job' = [job EXCEPT !.answer = Says("registered")]
    BY <1>4 DEF RegisterInsert
  <2>2. /\ job.run = opened /\ job.token \in Nat \ {0} /\ job.accepted \in Nat
        /\ job.scope = mrow /\ frow.scope = mrow /\ frow.token = job.token
        /\ opened = Len(chain) + 1
        /\ chain # <<>> => chain[Len(chain)].accepted <= job.accepted
    BY <1>1, <1>4 DEF Registers, Extends
  <2>3. mrow \in MissionScopes
    BY DEF RunsInv, RunRowsTyped
  <2>4. e \in ChainRows
    <3>1. opened - 1 \in Nat
      BY <1>1
    <3> QED BY <1>1, <2>2, <2>3, <3>1 DEF ChainRows
  <2>5. e.run = opened /\ e.token = frow.token /\ e.scope = frow.scope /\ e.accepted = job.accepted
        /\ e.token > 0
    BY <2>2
  <2> HIDE DEF e
  <2>6. /\ chain' \in Seq(ChainRows) /\ Len(chain') = opened /\ DOMAIN chain' = 1..opened
        /\ \A n \in DOMAIN chain : chain'[n] = chain[n]
        /\ chain'[opened] = e
    BY <2>1, <2>2, <2>4, AppendedRow, ChainIsTyped
  <2>7. RunRowsTyped'
    BY <1>2, <2>6 DEF RunsInv, RunRowsTyped
  <2>8. DOMAIN chain = 1..(opened - 1) /\ \A i \in DOMAIN chain : chain[i] \in ChainRows
    BY <2>2, <1>1, ChainIsTyped
  <2>9. \A i \in DOMAIN chain : chain[i].token <= e.token /\ chain[i].accepted <= e.accepted
    <3> SUFFICES ASSUME NEW i \in DOMAIN chain
                 PROVE  chain[i].token <= e.token /\ chain[i].accepted <= e.accepted
      OBVIOUS
    <3>1. opened - 1 \in DOMAIN chain /\ chain # <<>> /\ i <= opened - 1 /\ Len(chain) = opened - 1
      BY <2>8, <2>2, <1>1
    <3>2. chain[i].accepted <= chain[opened - 1].accepted
      <4>1. i < opened - 1 => chain[i].accepted <= chain[opened - 1].accepted
        BY <3>1 DEF RunsInv, RowsInOrder
      <4>2. chain[i].accepted \in Nat
        BY <2>8 DEF ChainRows
      <4> QED BY <4>1, <4>2, <3>1, <2>8, <1>1
    <3>3. chain[opened - 1].accepted <= e.accepted
      BY <3>1, <2>2, <2>5
    <3>4. chain[i].accepted \in Nat /\ chain[opened - 1].accepted \in Nat /\ e.accepted \in Nat
      BY <3>1, <2>8, <2>4 DEF ChainRows
    <3> QED BY <3>2, <3>3, <3>4, <2>5 DEF RunsInv, RowsInOrder
  <2>10. RowsInOrder'
    <3> SUFFICES ASSUME NEW i \in DOMAIN chain'
                 PROVE  /\ chain'[i].run = i /\ chain'[i].token <= frow.token
                        /\ chain'[i].token = frow.token =>
                              /\ chain'[i].scope.disposition = frow.scope.disposition
                              /\ chain'[i].scope.epoch = frow.scope.epoch
                        /\ chain'[i].token > 0
                        /\ \A j \in DOMAIN chain' : i < j =>
                              /\ chain'[i].token <= chain'[j].token
                              /\ chain'[i].accepted <= chain'[j].accepted
                              /\ chain'[i].token = chain'[j].token =>
                                    /\ chain'[i].scope.disposition = chain'[j].scope.disposition
                                    /\ chain'[i].scope.epoch = chain'[j].scope.epoch
      BY <1>2 DEF RowsInOrder
    <3>1. frow.token \in Nat
      BY DEF RunsInv, RunRowsTyped
    <3>2. CASE i = opened
      <4>1. \A j \in DOMAIN chain' : ~(i < j)
        BY <3>2, <2>6, <1>1
      <4> QED BY <3>1, <3>2, <4>1, <2>6, <2>5
    <3>3. CASE i # opened
      <4>1. i \in DOMAIN chain /\ chain'[i] = chain[i]
        BY <3>3, <2>6, <2>8, <1>1
      <4>2. ASSUME NEW j \in DOMAIN chain', i < j
            PROVE  /\ chain[i].token <= chain'[j].token
                   /\ chain[i].accepted <= chain'[j].accepted
                   /\ chain[i].token = chain'[j].token =>
                         /\ chain[i].scope.disposition = chain'[j].scope.disposition
                         /\ chain[i].scope.epoch = chain'[j].scope.epoch
        <5>1. CASE j = opened
          BY <5>1, <4>1, <2>6, <2>5, <2>9 DEF RunsInv, RowsInOrder
        <5>2. CASE j # opened
          <6>1. j \in DOMAIN chain /\ chain'[j] = chain[j]
            BY <5>2, <2>6, <2>8, <1>1
          <6> QED BY <4>2, <4>1, <6>1 DEF RunsInv, RowsInOrder
        <5> QED BY <5>1, <5>2
      <4>3. /\ chain[i].run = i /\ chain[i].token <= frow.token /\ chain[i].token > 0
            /\ chain[i].token = frow.token =>
                  /\ chain[i].scope.disposition = frow.scope.disposition
                  /\ chain[i].scope.epoch = frow.scope.epoch
        BY <4>1 DEF RunsInv, RowsInOrder
      <4> QED BY <4>1, <4>2, <4>3
    <3> QED BY <3>2, <3>3
  <2>11. Registers(flow, job)'
    <3>1. flow.pc # "unregistered"
      BY <1>1 DEF Registers, RegisterInsert, Nothing, Says
    <3>2. Says("registered") # Says("refused")
      BY DEF Says
    <3> QED BY <1>1, <1>2, <2>1, <2>6, <3>1, <3>2 DEF Registers
  <2>12. FlowSound(flow') /\ JobFits'
    BY <1>1, <1>2, <2>6, <2>11 DEF RunsInv, JobFits
  <2> QED BY <2>7, <2>10, <2>12 DEF RunsInv
<1> QED BY <1>3, <1>4

\* The flow of a run whose wait or activity ended.
LEMMA Proceeding ==
    ASSUME RunsInv, flow.pc \notin {"absent", "register", "unregistered"}
    PROVE  opened > 0 /\ opened \in Nat /\ Len(chain) = opened /\ Proceeds(flow, job)
<1>1. opened \in Nat
  BY DEF RunsInv, RunRowsTyped
<1> QED BY <1>1 DEF RunsInv, JobFits, Registers

LEMMA JobProceeds ==
    ASSUME RunsInv, job.kind \in {"plan", "approval", "fence"}
    PROVE  opened > 0 /\ opened \in Nat /\ Len(chain) = opened /\ Proceeds(flow, job)
<1>1. opened \in Nat
  BY DEF RunsInv, RunRowsTyped
<1>2. job # NoJob
  BY DEF NoJob, None
<1> QED BY <1>1, <1>2 DEF RunsInv, JobFits, Registers

LEMMA RegistrationIsTaken == ASSUME RunsInv, TakeRegistered PROVE RunsInv'
<1>1. UNCHANGED <<mrow, frow, chain, input, stored, handling>> /\ flow.pc = "register"
      /\ job.answer # Nothing
  BY DEF TakeRegistered
<1>2. opened \in Nat /\ opened > 0 /\ Registers(flow, job)
  BY <1>1 DEF RunsInv, RunRowsTyped, JobFits, Proceeds
<1>3. CASE job.answer.is = "refused"
  <2>1. flow' = [flow EXCEPT !.pc = "unregistered"] /\ job' = job /\ opened' = opened
    BY <1>3 DEF TakeRegistered, Stays
  <2>2. job.answer = Says("refused")
    BY <1>1, <1>2, <1>3 DEF Registers, Says
  <2>3. FlowSound(flow')
    BY <2>1 DEF RunsInv, FlowSound, FlowFields
  <2>4. flow'.pc = "unregistered" /\ flow'.n = flow.n
    BY <2>1 DEF RunsInv, FlowSound, FlowFields
  <2>5. Registers(flow, job)'
    BY <1>1, <1>2, <2>1, <2>2, <2>4 DEF Registers
  <2>6. JobFits'
    BY <1>1, <1>2, <2>1, <2>5 DEF RunsInv, JobFits, Registers, Proceeds
  <2> QED BY <1>1, <1>2, <2>1, <2>3, <2>6, RunRowsStay DEF RunsInv
<1>4. CASE job.answer.is # "refused"
  <2>1. AtTop(flow, Handlers)
    BY <1>4 DEF TakeRegistered
  <2>2. Len(chain) = opened
    BY <1>1, <1>2, <1>4 DEF Registers, Says
  <2>3. opened' \in Nat /\ FlowSound(flow') /\ JobFits'
    BY <1>1, <1>2, <2>1, <2>2, GoesOnAtTop DEF RunsInv
  <2> QED BY <1>1, <2>3, RunRowsStay DEF RunsInv
<1> QED BY <1>3, <1>4

LEMMA AnswersAreLost == ASSUME RunsInv, LoseAnswer PROVE RunsInv'
<1>1. UNCHANGED <<mrow, frow, chain, input, stored, opened, flow>>
  BY DEF LoseAnswer
<1>2. opened \in Nat /\ FlowSound(flow') /\ RowsInOrder'
  BY <1>1 DEF RunsInv, RunRowsTyped, RowsInOrder
<1>3. CASE /\ job.kind # None /\ job.answer.is \notin {"none", "failed", "refused"}
           /\ job' = IF job.kind = "register"
                     THEN [job EXCEPT !.answer = Nothing, !.checked = FALSE]
                     ELSE [job EXCEPT !.answer = Nothing]
           /\ UNCHANGED handling
  <2>1. RunRowsTyped' /\ RowsInOrder'
    BY <1>1, <1>2, <1>3, RunRowsStay
  <2>2. job # NoJob
    BY <1>3 DEF NoJob
  <2>3. job.answer # Says("refused") /\ job.answer # Nothing
    BY <1>3 DEF Says, Nothing
  <2>4. CASE Registers(flow, job)
    <3>1. job' = [job EXCEPT !.answer = Nothing, !.checked = FALSE]
      BY <1>3, <2>4 DEF Registers
    <3>2. Nothing # Says("registered") /\ Nothing # Says("refused")
      BY DEF Nothing, Says
    <3>3. Registers(flow, job)'
      BY <1>1, <2>3, <2>4, <3>1, <3>2 DEF Registers
    <3>4. flow.pc # "absent"
      BY <2>4 DEF Registers
    <3>5. JobFits'
      BY <1>1, <2>2, <2>4, <3>3, <3>4 DEF RunsInv, JobFits, Registers, Proceeds
    <3> QED BY <1>1, <1>2, <2>1, <3>5 DEF RunsInv
  <2>5. CASE ~Registers(flow, job)
    <3>1. opened > 0 /\ Len(chain) = opened /\ Proceeds(flow, job)
      BY <2>2, <2>5 DEF RunsInv, JobFits
    <3>2. job' = [job EXCEPT !.answer = Nothing]
      BY <1>3, <2>2, <3>1 DEF Proceeds
    <3>3. Proceeds(flow, job)'
      BY <1>1, <2>2, <2>3, <3>1, <3>2 DEF Proceeds
    <3> QED BY <1>1, <1>2, <2>1, <3>1, <3>3 DEF RunsInv, JobFits
  <2> QED BY <2>4, <2>5
<1>4. ASSUME NEW c \in Handlers, handling' = [handling EXCEPT ![c].answer = Nothing], UNCHANGED job
      PROVE RunsInv'
  <2>1. handling \in [Controls -> Handled] /\ c \in Controls /\ handling[c] # Nothing
    BY <1>4 DEF RunsInv, RunRowsTyped, Handlers
  <2>2. [handling[c] EXCEPT !.answer = Nothing] \in Handled
    BY <2>1 DEF Handled
  <2>3. handling' \in [Controls -> Handled]
    BY <1>4, <2>1, <2>2
  <2>4. RunRowsTyped'
    BY <1>1, <2>3 DEF RunsInv, RunRowsTyped
  <2>5. JobFits'
    BY <1>1, <1>4, JobStays
  <2> QED BY <1>2, <2>4, <2>5 DEF RunsInv
<1> QED BY <1>3, <1>4 DEF LoseAnswer

LEMMA CommandsAreSent == ASSUME RunsInv, NEW s \in Signals, Send(s) PROVE RunsInv'
<1>1. UNCHANGED <<mrow, chain, input, stored, handling, opened, flow, job>>
  BY DEF Send
<1>2. FenceGoesOn
  BY FenceFollows, FenceRests DEF Send
<1>3. RunRowsTyped'
  BY <1>1, <1>2 DEF RunsInv, RunRowsTyped, FenceGoesOn
<1> QED BY <1>1, <1>2, <1>3, RowsStayInOrder, JobStays DEF RunsInv

LEMMA CommandsAreDelivered == ASSUME RunsInv, NEW s \in Signals, Deliver(s) PROVE RunsInv'
<1>1. UNCHANGED <<mrow, frow, chain, input, stored, opened, job>>
  BY DEF Deliver
<1>2. flow.plans \in Seq(Plans) /\ DOMAIN flow = FlowFields
  BY DEF RunsInv, FlowSound
<1>3. (IF s \in Plans THEN Append(flow.plans, s) ELSE flow.plans) \in Seq(Plans)
  BY <1>2
<1>4. FlowSound(flow') /\ flow'.pc = flow.pc /\ flow'.n = flow.n
  <2>1. CASE flow' = flow
    BY <2>1 DEF RunsInv
  <2>2. CASE flow' = [flow EXCEPT !.seen = @ \cup {s},
                            !.plans = IF s \in Plans THEN Append(@, s) ELSE @,
                            !.notices = IF s \in Notices THEN Append(@, s) ELSE @]
    BY <1>2, <1>3, <2>2 DEF RunsInv, FlowSound, FlowFields
  <2> QED BY <2>1, <2>2 DEF Deliver
<1>5. handling' \in [Controls -> Handled]
  BY DEF Deliver, RunsInv, RunRowsTyped, Handled
<1>6. RunRowsTyped' /\ RowsInOrder'
  BY <1>1, <1>5 DEF RunsInv, RunRowsTyped, RowsInOrder
<1> QED BY <1>1, <1>4, <1>6, JobStays DEF RunsInv

\* Between two awaits: the flow keeps what the chain depends on.
LEMMA FlowGoesOn ==
    ASSUME RunsInv, opened > 0, Len(chain) = opened, UNCHANGED chain, NEW f, FlowSound(f), NEW j,
           Stays(f, j), Proceeds(f, j)
    PROVE  opened' \in Nat /\ FlowSound(flow') /\ JobFits'
<1>1. opened' = opened /\ flow' = f /\ job' = j /\ opened \in Nat
  BY DEF Stays, RunsInv, RunRowsTyped
<1>2. Proceeds(flow, job)'
  BY <1>1 DEF Proceeds
<1> QED BY <1>1, <1>2 DEF JobFits

LEMMA RunWakes == ASSUME RunsInv, Wake \/ GoOn PROVE RunsInv'
<1>1. UNCHANGED <<mrow, frow, chain, input, stored, handling>>
  BY DEF Wake, GoOn
<1>2. opened > 0 /\ Len(chain) = opened
  BY Proceeding DEF Wake, GoOn
<1>3. FlowSound(flow)
  BY DEF RunsInv
<1>4. ASSUME NEW hs, ContinuesAsNew(flow, hs) PROVE opened' \in Nat /\ FlowSound(flow') /\ JobFits'
  BY <1>1, <1>2, <1>3, <1>4, GoesOnAtTop
<1>5. ASSUME flow.plans # <<>>,
             Stays([flow EXCEPT !.pc = "runnable", !.plans = Tail(@), !.command = Head(flow.plans)], NoJob)
      PROVE  opened' \in Nat /\ FlowSound(flow') /\ JobFits'
  <2> DEFINE f == [flow EXCEPT !.pc = "runnable", !.plans = Tail(@), !.command = Head(flow.plans)]
  <2>1. Tail(flow.plans) \in Seq(Plans) /\ Head(flow.plans) \in Plans
    BY <1>3, <1>5 DEF FlowSound
  <2>2. FlowSound(f) /\ f.pc = "runnable"
    BY <1>3, <2>1 DEF FlowSound, FlowFields
  <2> HIDE DEF f
  <2>3. Proceeds(f, NoJob)
    BY <2>2 DEF Proceeds
  <2> QED BY <1>1, <1>2, <1>5, <2>2, <2>3, FlowGoesOn DEF f
<1>6. ASSUME Stays([flow EXCEPT !.pc = "approving", !.notices = Tail(@)],
                   [kind |-> "approval", answer |-> Nothing])
      PROVE  opened' \in Nat /\ FlowSound(flow') /\ JobFits'
  <2> DEFINE f == [flow EXCEPT !.pc = "approving", !.notices = Tail(@)]
             j == [kind |-> "approval", answer |-> Nothing]
  <2>1. FlowSound(f) /\ f.pc = "approving"
    BY <1>3 DEF FlowSound, FlowFields
  <2>2. Proceeds(f, j)
    BY <2>1 DEF Proceeds
  <2> HIDE DEF f, j
  <2> QED BY <1>1, <1>2, <1>6, <2>1, <2>2, FlowGoesOn DEF f, j
<1>7. ASSUME flow.command # None,
             Stays([flow EXCEPT !.pc = "planning"],
                   [kind |-> "plan", of |-> flow.command, step |-> 0, answer |-> Nothing])
      PROVE  opened' \in Nat /\ FlowSound(flow') /\ JobFits'
  <2> DEFINE f == [flow EXCEPT !.pc = "planning"]
             j == [kind |-> "plan", of |-> flow.command, step |-> 0, answer |-> Nothing]
  <2>1. FlowSound(f) /\ f.pc = "planning"
    BY <1>3 DEF FlowSound, FlowFields
  <2>2. Proceeds(f, j)
    BY <1>3, <1>7, <2>1 DEF Proceeds, FlowSound
  <2> HIDE DEF f, j
  <2> QED BY <1>1, <1>2, <1>7, <2>1, <2>2, FlowGoesOn DEF f, j
<1>8. ASSUME Stays([flow EXCEPT !.pc = "developing"], NoJob)
      PROVE  opened' \in Nat /\ FlowSound(flow') /\ JobFits'
  <2> DEFINE f == [flow EXCEPT !.pc = "developing"]
  <2>1. FlowSound(f) /\ f.pc = "developing"
    BY <1>3 DEF FlowSound, FlowFields
  <2>2. Proceeds(f, NoJob)
    BY <2>1 DEF Proceeds
  <2> HIDE DEF f
  <2> QED BY <1>1, <1>2, <1>8, <2>1, <2>2, FlowGoesOn DEF f
<1>9. opened' \in Nat /\ FlowSound(flow') /\ JobFits'
  BY <1>4, <1>5, <1>6, <1>7, <1>8 DEF Wake, GoOn
<1> QED BY <1>1, <1>9, RunRowsStay DEF RunsInv

LEMMA StepsArePhases ==
    ASSUME NEW phase PROVE StepsFrom(phase) \in Seq(MissionPhases)
<1>1. /\ <<"SPECIFICATION_ANALYSIS", "BACKLOG_GENERATION", "WAITING_FOR_BACKLOG_APPROVAL">>
            \in Seq(MissionPhases)
      /\ <<"BACKLOG_GENERATION", "WAITING_FOR_BACKLOG_APPROVAL">> \in Seq(MissionPhases)
      /\ <<"WAITING_FOR_BACKLOG_APPROVAL">> \in Seq(MissionPhases) /\ <<>> \in Seq(MissionPhases)
  BY DEF MissionPhases
<1> QED BY <1>1 DEF StepsFrom

LEMMA MissionIsPlanned == ASSUME RunsInv, PlanStep PROVE RunsInv'
<1>1. UNCHANGED <<frow, chain, input, opened, flow, handling>> /\ job.kind = "plan"
  BY DEF PlanStep
<1>2. opened > 0 /\ opened \in Nat /\ Len(chain) = opened /\ Proceeds(flow, job)
  BY <1>1, JobProceeds
<1>3. DOMAIN job = {"kind", "of", "step", "answer"} /\ job.of \in Plans /\ flow.pc = "planning"
  BY <1>1, <1>2 DEF Proceeds, NoJob, None
<1>4. DOMAIN job' = DOMAIN job /\ job'.kind = "plan" /\ job'.of = job.of
  BY <1>1, <1>3 DEF PlanStep
<1>5. JobFits' /\ FlowSound(flow')
  <2>1. Proceeds(flow, job)'
    BY <1>1, <1>3, <1>4 DEF Proceeds
  <2> QED BY <1>1, <1>2, <2>1 DEF RunsInv, JobFits
<1>6. RunRowsTyped'
  <2>1. CASE UNCHANGED <<mrow, stored>>
    BY <1>1, <2>1 DEF RunsInv, RunRowsTyped
  <2>2. CASE ~UNCHANGED <<mrow, stored>>
    <3> DEFINE p == job.of
               steps == StepsFrom(post[p].phase)
               done == IF stored[p] = Nothing THEN 0 ELSE stored[p].steps
    <3>1. /\ done < Len(steps)
          /\ mrow' = [mrow EXCEPT !.version = @ + 1, !.phase = steps[done + 1]]
          /\ stored' = [stored EXCEPT ![p] = [steps |-> done + 1, scope |-> mrow']]
      BY <2>2 DEF PlanStep
    <3>2. p \in Plans /\ p \notin Controls
      BY <1>3, RunsAssumption
    <3>3. done \in Nat
      BY <3>2 DEF RunsInv, RunRowsTyped, Planned
    <3>4. steps \in Seq(MissionPhases)
      BY StepsArePhases
    <3> HIDE DEF p, steps, done
    <3>5. steps[done + 1] \in MissionPhases
      BY <3>1, <3>3, <3>4
    <3>6. mrow' \in MissionScopes
      <4>1. mrow \in MissionScopes
        BY DEF RunsInv, RunRowsTyped
      <4>2. mrow' = [version |-> mrow.version + 1, phase |-> steps[done + 1],
                     disposition |-> mrow.disposition, epoch |-> mrow.epoch]
        BY <3>1, <4>1 DEF MissionScopes
      <4> QED BY <3>5, <4>1, <4>2 DEF MissionScopes
    <3>7. [steps |-> done + 1, scope |-> mrow'] \in Planned
      BY <3>3, <3>6 DEF Planned
    <3>8. /\ DOMAIN stored' = DOMAIN stored
          /\ \A q \in DOMAIN stored : stored'[q] = stored[q] \/ (q = p /\ stored'[q] \in Planned)
      BY <3>1, <3>7
    <3>9. /\ DOMAIN stored' = Plans \cup Controls
          /\ \A q \in Plans : stored'[q] = Nothing \/ stored'[q] \in Planned
          /\ \A c \in Controls : stored'[c] = Nothing \/ stored'[c] \in Applied
      BY <3>2, <3>8 DEF RunsInv, RunRowsTyped
    <3> QED BY <1>1, <3>6, <3>9 DEF RunsInv, RunRowsTyped
  <2> QED BY <2>1, <2>2
<1>7. RowsInOrder'
  BY <1>1 DEF RunsInv, RowsInOrder
<1> QED BY <1>5, <1>6, <1>7 DEF RunsInv

\* A safe boundary changes what is counted.
LEMMA MarkedIsSound ==
    ASSUME NEW f, FlowSound(f), NEW accepted, NEW g \in Marked(f, accepted)
    PROVE  FlowSound(g) /\ g.pc = f.pc /\ g.n = f.n
<1> DEFINE n == IF accepted THEN 1 ELSE 0
<1>1. PICK due : g = [f EXCEPT !.boundaries = @ + n, !.accepted = @ + n, !.pending = due]
  BY DEF Marked
<1>2. n \in Nat
  OBVIOUS
<1> HIDE DEF n
<1>3. /\ DOMAIN g = FlowFields /\ g.pc = f.pc /\ g.n = f.n /\ g.token = f.token
      /\ g.accepted = f.accepted + n /\ g.plans = f.plans /\ g.command = f.command
  BY <1>1 DEF FlowSound, FlowFields
<1> QED BY <1>2, <1>3 DEF FlowSound

LEMMA PlanningIsTaken == ASSUME RunsInv, TakePlanning PROVE RunsInv'
<1>1. UNCHANGED <<mrow, frow, chain, input, stored, handling>>
  BY DEF TakePlanning
<1>2. opened > 0 /\ Len(chain) = opened
  BY JobProceeds DEF TakePlanning
<1> DEFINE f == [flow EXCEPT !.command = None]
           h == [f EXCEPT !.version = job.answer.scope.version,
                          !.phase = job.answer.scope.phase,
                          !.disposition = job.answer.scope.disposition]
<1>3. FlowSound(f)
  BY DEF RunsInv, FlowSound, FlowFields
<1>4. FlowSound(h)
  BY <1>3 DEF FlowSound, FlowFields
<1>5. AtTop(f, Handlers) \/ \E g \in Marked(h, ~job.answer.duplicate) : AtTop(g, Handlers)
  BY DEF TakePlanning
<1> HIDE DEF f, h
<1>6. \E g : FlowSound(g) /\ AtTop(g, Handlers)
  BY <1>3, <1>4, <1>5, MarkedIsSound
<1>7. opened' \in Nat /\ FlowSound(flow') /\ JobFits'
  BY <1>1, <1>2, <1>6, GoesOnAtTop
<1> QED BY <1>1, <1>7, RunRowsStay DEF RunsInv

LEMMA ApprovalIsTaken == ASSUME RunsInv, TakeApproval PROVE RunsInv'
<1>1. UNCHANGED <<mrow, frow, chain, input, stored, handling>>
  BY DEF TakeApproval
<1>2. opened > 0 /\ Len(chain) = opened
  BY JobProceeds DEF TakeApproval
<1> DEFINE seen == job.answer.scope
           f == [flow EXCEPT !.version = seen.version, !.phase = seen.phase,
                             !.disposition = seen.disposition,
                             !.epoch = IF job.answer.granted THEN seen.epoch ELSE @]
<1>3. FlowSound(f)
  BY DEF RunsInv, FlowSound, FlowFields
<1>4. \E accepted : \E g \in Marked(f, accepted) : AtTop(g, Handlers)
  BY DEF TakeApproval
<1> HIDE DEF f
<1>5. \E g : FlowSound(g) /\ AtTop(g, Handlers)
  BY <1>3, <1>4, MarkedIsSound
<1>6. opened' \in Nat /\ FlowSound(flow') /\ JobFits'
  BY <1>1, <1>2, <1>5, GoesOnAtTop
<1> QED BY <1>1, <1>6, RunRowsStay DEF RunsInv

LEMMA PlanIsApproved == ASSUME RunsInv, Approve PROVE RunsInv'
<1>1. UNCHANGED <<frow, chain, input, stored, handling, opened, flow, job>>
  BY DEF Approve
<1>2. mrow' \in MissionScopes
  BY DEF Approve, Row, MissionScopes, MissionPhases, RunsInv, RunRowsTyped
<1>3. RunRowsTyped' /\ RowsInOrder'
  BY <1>1, <1>2 DEF RunsInv, RunRowsTyped, RowsInOrder
<1> QED BY <1>1, <1>3, JobStays DEF RunsInv

LEMMA ApprovalIsRevalidated == ASSUME RunsInv, Revalidate PROVE RunsInv'
<1>1. UNCHANGED <<mrow, frow, chain, input, stored, opened, flow, handling>> /\ job.kind = "approval"
  BY DEF Revalidate
<1>2. opened > 0 /\ opened \in Nat /\ Len(chain) = opened /\ Proceeds(flow, job)
  BY <1>1, JobProceeds
<1>3. Proceeds(flow, job)'
  <2>1. DOMAIN job' = DOMAIN job /\ job'.kind = job.kind
    BY <1>1, <1>2 DEF Proceeds, Revalidate, NoJob, None
  <2> QED BY <1>1, <1>2, <2>1 DEF Proceeds, NoJob, None
<1>4. JobFits' /\ FlowSound(flow')
  BY <1>1, <1>2, <1>3 DEF RunsInv, JobFits
<1> QED BY <1>1, <1>2, <1>4, RunRowsStay DEF RunsInv

LEMMA FenceIsRead == ASSUME RunsInv, ReadFence PROVE RunsInv'
<1>1. UNCHANGED <<mrow, chain, input, stored, handling>> /\ frow' = FenceNow
  BY DEF ReadFence
<1>2. opened > 0 /\ Len(chain) = opened
  BY JobProceeds DEF ReadFence
<1>3. FenceGoesOn
  BY <1>1, FenceFollows
<1>4. FenceNow.token \in Nat \ {0}
  BY DEF FenceNow, RunsInv, RunRowsTyped
<1> DEFINE f == [flow EXCEPT !.pc = "runnable", !.version = mrow.version, !.phase = mrow.phase,
                             !.disposition = mrow.disposition, !.epoch = mrow.epoch,
                             !.token = FenceNow.token]
<1>5. FlowSound(f) /\ f.pc = "runnable"
  BY <1>4 DEF RunsInv, FlowSound, FlowFields
<1>6. Stays(f, NoJob)
  BY DEF ReadFence
<1> HIDE DEF f
<1>7. Proceeds(f, NoJob)
  BY <1>5 DEF Proceeds
<1>8. opened' \in Nat /\ FlowSound(flow') /\ JobFits'
  BY <1>1, <1>2, <1>5, <1>6, <1>7, FlowGoesOn
<1>9. RunRowsTyped'
  BY <1>1, <1>3, <1>8 DEF RunsInv, RunRowsTyped, FenceGoesOn
<1> QED BY <1>1, <1>3, <1>8, <1>9, RowsStayInOrder DEF RunsInv

LEMMA ControlIsApplied == ASSUME RunsInv, NEW c \in Controls, ApplyControl(c) PROVE RunsInv'
<1>1. UNCHANGED <<chain, input, opened, flow, job>>
  BY DEF ApplyControl
<1>2. /\ mrow \in MissionScopes /\ frow.token \in Nat
      /\ handling \in [Controls -> Handled] /\ DOMAIN stored = Plans \cup Controls
      /\ stored[c] = Nothing \/ stored[c] \in Applied
  BY DEF RunsInv, RunRowsTyped
<1>3. handling[c] # Nothing /\ handling[c] \in [answer : {Nothing, Says("rejected")} \cup
                              [is : {"applied"}, result : Applied, duplicate : BOOLEAN]]
  BY <1>2 DEF ApplyControl, Handlers, Handled
<1>4. \A a \in {Nothing, Says("rejected")} \cup
                    [is : {"applied"}, result : Applied, duplicate : BOOLEAN] :
         [handling EXCEPT ![c].answer = a] \in [Controls -> Handled]
  BY <1>2, <1>3 DEF Handled
<1>5. CASE stored[c] # Nothing
  <2>1. ControlResult(stored[c], TRUE) \in [is : {"applied"}, result : Applied, duplicate : BOOLEAN]
    BY <1>2, <1>5 DEF ControlResult
  <2>4. handling' = [handling EXCEPT ![c].answer = ControlResult(stored[c], TRUE)]
        /\ UNCHANGED <<mrow, frow, stored>>
    BY <1>5 DEF ApplyControl
  <2>2. handling' \in [Controls -> Handled] /\ UNCHANGED <<mrow, frow, stored>>
    BY <1>4, <2>1, <2>4
  <2>3. RunRowsTyped' /\ RowsInOrder'
    BY <1>1, <2>2 DEF RunsInv, RunRowsTyped, RowsInOrder
  <2> QED BY <1>1, <2>3, JobStays DEF RunsInv
<1>6. CASE frow' = FenceNow /\ handling' = [handling EXCEPT ![c].answer = Says("rejected")]
           /\ UNCHANGED <<mrow, stored>>
  <2>1. handling' \in [Controls -> Handled]
    BY <1>4, <1>6
  <2>2. FenceGoesOn
    BY <1>6, FenceFollows
  <2>3. RunRowsTyped'
    BY <1>1, <1>6, <2>1, <2>2 DEF RunsInv, RunRowsTyped, FenceGoesOn
  <2> QED BY <1>1, <2>2, <2>3, RowsStayInOrder, JobStays DEF RunsInv
<1> DEFINE agreed == /\ post[c].version = mrow.version /\ post[c].token = FenceNow.token
                     /\ mrow.disposition = IF c \in Pauses THEN "RUNNING" ELSE "PAUSED"
<1>7. CASE stored[c] = Nothing /\ agreed
  <2> DEFINE to == IF c \in Pauses THEN "PAUSED" ELSE "RUNNING"
             bound == [scope |-> mrow', token |-> FenceNow.token + 1]
  <2>1. /\ mrow' = [mrow EXCEPT !.version = @ + 1, !.disposition = to]
        /\ frow' = [token |-> FenceNow.token + 1, scope |-> mrow']
        /\ stored' = [stored EXCEPT ![c] = bound]
        /\ handling' = [handling EXCEPT ![c].answer = ControlResult(stored'[c], FALSE)]
    BY <1>7 DEF ApplyControl
  <2>2. mrow' \in MissionScopes
    <3>1. mrow' = [version |-> mrow.version + 1, phase |-> mrow.phase, disposition |-> to,
                   epoch |-> mrow.epoch]
      BY <1>2, <2>1 DEF MissionScopes
    <3>2. to \in {"RUNNING", "PAUSED"}
      OBVIOUS
    <3> HIDE DEF to
    <3> QED BY <1>2, <3>1, <3>2 DEF MissionScopes
  <2>3. FenceNow.token \in Nat /\ FenceNow.token >= frow.token
    BY <1>2 DEF FenceNow
  <2>4. bound \in Applied
    BY <2>2, <2>3 DEF Applied
  <2>5. FenceGoesOn
    BY <1>2, <2>1, <2>2, <2>3 DEF FenceGoesOn
  <2> HIDE DEF bound
  <2>6. /\ DOMAIN stored' = DOMAIN stored /\ stored'[c] = bound
        /\ \A q \in DOMAIN stored : q # c => stored'[q] = stored[q]
    BY <1>2, <2>1
  <2>7. ControlResult(stored'[c], FALSE) \in [is : {"applied"}, result : Applied, duplicate : BOOLEAN]
    BY <2>4, <2>6 DEF ControlResult
  <2>8. handling' \in [Controls -> Handled]
    BY <1>4, <2>1, <2>7
  <2>9. /\ \A p \in Plans : stored'[p] = Nothing \/ stored'[p] \in Planned
        /\ \A q \in Controls : stored'[q] = Nothing \/ stored'[q] \in Applied
    BY <2>4, <2>6, RunsAssumption DEF RunsInv, RunRowsTyped
  <2>10. RunRowsTyped'
    BY <1>1, <2>2, <2>5, <2>6, <2>8, <2>9 DEF RunsInv, RunRowsTyped, FenceGoesOn
  <2> QED BY <1>1, <2>5, <2>10, RowsStayInOrder, JobStays DEF RunsInv
<1>8. CASE stored[c] = Nothing /\ ~agreed
  BY <1>6, <1>8 DEF ApplyControl
<1> QED BY <1>5, <1>7, <1>8

LEMMA ControlIsTaken == ASSUME RunsInv, NEW c \in Controls, TakeControl(c) PROVE RunsInv'
<1>1. UNCHANGED <<mrow, frow, chain, input, stored, opened, job>>
  BY DEF TakeControl
<1>2. handling' \in [Controls -> Handled]
  BY DEF TakeControl, RunsInv, RunRowsTyped, Handled
<1>3. FlowSound(flow') /\ flow'.pc = flow.pc /\ flow'.n = flow.n
  <2> DEFINE answer == handling[c].answer
             f == [flow EXCEPT !.version = answer.result.scope.version,
                               !.phase = answer.result.scope.phase,
                               !.disposition = answer.result.scope.disposition,
                               !.token = answer.result.token]
  <2>1. CASE answer.is # "rejected" /\ answer.result.token >= flow.token
             /\ flow' \in Marked(f, ~answer.duplicate)
    <3>1. handling[c] \in Handled /\ handling[c] # Nothing /\ handling[c].answer # Nothing
      BY DEF TakeControl, Handlers, RunsInv, RunRowsTyped
    <3>2. answer \in [is : {"applied"}, result : Applied, duplicate : BOOLEAN]
      BY <3>1, <2>1 DEF Handled, Says
    <3>3. answer.result.token \in Nat \ {0}
      BY <2>1, <3>2 DEF Applied, RunsInv, FlowSound
    <3> HIDE DEF answer
    <3>4. FlowSound(f) /\ f.pc = flow.pc /\ f.n = flow.n
      BY <3>3 DEF RunsInv, FlowSound, FlowFields
    <3> HIDE DEF f
    <3> QED BY <2>1, <3>4, MarkedIsSound
  <2>2. CASE flow' = flow
    BY <2>2 DEF RunsInv
  <2> QED BY <2>1, <2>2 DEF TakeControl
<1>4. RunRowsTyped' /\ RowsInOrder'
  BY <1>1, <1>2 DEF RunsInv, RunRowsTyped, RowsInOrder
<1> QED BY <1>1, <1>3, <1>4, JobStays DEF RunsInv

LEMMA RunsStep == RunsInv /\ [MRNext]_mrvars => RunsInv'
<1> SUFFICES ASSUME RunsInv, [MRNext]_mrvars PROVE RunsInv'
  OBVIOUS
<1>1. CASE UNCHANGED mrvars
  <2>1. RunRowsTyped' /\ RowsInOrder'
    BY <1>1, RunRowsStay DEF mrvars, RunsInv, RunRowsTyped
  <2> QED BY <1>1, <2>1, JobStays DEF mrvars, RunsInv
<1>2. CASE MRNext
  BY <1>2, InputIsRead, RegistrationIsChecked, RegistrationIsInserted, RegistrationIsTaken,
     AnswersAreLost, RunWakes, MissionIsPlanned, PlanningIsTaken, PlanIsApproved,
     ApprovalIsRevalidated, ApprovalIsTaken, FenceIsRead, CommandsAreSent, CommandsAreDelivered,
     ControlIsApplied, ControlIsTaken DEF MRNext
<1> QED BY <1>1, <1>2

LEMMA RunsHold == MRSpec => []RunsInv
  BY RunsBegin, RunsStep, PTL DEF MRSpec

\* The rows of autonomous_mission_temporal_runs are the runs Temporal started, in order, of which
\* only the newest may be missing, and a refused run has none; tokens never fall along them, and
\* one token names one disposition and epoch. For any commands, answers lost and rollovers.
THEOREM RunsAreOneChain == MRSpec => []OneChain
<1>1. RunsInv => OneChain
  <2> SUFFICES ASSUME RunsInv PROVE OneChain
    OBVIOUS
  <2>1. Len(chain) \in {opened, opened - 1}
    BY ChainIsTyped DEF RunsInv, RunRowsTyped, JobFits
  <2>2. flow.pc = "unregistered" => Len(chain) < opened
    <3>1. opened \in Nat /\ Len(chain) \in Nat
      BY ChainIsTyped DEF RunsInv, RunRowsTyped
    <3> QED BY <3>1 DEF RunsInv, JobFits, Registers, Proceeds
  <2> QED BY <2>1, <2>2 DEF RunsInv, RowsInOrder, OneChain
<1> QED BY <1>1, RunsHold, PTL

-----------------------------------------------------------------------------
(* The children of a mission (coding_delivery.py, orchestration/temporal).   *)

USE ItemsAssumption

ItemRows == [status : {"READY", "RUNNING", "FAILED", "DONE"}, attempt : Nat]
ChildJobs == [item : DItems, attempt : Nat, epoch : Nat, authorized : BOOLEAN, evidence : BOOLEAN,
              completed : BOOLEAN, checkpoint : BOOLEAN, reconciled : BOOLEAN,
              retry : {"none", "asked", "settled"}]
DJobs == 1..Len(jobs)

\* The rows of the items and of the jobs, and which fields the rest has.
ChildrenTyped ==
    /\ todo \in [DItems -> ItemRows]
    /\ jobs \in Seq(ChildJobs)
    /\ md.epoch \in Nat
    /\ md = [phase |-> md.phase, disposition |-> md.disposition, version |-> md.version,
             token |-> md.token, epoch |-> md.epoch]
    /\ parent = [pc |-> parent.pc, phase |-> parent.phase, disposition |-> parent.disposition,
                 version |-> parent.version, token |-> parent.token, prepared |-> parent.prepared,
                 job |-> parent.job, active |-> parent.active, retry |-> parent.retry,
                 handoff |-> parent.handoff]
    /\ {"pc", "job"} \subseteq DOMAIN child
    /\ "name" \in DOMAIN act /\ (act.name # "none" => "at" \in DOMAIN act)
    /\ act.name \in {"prepare", "settle", "reconcile"} => "job" \in DOMAIN act

\* Where the parent waits for each activity.
PlaceOfAct == [fence |-> "top", enter |-> "entering", prepare |-> "preparing",
               complete |-> "finished", settle |-> "settling", reconcile |-> "accepted"]

\* The run method waits for one thing at a time: an activity, where it was
\* scheduled, or the child, which has closed everywhere else.
OneThingAwaited ==
    /\ act.name \in {"none"} \cup DOMAIN PlaceOfAct
    /\ act.name # "none" => parent.pc = PlaceOfAct[act.name]
    /\ parent.pc \notin {"starting", "child"} => child.pc = "ended"
    /\ act.name \in {"settle", "reconcile"} => act.job = child.job

\* The job that the parent is busy with: as it is prepared, by its child, and
\* when that has closed.
WorkJobs ==
    (IF act.name = "prepare" /\ act.at = "ready" THEN {act.job} ELSE {})
    \cup (IF parent.pc = "prepared" THEN {parent.prepared} ELSE {})
    \cup (IF parent.pc \in {"starting", "child", "settling", "accepted"} THEN {child.job} ELSE {})

SameWork(j, k) == jobs[j].item = jobs[k].item /\ jobs[j].epoch = jobs[k].epoch

\* It is of the newest epoch that has jobs, it is settled by the parent only, and
\* no other child of its item was accepted in its epoch.
WorkIsNewest ==
    \A j \in WorkJobs :
        /\ j \in DJobs
        /\ jobs[j].epoch # md.epoch => \A k \in DJobs : jobs[k].epoch # md.epoch
        /\ jobs[j].retry = "settled" => parent.pc = "settling"
        /\ \A k \in DJobs \ {j} : SameWork(j, k) => ~jobs[k].completed

\* settle_retry found what its next transactions rely on, and the item that was
\* reserved is the one that gets a job.
ActHolds ==
    /\ act.name = "settle" =>
          /\ act.at \in {"check", "fail", "ready", "insert", "settled"}
          /\ act.at \in {"fail", "ready", "insert"} =>
                jobs[act.job].retry = "asked" /\ ~jobs[act.job].completed
          /\ act.at = "settled" => jobs[act.job].retry = "settled"
    /\ act.name = "prepare" /\ act.at = "insert" =>
          Offered # {} /\ todo[Candidate].status = "RUNNING"

\* An attempt has one job in an epoch, no job is of a later epoch, and a settled
\* one was not accepted.
JobsApart ==
    /\ \A j, k \in DJobs : j # k /\ SameWork(j, k) => jobs[j].attempt # jobs[k].attempt
    /\ \A j \in DJobs : /\ jobs[j].epoch <= md.epoch
                        /\ jobs[j].retry = "settled" => ~jobs[j].completed

\* A job of this epoch that is not settled is the attempt its item is at, and the
\* item is running or done, unless it is being settled.
JobsCurrent ==
    \A j \in DJobs : jobs[j].epoch = md.epoch /\ jobs[j].retry # "settled" =>
        /\ jobs[j].attempt = todo[jobs[j].item].attempt
        /\ \/ todo[jobs[j].item].status \in {"RUNNING", "DONE"}
           \/ /\ act.name = "settle" /\ act.job = j /\ jobs[j].retry = "asked"
              /\ ~jobs[j].completed

AcceptedApart == \A j, k \in DJobs : j # k /\ SameWork(j, k) => ~(jobs[j].completed /\ jobs[k].completed)

ChildrenInv ==
    /\ ChildrenTyped /\ OneThingAwaited /\ WorkIsNewest /\ ActHolds
    /\ JobsApart /\ JobsCurrent /\ AcceptedApart

LEMMA ChildrenStart == DInit => ChildrenInv
<1> SUFFICES ASSUME DInit PROVE ChildrenInv
  OBVIOUS
<1>1. ChildrenTyped
  <2>1. todo \in [DItems -> ItemRows] /\ jobs \in Seq(ChildJobs)
    BY DEF DInit, ItemRows
  <2> QED
    BY <2>1 DEF DInit, ChildrenTyped, NoChild, NoAct
<1>2. DJobs = {} /\ WorkJobs = {} /\ act.name = "none"
  BY DEF DInit, DJobs, WorkJobs, NoAct
<1>3. OneThingAwaited /\ ActHolds
  BY <1>2 DEF DInit, OneThingAwaited, ActHolds, NoChild, PlaceOfAct
<1> QED
  BY <1>1, <1>2, <1>3 DEF ChildrenInv, WorkIsNewest, JobsApart, JobsCurrent, AcceptedApart

LEMMA JobRow ==
  ASSUME jobs \in Seq(ChildJobs)
  PROVE  /\ Len(jobs) \in Nat /\ DOMAIN jobs = DJobs
         /\ \A j \in DJobs : /\ jobs[j] \in ChildJobs /\ jobs[j].item \in DItems
                             /\ jobs[j].attempt \in Nat /\ jobs[j].epoch \in Nat
                             /\ jobs[j].completed \in BOOLEAN
                             /\ jobs[j].retry \in {"none", "asked", "settled"}
<1>1. Len(jobs) \in Nat /\ DOMAIN jobs = DJobs /\ \A j \in DJobs : jobs[j] \in ChildJobs
  BY DEF DJobs
<1> QED
  BY <1>1 DEF ChildJobs

\* A step that makes no job, completes and settles none, and moves an item to
\* done at most, keeps what the jobs and items say of each other.
LEMMA DataKeeps ==
  ASSUME ChildrenInv, Len(jobs') = Len(jobs), md'.epoch = md.epoch,
         \A j \in DJobs :
            /\ jobs'[j].item = jobs[j].item /\ jobs'[j].attempt = jobs[j].attempt
            /\ jobs'[j].epoch = jobs[j].epoch /\ jobs'[j].completed = jobs[j].completed
            /\ \/ jobs'[j].retry = jobs[j].retry
               \/ jobs[j].retry = "none" /\ jobs'[j].retry = "asked",
         \A i \in DItems : /\ todo'[i].attempt = todo[i].attempt
                          /\ todo'[i].status \in {todo[i].status, "DONE"},
         ChildrenTyped', OneThingAwaited', ActHolds',
         WorkJobs' \subseteq WorkJobs,
         parent.pc = "settling" => parent'.pc = "settling" \/ WorkJobs' = {},
         (act.name = "settle" /\ jobs[act.job].retry = "asked" /\ ~jobs[act.job].completed) =>
            act'.name = "settle" /\ act'.job = act.job
  PROVE  ChildrenInv'
<1>1. DJobs' = DJobs
  BY DEF DJobs
<1>2. \A j \in DJobs : jobs[j] \in ChildJobs /\ jobs[j].item \in DItems
  BY JobRow DEF ChildrenInv, ChildrenTyped
<1>3. \A j, k \in DJobs : SameWork(j, k)' <=> SameWork(j, k)
  BY DEF SameWork
<1>4. WorkIsNewest'
  <2> SUFFICES ASSUME NEW j \in WorkJobs'
               PROVE  /\ j \in DJobs
                      /\ jobs'[j].epoch # md.epoch => \A k \in DJobs : jobs'[k].epoch # md.epoch
                      /\ jobs'[j].retry = "settled" => parent'.pc = "settling"
                      /\ \A k \in DJobs \ {j} : SameWork(j, k)' => ~jobs'[k].completed
    BY <1>1 DEF WorkIsNewest
  <2>1. /\ j \in DJobs
        /\ jobs[j].epoch # md.epoch => \A k \in DJobs : jobs[k].epoch # md.epoch
        /\ jobs[j].retry = "settled" => parent.pc = "settling"
        /\ \A k \in DJobs \ {j} : SameWork(j, k) => ~jobs[k].completed
    BY DEF ChildrenInv, WorkIsNewest
  <2> QED
    BY <1>3, <2>1
<1>5. JobsApart'
  <2>1. JobsApart
    BY DEF ChildrenInv
  <2>2. \A j, k \in DJobs : j # k /\ SameWork(j, k)' => jobs'[j].attempt # jobs'[k].attempt
    BY <1>3, <2>1 DEF JobsApart
  <2>3. \A j \in DJobs : /\ jobs'[j].epoch <= md'.epoch
                         /\ jobs'[j].retry = "settled" => ~jobs'[j].completed
    BY <2>1 DEF JobsApart
  <2> QED
    BY <1>1, <2>2, <2>3 DEF JobsApart
<1>6. JobsCurrent'
  <2> SUFFICES ASSUME NEW j \in DJobs, jobs'[j].epoch = md.epoch, jobs'[j].retry # "settled"
               PROVE  /\ jobs'[j].attempt = todo'[jobs'[j].item].attempt
                      /\ \/ todo'[jobs'[j].item].status \in {"RUNNING", "DONE"}
                         \/ /\ act'.name = "settle" /\ act'.job = j /\ jobs'[j].retry = "asked"
                            /\ ~jobs'[j].completed
    BY <1>1 DEF JobsCurrent
  <2>1. /\ jobs[j].attempt = todo[jobs[j].item].attempt
        /\ \/ todo[jobs[j].item].status \in {"RUNNING", "DONE"}
           \/ /\ act.name = "settle" /\ act.job = j /\ jobs[j].retry = "asked"
              /\ ~jobs[j].completed
    BY DEF ChildrenInv, JobsCurrent
  <2> QED
    BY <1>2, <2>1
<1>7. AcceptedApart'
  <2>1. AcceptedApart
    BY DEF ChildrenInv
  <2> QED
    BY <1>1, <1>3, <2>1 DEF AcceptedApart
<1> QED
  BY <1>4, <1>5, <1>6, <1>7 DEF ChildrenInv

\* A step beside the jobs and the items.
LEMMA BesideKeeps ==
  ASSUME ChildrenInv, UNCHANGED <<jobs, todo>>, md'.epoch = md.epoch,
         ChildrenTyped', OneThingAwaited', ActHolds',
         WorkJobs' \subseteq WorkJobs,
         parent.pc = "settling" => parent'.pc = "settling" \/ WorkJobs' = {},
         (act.name = "settle" /\ jobs[act.job].retry = "asked" /\ ~jobs[act.job].completed) =>
            act'.name = "settle" /\ act'.job = act.job
  PROVE  ChildrenInv'
  BY DataKeeps

\* A step of a command or of the child: the run method stays where it is.
LEMMA AsideKeeps ==
  ASSUME ChildrenInv, UNCHANGED <<jobs, todo, act>>, md'.epoch = md.epoch, ChildrenTyped',
         parent'.pc = parent.pc, parent'.prepared = parent.prepared,
         child'.job = child.job, child.pc = "ended" => child'.pc = "ended"
  PROVE  ChildrenInv'
<1>1. OneThingAwaited' /\ WorkJobs' = WorkJobs
  BY DEF ChildrenInv, OneThingAwaited, WorkJobs
<1>2. ActHolds'
  BY DEF ChildrenInv, ActHolds, Offered, Candidate
<1> QED
  BY <1>1, <1>2, BesideKeeps

\* The run method goes on beyond an activity or a child, with nothing prepared.
LEMMA WaitsKeeps ==
  ASSUME ChildrenInv, UNCHANGED <<jobs, todo, child>>, md'.epoch = md.epoch, ChildrenTyped',
         act' = NoAct, parent.pc \notin {"starting", "child"} \/ child.pc = "ended",
         parent'.pc \notin {"starting", "child", "prepared", "settling", "accepted"},
         act.name = "settle" => jobs[act.job].retry # "asked" \/ jobs[act.job].completed
  PROVE  ChildrenInv'
<1>1. act'.name = "none"
  BY DEF NoAct
<1>2. OneThingAwaited' /\ ActHolds' /\ WorkJobs' = {}
  BY <1>1 DEF ChildrenInv, OneThingAwaited, ActHolds, WorkJobs
<1> QED
  BY <1>2, BesideKeeps

\* A parent's step that changes its place, its phase or what it knows of the fence.
LEMMA ParentTyped ==
  ASSUME ChildrenTyped,
         \/ \E p : parent' = [parent EXCEPT !.pc = p]
         \/ \E p, f, v, k, d : parent' = [parent EXCEPT !.pc = p, !.phase = f, !.version = v,
                                               !.token = k, !.disposition = d]
         \/ \E p, q, j : parent' = [parent EXCEPT !.pc = p, !.prepared = q, !.job = j]
         \/ \E p, v, j : parent' = [parent EXCEPT !.pc = p, !.version = v, !.job = j]
         \/ \E p, r, j : parent' = [parent EXCEPT !.pc = p, !.retry = r, !.job = j]
         \/ \E p, b : parent' = [parent EXCEPT !.pc = p, !.active = b]
  PROVE  parent' = [pc |-> parent'.pc, phase |-> parent'.phase, disposition |-> parent'.disposition,
                    version |-> parent'.version, token |-> parent'.token, prepared |-> parent'.prepared,
                    job |-> parent'.job, active |-> parent'.active, retry |-> parent'.retry,
                    handoff |-> parent'.handoff]
  BY DEF ChildrenTyped

LEMMA ActFailsKeeps ==
  ASSUME ChildrenInv, UNCHANGED <<md, jobs, todo, child>>, ActFails, act.name # "none",
         act.name = "settle" => ~Settles(act.job)
  PROVE  ChildrenInv'
<1>1. act' = NoAct /\ \E p \in {"stuck", "superseded"} : parent' = [parent EXCEPT !.pc = p]
  BY DEF ActFails, Failed, Waits
<1>2. parent'.pc \in {"stuck", "superseded"}
  BY <1>1 DEF ChildrenInv, ChildrenTyped
<1>3. ChildrenTyped'
  BY <1>1, ParentTyped DEF ChildrenInv, ChildrenTyped, NoAct
<1>4. parent.pc \notin {"starting", "child"}
  BY DEF ChildrenInv, OneThingAwaited, PlaceOfAct
<1>5. act.name = "settle" => jobs[act.job].retry # "asked" \/ jobs[act.job].completed
  BY DEF Settles
<1> QED
  BY <1>1, <1>2, <1>3, <1>4, <1>5, WaitsKeeps

LEMMA OrdersKeep ==
  ASSUME ChildrenInv, NEW c \in Orders,
         \/ \E a \in OrderActions : Order(c, a)
         \/ TakeResult(c)
         \/ TakePreparation(c)
         \/ SeeChildGone(c)
         \/ TakeCompletion(c)
  PROVE  ChildrenInv'
<1>1. UNCHANGED <<md, todo, jobs, act, child>>
  BY DEF Order, TakeResult, TakePreparation, SeeChildGone, TakeCompletion
<1>2. /\ parent'.pc = parent.pc /\ parent'.prepared = parent.prepared
      /\ parent' = [pc |-> parent'.pc, phase |-> parent'.phase, disposition |-> parent'.disposition,
                    version |-> parent'.version, token |-> parent'.token, prepared |-> parent'.prepared,
                    job |-> parent'.job, active |-> parent'.active, retry |-> parent'.retry,
                    handoff |-> parent'.handoff]
  BY DEF ChildrenInv, ChildrenTyped, Order, TakeResult, TakePreparation, SeeChildGone, TakeCompletion
<1>3. ChildrenTyped'
  BY <1>1, <1>2 DEF ChildrenInv, ChildrenTyped
<1> QED
  BY <1>1, <1>2, <1>3, AsideKeeps

LEMMA ChildMoves ==
  ASSUME ChildrenInv,
         \/ ReadMail \/ ChildGoesOn \/ AdmitStage \/ LeaveStage
         \/ CheckScope \/ TakeCompleted \/ KillFinalize
  PROVE  ChildrenInv'
<1>1. UNCHANGED <<md, todo, jobs, act, parent>> /\ child.pc # "ended"
  BY DEF ReadMail, ChildGoesOn, AdmitStage, LeaveStage, CheckScope, TakeCompleted, KillFinalize
<1>2. child'.job = child.job /\ {"pc", "job"} \subseteq DOMAIN child'
  BY DEF ReadMail, ChildGoesOn, AdmitStage, LeaveStage, CheckScope, TakeCompleted, KillFinalize,
         Becomes, Ends, ChildrenInv, ChildrenTyped
<1>3. ChildrenTyped'
  BY <1>1, <1>2 DEF ChildrenInv, ChildrenTyped
<1> QED
  BY <1>1, <1>2, <1>3, AsideKeeps

\* The parent's steps that leave an activity, or wait for none.
LEMMA ParentLeaves ==
  ASSUME ChildrenInv, \/ TakeFence
                      \/ TakePhase
                      \/ AfterHandoff
                      \/ TakeSettled
                      \/ TakeReconciled
  PROVE  ChildrenInv'
<1>0. ChildrenTyped /\ OneThingAwaited /\ ActHolds
  BY DEF ChildrenInv
<1>1. UNCHANGED <<md, todo, jobs, child>> /\ act' = NoAct
  BY DEF TakeFence, TakePhase, AfterHandoff, TakeSettled, TakeReconciled
<1>2. /\ parent'.pc \in {"entering", "top", "done"}
      /\ parent' = [pc |-> parent'.pc, phase |-> parent'.phase, disposition |-> parent'.disposition,
                    version |-> parent'.version, token |-> parent'.token, prepared |-> parent'.prepared,
                    job |-> parent'.job, active |-> parent'.active, retry |-> parent'.retry,
                    handoff |-> parent'.handoff]
  BY <1>0 DEF TakeFence, TakePhase, AfterHandoff, TakeSettled, TakeReconciled, Waits, ChildrenTyped
<1>3. ChildrenTyped'
  BY <1>0, <1>1, <1>2 DEF ChildrenTyped, NoAct
<1>4. parent.pc \notin {"starting", "child"}
  BY <1>0 DEF TakeFence, TakePhase, AfterHandoff, TakeSettled, TakeReconciled, OneThingAwaited,
              PlaceOfAct
<1>5. act.name = "settle" => jobs[act.job].retry # "asked"
  BY <1>0 DEF TakeFence, TakePhase, AfterHandoff, TakeSettled, TakeReconciled, ActHolds, NoAct
<1> QED
  BY <1>1, <1>2, <1>3, <1>4, <1>5, WaitsKeeps

\* An activity that is scheduled.
LEMMA ActsScheduled ==
  ASSUME ChildrenInv, \/ ReadControlFence
                      \/ ScheduleEnter
                      \/ SchedulePrepare
                      \/ ScheduleComplete
                      \/ ScheduleSettle
                      \/ ScheduleReconcile
  PROVE  ChildrenInv'
<1>0. ChildrenTyped /\ OneThingAwaited
  BY DEF ChildrenInv
<1>1. UNCHANGED <<md, todo, jobs, child>> /\ act = NoAct /\ act.name = "none"
  BY DEF ReadControlFence, ScheduleEnter, SchedulePrepare, ScheduleComplete, ScheduleSettle,
         ScheduleReconcile, NoAct
<1>2. /\ parent'.pc = IF parent.pc = "top" /\ parent.phase # "approved" THEN "preparing" ELSE parent.pc
      /\ parent' = [pc |-> parent'.pc, phase |-> parent'.phase, disposition |-> parent'.disposition,
                    version |-> parent'.version, token |-> parent'.token, prepared |-> parent'.prepared,
                    job |-> parent'.job, active |-> parent'.active, retry |-> parent'.retry,
                    handoff |-> parent'.handoff]
      /\ parent'.prepared = parent.prepared
  BY <1>0 DEF ReadControlFence, ScheduleEnter, SchedulePrepare, ScheduleComplete, ScheduleSettle,
              ScheduleReconcile, Waits, ChildrenTyped
<1>3. /\ act'.name \in DOMAIN PlaceOfAct /\ parent'.pc = PlaceOfAct[act'.name]
      /\ {"name", "at"} \subseteq DOMAIN act'
      /\ act'.name \in {"prepare", "settle", "reconcile"} => "job" \in DOMAIN act'
      /\ act'.name \in {"settle", "reconcile"} => act'.job = child.job
      /\ act'.at \in {"read", "check", "begin"} /\ (act'.name = "settle" => act'.at = "check")
  BY <1>2 DEF ReadControlFence, ScheduleEnter, SchedulePrepare, ScheduleComplete, ScheduleSettle,
         ScheduleReconcile, ScheduleAct, PlaceOfAct
<1>4. ChildrenTyped'
  BY <1>0, <1>1, <1>2, <1>3 DEF ChildrenTyped, PlaceOfAct
<1>5. OneThingAwaited'
  BY <1>0, <1>1, <1>2, <1>3 DEF OneThingAwaited
<1>6. ActHolds' /\ WorkJobs' \subseteq WorkJobs
  BY <1>1, <1>2, <1>3 DEF ActHolds, WorkJobs
<1> QED
  BY <1>1, <1>2, <1>4, <1>5, <1>6, BesideKeeps

\* An activity that goes on, with no job in its hands yet.
LEMMA ActGoesOn ==
  ASSUME ChildrenInv, UNCHANGED <<jobs, todo, child, parent>>, md'.epoch = md.epoch,
         md' = [phase |-> md'.phase, disposition |-> md'.disposition, version |-> md'.version,
                token |-> md'.token, epoch |-> md'.epoch],
         act.name \in {"enter", "prepare", "complete"}, act'.name = act.name,
         {"name", "at"} \subseteq DOMAIN act',
         act.name = "prepare" => "job" \in DOMAIN act' /\ act'.at \notin {"ready", "insert"}
  PROVE  ChildrenInv'
<1>0. ChildrenTyped /\ OneThingAwaited
  BY DEF ChildrenInv
<1>1. ChildrenTyped'
  BY <1>0 DEF ChildrenTyped
<1>2. OneThingAwaited'
  BY <1>0 DEF OneThingAwaited
<1>3. ActHolds' /\ WorkJobs' \subseteq WorkJobs
  BY DEF ActHolds, WorkJobs
<1> QED
  BY <1>1, <1>2, <1>3, BesideKeeps

LEMMA ChecksKeep ==
  ASSUME ChildrenInv, EnterCheck \/ CompleteCheck \/ PrepareBegin
  PROVE  ChildrenInv'
<1>0. ChildrenTyped /\ OneThingAwaited /\ act.name \in {"enter", "complete", "prepare"}
  BY DEF ChildrenInv, EnterCheck, CompleteCheck, PrepareBegin
<1>1. UNCHANGED <<md, todo, jobs, child>>
  BY DEF EnterCheck, CompleteCheck, PrepareBegin
<1>2. \/ ActFails
      \/ /\ UNCHANGED parent
         /\ \E place \in {"moves", "choose"} : act' = [act EXCEPT !.at = place]
      \/ act.name = "enter" /\ act' = NoAct /\ parent' = [parent EXCEPT !.pc = "top"]
  BY DEF EnterCheck, CompleteCheck, PrepareBegin, Waits
<1>3. CASE ActFails
  BY <1>0, <1>1, <1>3, ActFailsKeeps
<1>4. ASSUME UNCHANGED parent, NEW place \in {"moves", "choose"}, act' = [act EXCEPT !.at = place]
      PROVE  ChildrenInv'
  <2>1. /\ act'.name = act.name /\ act'.at = place /\ {"name", "at"} \subseteq DOMAIN act'
        /\ act.name = "prepare" => "job" \in DOMAIN act'
    BY <1>0, <1>4 DEF ChildrenTyped
  <2>2. md' = [phase |-> md'.phase, disposition |-> md'.disposition, version |-> md'.version,
               token |-> md'.token, epoch |-> md'.epoch]
    BY <1>0, <1>1 DEF ChildrenTyped
  <2> QED
    BY <1>0, <1>1, <1>4, <2>1, <2>2, ActGoesOn
<1>5. CASE act.name = "enter" /\ act' = NoAct /\ parent' = [parent EXCEPT !.pc = "top"]
  <2>1. ChildrenTyped'
    BY <1>0, <1>1, <1>5, ParentTyped DEF ChildrenTyped, NoAct
  <2>2. parent'.pc = "top" /\ parent.pc = "entering"
    BY <1>0, <1>5 DEF ChildrenTyped, OneThingAwaited, PlaceOfAct
  <2> QED
    BY <1>1, <1>5, <2>1, <2>2, WaitsKeeps
<1> QED
  BY <1>2, <1>3, <1>4, <1>5

LEMMA TransitionKeeps ==
  ASSUME ChildrenInv, MakeTransition
  PROVE  ChildrenInv'
<1>0. ChildrenTyped /\ OneThingAwaited /\ act.name \in {"enter", "complete"}
  BY DEF ChildrenInv, MakeTransition
<1>1. UNCHANGED <<todo, jobs, child>>
  BY DEF MakeTransition
<1>2. \/ ActFails /\ UNCHANGED md
      \/ /\ UNCHANGED parent
         /\ \E f, v : md' = [md EXCEPT !.phase = f, !.version = v]
         /\ \E n, k : act' = [act EXCEPT !.made = n, !.token = k]
  BY DEF MakeTransition
<1>3. CASE ActFails /\ UNCHANGED md
  BY <1>0, <1>1, <1>3, ActFailsKeeps
<1>4. ASSUME UNCHANGED parent, NEW f, NEW v, md' = [md EXCEPT !.phase = f, !.version = v],
             NEW n, NEW k, act' = [act EXCEPT !.made = n, !.token = k]
      PROVE  ChildrenInv'
  <2>1. act'.name = act.name /\ {"name", "at"} \subseteq DOMAIN act'
    BY <1>0, <1>4 DEF ChildrenTyped
  <2>2. /\ md' = [phase |-> md'.phase, disposition |-> md'.disposition, version |-> md'.version,
                  token |-> md'.token, epoch |-> md'.epoch]
        /\ md'.epoch = md.epoch
    BY <1>0, <1>4 DEF ChildrenTyped
  <2> QED
    BY <1>0, <1>1, <1>4, <2>1, <2>2, ActGoesOn
<1> QED
  BY <1>2, <1>3, <1>4

\* A non-empty set of naturals has a least element.
LEMMA LeastOf == ASSUME NEW T \in SUBSET Nat, T # {} PROVE \E x \in T : \A y \in T : x <= y
<1> DEFINE R == OpToRel(<, Nat)
<1>1. IsWellFoundedOn(R, Nat)
  BY NatLessThanWellFounded, Zenon
<1>2. \A x, y \in Nat : x < y => <<x, y>> \in R
  BY DEF OpToRel
<1>3. \E x \in T : \A y \in T : ~(<<y, x>> \in R)
  <2> HIDE DEF R
  <2> QED BY <1>1, WFMin
<1> HIDE DEF R
<1>4. \A x, y \in T : ~(y < x) => x <= y
  OBVIOUS
<1> QED BY <1>2, <1>3, <1>4

LEMMA OpenJobFound == OpenJobs # {} => OpenJob \in OpenJobs
<1> SUFFICES ASSUME OpenJobs # {} PROVE OpenJob \in OpenJobs
  OBVIOUS
<1>1. OpenJobs \in SUBSET Nat
  BY DEF OpenJobs
<1>2. \E j \in OpenJobs : \A k \in OpenJobs : j <= k
  BY <1>1, LeastOf
<1> QED
  BY <1>2 DEF OpenJob

LEMMA CandidateFound == Offered # {} => Candidate \in Offered
<1> SUFFICES ASSUME Offered # {} PROVE Candidate \in Offered
  OBVIOUS
<1>1. Offered \in SUBSET Nat
  BY DEF Offered, DItems
<1>2. \E i \in Offered : \A k \in Offered : i <= k
  BY <1>1, LeastOf
<1> QED
  BY <1>2 DEF Candidate

\* Two jobs of this epoch that are not settled are not of one item, so an open
\* job is found only where no child of its item was accepted.
LEMMA OpenJobIsAlone ==
  ASSUME ChildrenInv, act.name # "settle", NEW j \in OpenJobs
  PROVE  /\ j \in DJobs /\ jobs[j].epoch = md.epoch /\ jobs[j].retry = "none"
         /\ \A k \in DJobs \ {j} : SameWork(j, k) => ~jobs[k].completed
<1>1. j \in DJobs /\ jobs[j].epoch = md.epoch /\ jobs[j].retry = "none"
  BY DEF OpenJobs, DJobs
<1>2. ASSUME NEW k \in DJobs \ {j}, SameWork(j, k), jobs[k].completed PROVE FALSE
  <2>1. jobs[k].epoch = md.epoch /\ jobs[k].item = jobs[j].item
    BY <1>1, <1>2 DEF SameWork
  <2>2. jobs[k].retry # "settled"
    BY <1>2 DEF ChildrenInv, JobsApart
  <2>3. jobs[k].attempt = todo[jobs[k].item].attempt /\ jobs[j].attempt = todo[jobs[j].item].attempt
    BY <1>1, <2>1, <2>2 DEF ChildrenInv, JobsCurrent
  <2> QED
    BY <1>1, <1>2, <2>1, <2>3 DEF ChildrenInv, JobsApart
<1> QED
  BY <1>1, <1>2

LEMMA ChooseKeeps ==
  ASSUME ChildrenInv, Choose
  PROVE  ChildrenInv'
<1>0. ChildrenTyped /\ OneThingAwaited /\ act.name = "prepare" /\ parent.pc = "preparing"
  BY DEF ChildrenInv, Choose, OneThingAwaited, PlaceOfAct
<1>1. UNCHANGED <<md, todo, jobs, parent, child>>
  BY DEF Choose
<1>2. CASE OpenJob # 0 /\ act' = [act EXCEPT !.at = "ready", !.job = OpenJob]
  <2>1. /\ act'.name = "prepare" /\ act'.at = "ready" /\ act'.job = OpenJob
        /\ {"name", "at", "job"} \subseteq DOMAIN act'
    BY <1>0, <1>2 DEF ChildrenTyped
  <2>2. ChildrenTyped'
    BY <1>0, <1>1, <2>1 DEF ChildrenTyped
  <2>3. OneThingAwaited' /\ ActHolds' /\ WorkJobs' = {OpenJob}
    BY <1>0, <1>1, <2>1 DEF OneThingAwaited, ActHolds, WorkJobs
  <2>4. PICK j : j = OpenJob
    OBVIOUS
  <2>5. j \in OpenJobs
    BY <1>2, <2>4, OpenJobFound DEF OpenJob
  <2>6. /\ j \in DJobs /\ jobs[j].epoch = md.epoch /\ jobs[j].retry = "none"
        /\ \A k \in DJobs \ {j} : SameWork(j, k) => ~jobs[k].completed
    BY <1>0, <2>5, OpenJobIsAlone
  <2>7. WorkIsNewest'
    BY <1>1, <2>3, <2>4, <2>6 DEF WorkIsNewest, SameWork, DJobs
  <2>8. JobsApart' /\ JobsCurrent' /\ AcceptedApart'
    BY <1>0, <1>1 DEF ChildrenInv, JobsApart, JobsCurrent, AcceptedApart, DJobs, SameWork
  <2> QED
    BY <2>2, <2>3, <2>7, <2>8 DEF ChildrenInv
<1>3. ASSUME NEW place \in {"reserve", "all", "blocked"},
             act' = [act EXCEPT !.at = place] \/ act' = [act EXCEPT !.at = place, !.job = 0]
      PROVE  ChildrenInv'
  <2>1. /\ act'.name = "prepare" /\ act'.at = place
        /\ {"name", "at", "job"} \subseteq DOMAIN act'
    BY <1>0, <1>3 DEF ChildrenTyped
  <2>2. md' = [phase |-> md'.phase, disposition |-> md'.disposition, version |-> md'.version,
               token |-> md'.token, epoch |-> md'.epoch]
    BY <1>0, <1>1 DEF ChildrenTyped
  <2> QED
    BY <1>0, <1>1, <2>1, <2>2, ActGoesOn
<1> QED
  BY <1>2, <1>3 DEF Choose

LEMMA ReserveKeeps ==
  ASSUME ChildrenInv, Reserve
  PROVE  ChildrenInv'
<1>0. ChildrenTyped /\ OneThingAwaited /\ act.name = "prepare" /\ act.at = "reserve"
      /\ parent.pc = "preparing"
  BY DEF ChildrenInv, Reserve, OneThingAwaited, PlaceOfAct
<1>1. UNCHANGED <<md, jobs, child>>
  BY DEF Reserve
<1>2. CASE ActFails /\ UNCHANGED todo
  BY <1>0, <1>1, <1>2, ActFailsKeeps
<1>3. CASE Offered # {} /\ Allows(act.token, md.epoch)
  <2>1. PICK i : i = Candidate
    OBVIOUS
  <2>2. i \in Offered /\ i \in DItems /\ todo[i].status \in {"READY", "RUNNING"}
    BY <1>3, <2>1, CandidateFound DEF Offered
  <2>3. /\ UNCHANGED parent /\ act' = [act EXCEPT !.at = "insert"]
        /\ todo' = IF todo[i].status = "READY"
                   THEN [todo EXCEPT ![i] = [status |-> "RUNNING", attempt |-> todo[i].attempt + 1]]
                   ELSE todo
    BY <1>3, <2>1 DEF Reserve
  <2>4. /\ todo' \in [DItems -> ItemRows] /\ todo'[i].status = "RUNNING"
        /\ \A k \in DItems \ {i} : todo'[k] = todo[k]
        /\ todo[i].status # "READY" => todo'[i] = todo[i]
    <3>1. todo \in [DItems -> ItemRows] /\ todo[i].attempt + 1 \in Nat
      BY <1>0, <2>2 DEF ChildrenTyped, ItemRows
    <3>2. [status |-> "RUNNING", attempt |-> todo[i].attempt + 1] \in ItemRows
      BY <3>1 DEF ItemRows
    <3> QED
      BY <2>2, <2>3, <3>1, <3>2
  <2>5. /\ act'.name = "prepare" /\ act'.at = "insert"
        /\ {"name", "at", "job"} \subseteq DOMAIN act'
    BY <1>0, <2>3 DEF ChildrenTyped
  <2>6. ChildrenTyped'
    BY <1>0, <1>1, <2>3, <2>4, <2>5 DEF ChildrenTyped
  <2>7. OneThingAwaited' /\ WorkJobs' = {}
    BY <1>0, <1>1, <2>3, <2>5 DEF OneThingAwaited, WorkJobs
  <2>8. ActHolds'
    <3>1. Offered' = Offered
      BY <2>2, <2>4 DEF Offered
    <3>2. Candidate' = Candidate
      BY <3>1 DEF Candidate
    <3> QED
      BY <1>3, <2>1, <2>4, <2>5, <3>1, <3>2 DEF ActHolds
  <2>9. JobsCurrent'
    <3> SUFFICES ASSUME NEW j \in DJobs, jobs[j].epoch = md.epoch, jobs[j].retry # "settled"
                 PROVE  /\ jobs[j].attempt = todo'[jobs[j].item].attempt
                        /\ todo'[jobs[j].item].status \in {"RUNNING", "DONE"}
      BY <1>1 DEF JobsCurrent, DJobs
    <3>1. /\ jobs[j].attempt = todo[jobs[j].item].attempt
          /\ todo[jobs[j].item].status \in {"RUNNING", "DONE"}
      BY <1>0 DEF ChildrenInv, JobsCurrent
    <3>2. jobs[j].item \in DItems
      BY <1>0, JobRow DEF ChildrenTyped
    <3>3. todo'[jobs[j].item] = todo[jobs[j].item]
      BY <2>4, <3>1, <3>2
    <3> QED
      BY <3>1, <3>3
  <2>10. WorkIsNewest' /\ JobsApart' /\ AcceptedApart'
    BY <1>1, <2>7 DEF ChildrenInv, WorkIsNewest, JobsApart, AcceptedApart, DJobs, SameWork
  <2> QED
    BY <2>6, <2>7, <2>8, <2>9, <2>10 DEF ChildrenInv
<1> QED
  BY <1>2, <1>3 DEF Reserve

LEMMA InsertJobKeeps ==
  ASSUME ChildrenInv, InsertJob
  PROVE  ChildrenInv'
<1>0. ChildrenTyped /\ OneThingAwaited /\ act.name = "prepare" /\ act.at = "insert"
      /\ parent.pc = "preparing"
  BY DEF ChildrenInv, InsertJob, OneThingAwaited, PlaceOfAct
<1>1. UNCHANGED <<md, todo, child>>
  BY DEF InsertJob
<1>2. CASE ActFails /\ UNCHANGED jobs
  BY <1>0, <1>1, <1>2, ActFailsKeeps
<1>3. CASE NewAttempt(Candidate) /\ Allows(act.token, md.epoch)
  <2>1. PICK i : i = Candidate
    OBVIOUS
  <2>2. i \in DItems /\ todo[i].status = "RUNNING" /\ todo[i].attempt \in Nat
    <3>1. Offered # {} /\ todo[i].status = "RUNNING"
      BY <1>0, <2>1 DEF ChildrenInv, ActHolds
    <3>2. i \in DItems
      BY <2>1, <3>1, CandidateFound DEF Offered
    <3> QED
      BY <1>0, <3>1, <3>2 DEF ChildrenTyped, ItemRows
  <2> DEFINE new == [item |-> i, attempt |-> todo[i].attempt, epoch |-> md.epoch,
                     authorized |-> FALSE, evidence |-> FALSE, completed |-> FALSE,
                     checkpoint |-> FALSE, reconciled |-> FALSE, retry |-> "none"]
             n == Len(jobs) + 1
  <2>3. /\ jobs' = Append(jobs, new) /\ UNCHANGED parent
        /\ act' = [act EXCEPT !.at = "ready", !.job = n]
    BY <1>3, <2>1 DEF InsertJob
  <2>4. new \in ChildJobs
    BY <1>0, <2>2 DEF ChildrenTyped, ChildJobs
  <2>5. /\ new.item = i /\ new.attempt = todo[i].attempt /\ new.epoch = md.epoch
        /\ ~new.completed /\ new.retry = "none"
    OBVIOUS
  <2>6. /\ jobs' \in Seq(ChildJobs) /\ Len(jobs') = n /\ Len(jobs) \in Nat
        /\ jobs'[n] = new /\ \A j \in DJobs : jobs'[j] = jobs[j]
        /\ DJobs' = DJobs \cup {n} /\ n \notin DJobs
    <3>1. jobs \in Seq(ChildJobs)
      BY <1>0 DEF ChildrenTyped
    <3> HIDE DEF new
    <3> QED
      BY <2>3, <2>4, <3>1 DEF DJobs
  <2> HIDE DEF new, n
  <2>7. /\ act'.name = "prepare" /\ act'.at = "ready" /\ act'.job = n
        /\ {"name", "at", "job"} \subseteq DOMAIN act'
    BY <1>0, <2>3 DEF ChildrenTyped
  <2>8. ChildrenTyped'
    BY <1>0, <1>1, <2>3, <2>6, <2>7 DEF ChildrenTyped
  <2>9. OneThingAwaited' /\ ActHolds' /\ WorkJobs' = {n}
    BY <1>0, <1>1, <2>3, <2>7 DEF OneThingAwaited, ActHolds, WorkJobs
  <2>10. \A j \in DJobs : /\ jobs[j].item = i /\ jobs[j].epoch = md.epoch =>
                                jobs[j].attempt # todo[i].attempt /\ ~jobs[j].completed
    <3> SUFFICES ASSUME NEW j \in DJobs, jobs[j].item = i, jobs[j].epoch = md.epoch
                 PROVE  jobs[j].attempt # todo[i].attempt /\ ~jobs[j].completed
      OBVIOUS
    <3>1. jobs[j].attempt # todo[i].attempt
      BY <1>3, <2>1 DEF NewAttempt, DJobs
    <3>2. jobs[j].retry = "settled"
      BY <3>1 DEF ChildrenInv, JobsCurrent
    <3> QED
      BY <3>1, <3>2 DEF ChildrenInv, JobsApart
  <2>11. WorkIsNewest'
    BY <1>1, <2>5, <2>6, <2>9, <2>10 DEF WorkIsNewest, SameWork
  <2>12. JobsApart'
    <3>1. JobsApart /\ md.epoch \in Nat
      BY <1>0 DEF ChildrenInv, ChildrenTyped
    <3>2. ASSUME NEW j \in DJobs', NEW k \in DJobs', j # k, SameWork(j, k)'
          PROVE  jobs'[j].attempt # jobs'[k].attempt
      <4>1. CASE j \in DJobs /\ k \in DJobs
        BY <2>6, <3>1, <3>2, <4>1 DEF JobsApart, SameWork
      <4>2. CASE j = n /\ k \in DJobs
        BY <2>5, <2>6, <2>10, <3>2, <4>2 DEF SameWork
      <4>3. CASE k = n /\ j \in DJobs
        BY <2>5, <2>6, <2>10, <3>2, <4>3 DEF SameWork
      <4> QED
        BY <2>6, <3>2, <4>1, <4>2, <4>3
    <3>3. ASSUME NEW j \in DJobs'
          PROVE  jobs'[j].epoch <= md'.epoch /\ (jobs'[j].retry = "settled" => ~jobs'[j].completed)
      BY <1>1, <2>5, <2>6, <3>1, <3>3 DEF JobsApart
    <3> QED
      BY <3>2, <3>3 DEF JobsApart
  <2>13. JobsCurrent'
    <3> SUFFICES ASSUME NEW j \in DJobs', jobs'[j].epoch = md.epoch, jobs'[j].retry # "settled"
                 PROVE  /\ jobs'[j].attempt = todo[jobs'[j].item].attempt
                        /\ todo[jobs'[j].item].status \in {"RUNNING", "DONE"}
      BY <1>1 DEF JobsCurrent
    <3>1. CASE j \in DJobs
      BY <1>0, <2>6, <3>1 DEF ChildrenInv, JobsCurrent
    <3>2. CASE j = n
      BY <2>2, <2>5, <2>6, <3>2
    <3> QED
      BY <2>6, <3>1, <3>2
  <2>14. AcceptedApart'
    BY <2>5, <2>6 DEF ChildrenInv, AcceptedApart, SameWork
  <2> QED
    BY <2>8, <2>9, <2>11, <2>12, <2>13, <2>14 DEF ChildrenInv
<1> QED
  BY <1>2, <1>3 DEF InsertJob

LEMMA TakePreparedKeeps ==
  ASSUME ChildrenInv, TakePrepared
  PROVE  ChildrenInv'
<1>0. ChildrenTyped /\ OneThingAwaited /\ act.name = "prepare" /\ parent.pc = "preparing"
      /\ act.at \in {"ready", "all", "blocked"}
  BY DEF ChildrenInv, TakePrepared, OneThingAwaited, PlaceOfAct
<1>1. UNCHANGED <<md, todo, jobs, child>> /\ act' = NoAct /\ act'.name = "none"
  BY DEF TakePrepared, NoAct
<1>2. CASE act.at = "ready"
  <2>1. parent' = [parent EXCEPT !.pc = "prepared", !.prepared = act.job, !.job = act.job]
    BY <1>2 DEF TakePrepared
  <2>2. parent'.pc = "prepared" /\ parent'.prepared = act.job
    BY <1>0, <2>1 DEF ChildrenTyped
  <2>3. ChildrenTyped'
    <3>1. parent' = [pc |-> parent'.pc, phase |-> parent'.phase, disposition |-> parent'.disposition,
                     version |-> parent'.version, token |-> parent'.token,
                     prepared |-> parent'.prepared, job |-> parent'.job, active |-> parent'.active,
                     retry |-> parent'.retry, handoff |-> parent'.handoff]
      BY <1>0, <2>1, ParentTyped
    <3> QED
      BY <1>0, <1>1, <3>1 DEF ChildrenTyped, NoAct
  <2>4. OneThingAwaited' /\ ActHolds' /\ WorkJobs' \subseteq WorkJobs
    BY <1>0, <1>1, <1>2, <2>2 DEF OneThingAwaited, ActHolds, WorkJobs
  <2> QED
    BY <1>0, <1>1, <2>3, <2>4, BesideKeeps
<1>3. CASE act.at # "ready"
  <2>1. PICK p \in {"finished", "stuck"} : parent' = [parent EXCEPT !.pc = p]
    BY <1>0, <1>3 DEF TakePrepared
  <2>2. parent'.pc = p
    BY <1>0, <2>1 DEF ChildrenTyped
  <2>3. ChildrenTyped'
    <3>1. parent' = [pc |-> parent'.pc, phase |-> parent'.phase, disposition |-> parent'.disposition,
                     version |-> parent'.version, token |-> parent'.token,
                     prepared |-> parent'.prepared, job |-> parent'.job, active |-> parent'.active,
                     retry |-> parent'.retry, handoff |-> parent'.handoff]
      BY <1>0, <2>1, ParentTyped
    <3> QED
      BY <1>0, <1>1, <3>1 DEF ChildrenTyped, NoAct
  <2> QED
    BY <1>0, <1>1, <2>2, <2>3, WaitsKeeps
<1> QED
  BY <1>2, <1>3

LEMMA ChildStarts ==
  ASSUME ChildrenInv, StartChild
  PROVE  ChildrenInv'
<1>0. ChildrenTyped /\ OneThingAwaited /\ parent.pc = "prepared" /\ act.name = "none"
  BY DEF ChildrenInv, StartChild, OneThingAwaited, PlaceOfAct
<1>1. UNCHANGED <<md, todo, jobs, act>>
  BY DEF StartChild
<1>2. /\ child'.job = parent.prepared /\ {"pc", "job"} \subseteq DOMAIN child'
      /\ parent' = [parent EXCEPT !.pc = "starting"]
  BY DEF StartChild, Waits
<1>3. parent'.pc = "starting"
  BY <1>0, <1>2 DEF ChildrenTyped
<1>4. ChildrenTyped'
  BY <1>0, <1>1, <1>2, ParentTyped DEF ChildrenTyped
<1>5. OneThingAwaited' /\ ActHolds' /\ WorkJobs' \subseteq WorkJobs
  BY <1>0, <1>1, <1>2, <1>3 DEF OneThingAwaited, ActHolds, WorkJobs
<1> QED
  BY <1>0, <1>1, <1>4, <1>5, BesideKeeps

LEMMA ChildTaken ==
  ASSUME ChildrenInv, HoldChild \/ TakeChild
  PROVE  ChildrenInv'
<1>0. ChildrenTyped /\ OneThingAwaited /\ parent.pc \in {"starting", "child"} /\ act.name = "none"
  BY DEF ChildrenInv, HoldChild, TakeChild, OneThingAwaited, PlaceOfAct
<1>1. UNCHANGED <<md, todo, jobs, act, child>>
  BY DEF HoldChild, TakeChild
<1>2. PICK p \in {"child", "settling", "superseded", "accepted", "stuck"}, b \in BOOLEAN :
         /\ parent' = [parent EXCEPT !.pc = p, !.active = b]
         /\ p = "child" \/ child.pc = "ended"
  BY DEF HoldChild, TakeChild
<1>3. parent'.pc = p
  BY <1>0, <1>2 DEF ChildrenTyped
<1>4. ChildrenTyped'
  BY <1>0, <1>1, <1>2, ParentTyped DEF ChildrenTyped
<1>5. OneThingAwaited' /\ ActHolds' /\ WorkJobs' \subseteq WorkJobs
  BY <1>0, <1>1, <1>2, <1>3 DEF OneThingAwaited, ActHolds, WorkJobs
<1> QED
  BY <1>0, <1>1, <1>4, <1>5, BesideKeeps

LEMMA KillActKeeps ==
  ASSUME ChildrenInv, KillAct
  PROVE  ChildrenInv'
<1>0. ChildrenTyped /\ OneThingAwaited /\ ActHolds /\ act.name \in {"prepare", "settle", "reconcile"}
  BY DEF ChildrenInv, KillAct
<1>1. UNCHANGED <<md, todo, jobs, parent, child>>
  BY DEF KillAct
<1>2. PICK place \in {"again", "check"} :
         act' = [act EXCEPT !.at = place] /\ (place = "check" <=> act.name # "prepare")
  BY DEF KillAct
<1>3. /\ act'.name = act.name /\ act'.at = place /\ act'.job = act.job
      /\ {"name", "at", "job"} \subseteq DOMAIN act'
  BY <1>0, <1>2 DEF ChildrenTyped
<1>4. ChildrenTyped'
  BY <1>0, <1>1, <1>3 DEF ChildrenTyped
<1>5. OneThingAwaited' /\ ActHolds' /\ WorkJobs' \subseteq WorkJobs
  BY <1>0, <1>1, <1>2, <1>3 DEF OneThingAwaited, ActHolds, WorkJobs
<1> QED
  BY <1>0, <1>1, <1>3, <1>4, <1>5, BesideKeeps

\* A command that commits asks a job that runs to be retried, at most.
LEMMA ApplyOrderKeeps ==
  ASSUME ChildrenInv, NEW c \in Orders, ApplyOrder(c)
  PROVE  ChildrenInv'
<1>0. ChildrenTyped /\ OneThingAwaited /\ ActHolds
  BY DEF ChildrenInv
<1>1. UNCHANGED <<todo, act, parent, child>>
  BY DEF ApplyOrder
<1>2. /\ md' = [phase |-> md'.phase, disposition |-> md'.disposition, version |-> md'.version,
                token |-> md'.token, epoch |-> md'.epoch]
      /\ md'.epoch = md.epoch
  BY <1>0 DEF ApplyOrder, ChildrenTyped
<1>3. /\ jobs' \in Seq(ChildJobs) /\ Len(jobs') = Len(jobs)
      /\ \A j \in DJobs :
            \/ jobs'[j] = jobs[j]
            \/ jobs[j].retry = "none" /\ jobs'[j] = [jobs[j] EXCEPT !.retry = "asked"]
  <2>1. jobs \in Seq(ChildJobs) /\ DOMAIN jobs = DJobs /\ \A j \in DJobs : jobs[j] \in ChildJobs
    BY <1>0, JobRow DEF ChildrenTyped
  <2>2. CASE jobs' = jobs
    BY <2>1, <2>2
  <2>3. CASE jobs' # jobs
    <3>1. PICK k : k = order[c].job
      OBVIOUS
    <3>2. jobs' = [jobs EXCEPT ![k].retry = "asked"] /\ jobs[k].retry = "none"
      BY <2>3, <3>1 DEF ApplyOrder, Legal
    <3>3. k \in DJobs
      BY <2>1, <2>3, <3>2
    <3>4. [jobs[k] EXCEPT !.retry = "asked"] \in ChildJobs
      BY <2>1, <3>3 DEF ChildJobs
    <3>5. jobs' = [jobs EXCEPT ![k] = [jobs[k] EXCEPT !.retry = "asked"]]
      BY <3>2
    <3>6. jobs' \in Seq(ChildJobs) /\ Len(jobs') = Len(jobs)
      BY <2>1, <3>3, <3>4, <3>5
    <3>7. \A j \in DJobs : jobs'[j] = IF j = k THEN [jobs[k] EXCEPT !.retry = "asked"] ELSE jobs[j]
      BY <2>1, <3>3, <3>5
    <3> QED
      BY <3>2, <3>6, <3>7
  <2> QED
    BY <2>2, <2>3
<1>4. \A j \in DJobs :
         /\ jobs'[j].item = jobs[j].item /\ jobs'[j].attempt = jobs[j].attempt
         /\ jobs'[j].epoch = jobs[j].epoch /\ jobs'[j].completed = jobs[j].completed
         /\ \/ jobs'[j].retry = jobs[j].retry
            \/ jobs[j].retry = "none" /\ jobs'[j].retry = "asked"
  <2>1. \A j \in DJobs : jobs[j] \in ChildJobs
    BY <1>0, JobRow DEF ChildrenTyped
  <2> QED
    BY <1>3, <2>1 DEF ChildJobs
<1>5. ChildrenTyped' /\ OneThingAwaited' /\ WorkJobs' = WorkJobs
  BY <1>0, <1>1, <1>2, <1>3 DEF ChildrenTyped, OneThingAwaited, WorkJobs
<1>6. ActHolds'
  <2>1. act.name = "settle" => act.job \in DJobs
    BY <1>0 DEF ChildrenInv, OneThingAwaited, PlaceOfAct, WorkIsNewest, WorkJobs
  <2>2. Offered' = Offered /\ Candidate' = Candidate
    BY <1>1 DEF Offered, Candidate
  <2> QED
    BY <1>0, <1>1, <1>4, <2>1, <2>2 DEF ActHolds
<1> QED
  BY <1>1, <1>2, <1>3, <1>4, <1>5, <1>6, DataKeeps

\* One row of the jobs is written.
LEMMA JobWritten ==
  ASSUME jobs \in Seq(ChildJobs), NEW j \in DJobs, NEW row \in ChildJobs,
         jobs' = [jobs EXCEPT ![j] = row]
  PROVE  /\ jobs' \in Seq(ChildJobs) /\ Len(jobs') = Len(jobs) /\ DJobs' = DJobs
         /\ jobs'[j] = row /\ \A k \in DJobs \ {j} : jobs'[k] = jobs[k]
<1>1. DOMAIN jobs = DJobs
  BY JobRow
<1>2. jobs' \in Seq(ChildJobs) /\ Len(jobs') = Len(jobs)
  BY <1>1
<1>3. jobs'[j] = row /\ \A k \in DJobs \ {j} : jobs'[k] = jobs[k]
  BY <1>1
<1> QED
  BY <1>2, <1>3 DEF DJobs

\* An activity or the child that marks its job, which changes neither whose it is
\* nor whether it was accepted or is to be retried.
LEMMA JobMarked ==
  ASSUME ChildrenInv, NEW j \in DJobs, NEW row \in ChildJobs, jobs' = [jobs EXCEPT ![j] = row],
         row.item = jobs[j].item, row.attempt = jobs[j].attempt, row.epoch = jobs[j].epoch,
         row.completed = jobs[j].completed, row.retry = jobs[j].retry, UNCHANGED <<todo, parent>>,
         md'.epoch = md.epoch,
         md' = [phase |-> md'.phase, disposition |-> md'.disposition, version |-> md'.version,
                token |-> md'.token, epoch |-> md'.epoch],
         act.name \in {"none", "reconcile"}, act'.name = act.name,
         act.name = "reconcile" => {"name", "at", "job"} \subseteq DOMAIN act' /\ act'.job = act.job,
         "name" \in DOMAIN act', {"pc", "job"} \subseteq DOMAIN child', child'.job = child.job,
         child.pc = "ended" => child'.pc = "ended"
  PROVE  ChildrenInv'
<1>1. ChildrenTyped /\ OneThingAwaited
  BY DEF ChildrenInv
<1>2. /\ jobs' \in Seq(ChildJobs) /\ Len(jobs') = Len(jobs)
      /\ jobs'[j] = row /\ \A k \in DJobs \ {j} : jobs'[k] = jobs[k]
  BY <1>1, JobWritten DEF ChildrenTyped
<1>3. \A k \in DJobs :
         /\ jobs'[k].item = jobs[k].item /\ jobs'[k].attempt = jobs[k].attempt
         /\ jobs'[k].epoch = jobs[k].epoch /\ jobs'[k].completed = jobs[k].completed
         /\ jobs'[k].retry = jobs[k].retry
  BY <1>2
<1>4. ChildrenTyped'
  BY <1>1, <1>2 DEF ChildrenTyped
<1>5. OneThingAwaited' /\ ActHolds' /\ WorkJobs' \subseteq WorkJobs
  BY <1>1 DEF OneThingAwaited, ActHolds, WorkJobs
<1> QED
  BY <1>2, <1>3, <1>4, <1>5, DataKeeps

LEMMA ReconcileKeeps ==
  ASSUME ChildrenInv, ReconcileItem
  PROVE  ChildrenInv'
<1>0. ChildrenTyped /\ OneThingAwaited /\ act.name = "reconcile" /\ parent.pc = "accepted"
  BY DEF ChildrenInv, ReconcileItem, OneThingAwaited, PlaceOfAct
<1>1. child' = child
  BY DEF ReconcileItem
<1>2. PICK j : j = act.job
  OBVIOUS
<1>3. j \in DJobs /\ jobs[j] \in ChildJobs /\ jobs[j].item \in DItems
  <2>1. j \in WorkJobs
    BY <1>0, <1>2 DEF WorkJobs, OneThingAwaited
  <2> QED
    BY <1>0, <2>1, JobRow DEF ChildrenInv, WorkIsNewest, ChildrenTyped
<1>4. CASE ActFails /\ UNCHANGED <<md, todo, jobs>>
  BY <1>0, <1>1, <1>4, ActFailsKeeps
<1>5. ASSUME UNCHANGED parent, NEW place \in {"reconciled", "checkpoint", "item", "insert"},
             act' = [act EXCEPT !.at = place]
      PROVE  /\ act'.name = "reconcile" /\ act'.job = act.job
             /\ {"name", "at", "job"} \subseteq DOMAIN act'
             /\ OneThingAwaited' /\ ActHolds' /\ WorkJobs' \subseteq WorkJobs
  <2>1. act'.name = "reconcile" /\ act'.job = act.job /\ {"name", "at", "job"} \subseteq DOMAIN act'
    BY <1>0, <1>5 DEF ChildrenTyped
  <2> QED
    BY <1>0, <1>1, <1>5, <2>1 DEF OneThingAwaited, ActHolds, WorkJobs
<1>6. ASSUME UNCHANGED <<md, todo, jobs, parent>>,
             NEW place \in {"reconciled", "checkpoint", "item"}, act' = [act EXCEPT !.at = place]
      PROVE  ChildrenInv'
  <2>1. /\ {"name", "at", "job"} \subseteq DOMAIN act' /\ act'.name = "reconcile"
        /\ OneThingAwaited' /\ ActHolds' /\ WorkJobs' \subseteq WorkJobs
    BY <1>5, <1>6
  <2>2. ChildrenTyped'
    BY <1>0, <1>1, <1>6, <2>1 DEF ChildrenTyped
  <2> QED
    BY <1>0, <1>6, <2>1, <2>2, BesideKeeps
<1>7. ASSUME UNCHANGED <<md, jobs, parent>>, act' = [act EXCEPT !.at = "checkpoint"],
             todo' = [todo EXCEPT ![jobs[act.job].item].status = "DONE"]
      PROVE  ChildrenInv'
  <2>1. /\ {"name", "at", "job"} \subseteq DOMAIN act' /\ act'.name = "reconcile"
        /\ OneThingAwaited' /\ ActHolds' /\ WorkJobs' \subseteq WorkJobs
    BY <1>5, <1>7
  <2>2. todo \in [DItems -> ItemRows]
    BY <1>0 DEF ChildrenTyped
  <2>3. /\ todo' \in [DItems -> ItemRows]
        /\ \A i \in DItems : /\ todo'[i].attempt = todo[i].attempt
                            /\ todo'[i].status \in {todo[i].status, "DONE"}
    BY <1>2, <1>3, <1>7, <2>2 DEF ItemRows
  <2>4. ChildrenTyped'
    BY <1>0, <1>1, <1>7, <2>1, <2>3 DEF ChildrenTyped
  <2> QED
    BY <1>0, <1>7, <2>1, <2>3, <2>4, DataKeeps
<1>8. ASSUME UNCHANGED <<todo, parent>>, NEW row, jobs' = [jobs EXCEPT ![j] = row],
             row = [jobs[j] EXCEPT !.checkpoint = TRUE] \/ row = [jobs[j] EXCEPT !.reconciled = TRUE],
             NEW v, md' = [md EXCEPT !.version = v],
             NEW place \in {"insert", "reconciled"}, act' = [act EXCEPT !.at = place]
      PROVE  ChildrenInv'
  <2>1. /\ row \in ChildJobs /\ row.item = jobs[j].item /\ row.attempt = jobs[j].attempt
        /\ row.epoch = jobs[j].epoch /\ row.completed = jobs[j].completed
        /\ row.retry = jobs[j].retry
    BY <1>3, <1>8 DEF ChildJobs
  <2>2. /\ md'.epoch = md.epoch
        /\ md' = [phase |-> md'.phase, disposition |-> md'.disposition, version |-> md'.version,
                  token |-> md'.token, epoch |-> md'.epoch]
    BY <1>0, <1>8 DEF ChildrenTyped
  <2>3. act'.name = "reconcile" /\ act'.job = act.job /\ {"name", "at", "job"} \subseteq DOMAIN act'
    BY <1>5, <1>8
  <2>4. {"pc", "job"} \subseteq DOMAIN child
    BY <1>0 DEF ChildrenTyped
  <2> QED
    BY <1>0, <1>1, <1>3, <1>8, <2>1, <2>2, <2>3, <2>4, JobMarked
<1>9. CASE act.at = "checkpoint" /\ (md.version = act.version \/ jobs[act.job].checkpoint)
  <2>1. /\ UNCHANGED <<todo, parent>> /\ act' = [act EXCEPT !.at = "insert"]
        /\ jobs' = [jobs EXCEPT ![j] = [jobs[j] EXCEPT !.checkpoint = TRUE]]
        /\ \E v : md' = [md EXCEPT !.version = v]
    BY <1>2, <1>9 DEF ReconcileItem
  <2> QED
    BY <1>8, <2>1
<1>10. CASE act.at = "insert"
  <2>1. /\ UNCHANGED <<todo, parent, md>> /\ act' = [act EXCEPT !.at = "reconciled"]
        /\ jobs' = [jobs EXCEPT ![j] = [jobs[j] EXCEPT !.reconciled = TRUE]]
    BY <1>2, <1>10 DEF ReconcileItem
  <2>2. md' = [md EXCEPT !.version = md.version]
    BY <1>0, <2>1 DEF ChildrenTyped
  <2> QED
    BY <1>8, <2>1, <2>2
<1>11. CASE act.at = "item"
  BY <1>7, <1>11 DEF ReconcileItem
<1> DEFINE Reconciles == Allows(act.token, jobs[act.job].epoch) /\ jobs[act.job].completed
<1>12. CASE act.at = "check" /\ Reconciles
  BY <1>6, <1>12 DEF ReconcileItem
<1>13. CASE \/ act.at = "check" /\ ~Reconciles
            \/ act.at = "checkpoint" /\ md.version # act.version /\ ~jobs[act.job].checkpoint
  BY <1>4, <1>13 DEF ReconcileItem
<1> QED
  BY <1>9, <1>10, <1>11, <1>12, <1>13 DEF ReconcileItem

LEMMA SettleKeeps ==
  ASSUME ChildrenInv, Settle
  PROVE  ChildrenInv'
<1>0. ChildrenTyped /\ OneThingAwaited /\ ActHolds /\ act.name = "settle" /\ parent.pc = "settling"
  BY DEF ChildrenInv, Settle, OneThingAwaited, PlaceOfAct
<1>1. UNCHANGED <<md, child>>
  BY DEF Settle
<1>2. PICK j : j = act.job
  OBVIOUS
<1>3. /\ j \in DJobs /\ jobs[j] \in ChildJobs /\ jobs[j].item \in DItems
      /\ jobs[j].epoch # md.epoch => \A k \in DJobs : jobs[k].epoch # md.epoch
  <2>1. j \in WorkJobs
    BY <1>0, <1>2 DEF WorkJobs, OneThingAwaited
  <2> QED
    BY <1>0, <2>1, JobRow DEF ChildrenInv, WorkIsNewest, ChildrenTyped
<1>4. ASSUME UNCHANGED <<todo, parent>>, jobs' \in Seq(ChildJobs) \/ jobs' = jobs,
             NEW place \in {"fail", "ready", "insert", "settled"}, act' = [act EXCEPT !.at = place]
      PROVE  /\ act'.name = "settle" /\ act'.job = act.job /\ act'.at = place
             /\ ChildrenTyped' /\ OneThingAwaited' /\ WorkJobs' \subseteq WorkJobs
  <2>1. /\ act'.name = "settle" /\ act'.job = act.job /\ act'.at = place
        /\ {"name", "at", "job"} \subseteq DOMAIN act'
    BY <1>0, <1>4 DEF ChildrenTyped
  <2> QED
    BY <1>0, <1>1, <1>4, <2>1 DEF ChildrenTyped, OneThingAwaited, WorkJobs
<1>5. CASE act.at = "check" /\ Settles(act.job)
  <2>1. UNCHANGED <<todo, jobs, parent>>
    <3>1. act.at \notin {"fail", "ready", "insert"}
      BY <1>5
    <3> QED
      BY <1>5, <3>1 DEF Settle
  <2>2. PICK place \in {"fail", "ready", "insert", "settled"} :
           /\ act' = [act EXCEPT !.at = place]
           /\ place = "settled" <=> jobs[j].retry = "settled"
    <3>1. CASE jobs[j].retry = "settled"
      <4>1. act' = [act EXCEPT !.at = "settled"]
        BY <1>2, <1>5, <3>1 DEF Settle
      <4> QED
        BY <3>1, <4>1
    <3>2. CASE jobs[j].retry # "settled"
      <4>1. \E place \in {"fail", "ready", "insert"} : act' = [act EXCEPT !.at = place]
        BY <1>2, <1>5, <3>2 DEF Settle
      <4> QED
        BY <3>2, <4>1
    <3> QED
      BY <3>1, <3>2
  <2>3. /\ act'.name = "settle" /\ act'.job = act.job /\ act'.at = place
        /\ ChildrenTyped' /\ OneThingAwaited' /\ WorkJobs' \subseteq WorkJobs
    BY <1>4, <2>1, <2>2
  <2>4. jobs[j].retry \in {"asked", "settled"} /\ ~jobs[j].completed
    BY <1>2, <1>3, <1>5 DEF Settles, ChildJobs
  <2>5. ActHolds'
    BY <1>2, <2>1, <2>2, <2>3, <2>4 DEF ActHolds
  <2> QED
    BY <1>0, <1>1, <2>1, <2>3, <2>5, BesideKeeps
<1>6. CASE act.at = "check" /\ ~Settles(act.job)
  <2>1. ActFails /\ UNCHANGED <<todo, jobs>>
    BY <1>6 DEF Settle
  <2> QED
    BY <1>0, <1>1, <1>6, <2>1, ActFailsKeeps
<1>7. CASE act.at \in {"fail", "ready"}
  <2>1. PICK s \in {"FAILED", "READY"}, place \in {"ready", "insert"} :
           /\ todo' = [todo EXCEPT ![jobs[j].item].status = s]
           /\ act' = [act EXCEPT !.at = place] /\ UNCHANGED <<jobs, parent>>
    BY <1>2, <1>7 DEF Settle
  <2>2. PICK i : i = jobs[j].item
    OBVIOUS
  <2>3. jobs[j].retry = "asked" /\ ~jobs[j].completed
    BY <1>0, <1>2, <1>7 DEF ActHolds
  <2>4. /\ todo \in [DItems -> ItemRows] /\ i \in DItems
    BY <1>0, <1>3, <2>2 DEF ChildrenTyped
  <2>5. /\ todo' \in [DItems -> ItemRows] /\ todo'[i].attempt = todo[i].attempt
        /\ todo'[i].status = s /\ \A k \in DItems \ {i} : todo'[k] = todo[k]
    BY <2>1, <2>2, <2>4 DEF ItemRows
  <2>6. /\ act'.name = "settle" /\ act'.job = j /\ act'.at = place
        /\ {"name", "at", "job"} \subseteq DOMAIN act'
    BY <1>0, <1>2, <2>1 DEF ChildrenTyped
  <2>7. ChildrenTyped' /\ OneThingAwaited' /\ WorkJobs' \subseteq WorkJobs
    BY <1>0, <1>1, <1>2, <2>1, <2>5, <2>6 DEF ChildrenTyped, OneThingAwaited, WorkJobs
  <2>8. ActHolds'
    BY <2>1, <2>3, <2>6 DEF ActHolds
  <2>9. JobsCurrent'
    <3> SUFFICES ASSUME NEW k \in DJobs, jobs[k].epoch = md.epoch, jobs[k].retry # "settled"
                 PROVE  /\ jobs[k].attempt = todo'[jobs[k].item].attempt
                        /\ todo'[jobs[k].item].status \in {"RUNNING", "DONE"} \/ k = j
      BY <1>1, <2>1, <2>3, <2>6 DEF JobsCurrent, DJobs
    <3>1. /\ jobs[k].attempt = todo[jobs[k].item].attempt
          /\ todo[jobs[k].item].status \in {"RUNNING", "DONE"} \/ k = j
      BY <1>2 DEF ChildrenInv, JobsCurrent
    <3>2. jobs[k].item \in DItems
      BY <1>0, JobRow DEF ChildrenTyped
    <3>3. CASE jobs[k].item # i
      BY <2>5, <3>1, <3>2, <3>3
    <3>4. CASE jobs[k].item = i
      <4>1. jobs[j].epoch = md.epoch
        BY <1>3
      <4>2. jobs[j].attempt = todo[i].attempt
        BY <1>3, <2>2, <2>3, <4>1 DEF ChildrenInv, JobsCurrent
      <4>3. k = j
        BY <1>3, <2>2, <3>1, <3>4, <4>1, <4>2 DEF ChildrenInv, JobsApart, SameWork
      <4> QED
        BY <2>5, <3>1, <3>4, <4>3
    <3> QED
      BY <3>3, <3>4
  <2>10. WorkIsNewest' /\ JobsApart' /\ AcceptedApart'
    BY <1>1, <2>1, <2>7 DEF ChildrenInv, WorkIsNewest, JobsApart, AcceptedApart, DJobs, SameWork
  <2> QED
    BY <2>7, <2>8, <2>9, <2>10 DEF ChildrenInv
<1>8. CASE act.at = "insert"
  <2> DEFINE row == [jobs[j] EXCEPT !.retry = "settled"]
  <2>1. /\ jobs' = [jobs EXCEPT ![j] = row] /\ UNCHANGED <<todo, parent>>
        /\ act' = [act EXCEPT !.at = "settled"]
    BY <1>2, <1>8 DEF Settle
  <2>2. /\ row \in ChildJobs /\ row.item = jobs[j].item /\ row.attempt = jobs[j].attempt
        /\ row.epoch = jobs[j].epoch /\ row.completed = jobs[j].completed
        /\ row.retry = "settled"
    BY <1>3 DEF ChildJobs
  <2> HIDE DEF row
  <2>3. /\ jobs' \in Seq(ChildJobs) /\ Len(jobs') = Len(jobs) /\ DJobs' = DJobs
        /\ jobs'[j] = row /\ \A k \in DJobs \ {j} : jobs'[k] = jobs[k]
    BY <1>0, <1>3, <2>1, <2>2, JobWritten DEF ChildrenTyped
  <2>4. /\ act'.name = "settle" /\ act'.job = act.job /\ act'.at = "settled"
        /\ ChildrenTyped' /\ OneThingAwaited' /\ WorkJobs' \subseteq WorkJobs
    BY <1>4, <2>1, <2>3
  <2>5. ~jobs[j].completed
    BY <1>0, <1>2, <1>8 DEF ActHolds
  <2>6. ActHolds'
    BY <1>2, <2>2, <2>3, <2>4 DEF ActHolds
  <2>7. \A k \in DJobs : /\ jobs'[k].item = jobs[k].item /\ jobs'[k].attempt = jobs[k].attempt
                         /\ jobs'[k].epoch = jobs[k].epoch /\ jobs'[k].completed = jobs[k].completed
                         /\ k # j => jobs'[k].retry = jobs[k].retry
    BY <2>2, <2>3
  <2>8. WorkIsNewest'
    BY <1>0, <1>1, <2>1, <2>3, <2>4, <2>7 DEF ChildrenInv, WorkIsNewest, SameWork
  <2>9. JobsApart'
    BY <1>1, <2>3, <2>5, <2>7 DEF ChildrenInv, JobsApart, SameWork
  <2>10. JobsCurrent'
    <3> SUFFICES ASSUME NEW k \in DJobs, jobs[k].epoch = md.epoch, k # j, jobs[k].retry # "settled"
                 PROVE  /\ jobs[k].attempt = todo[jobs[k].item].attempt
                        /\ todo[jobs[k].item].status \in {"RUNNING", "DONE"}
      BY <1>1, <2>1, <2>2, <2>3, <2>7 DEF JobsCurrent
    <3> QED
      BY <1>2 DEF ChildrenInv, JobsCurrent
  <2>11. AcceptedApart'
    BY <2>3, <2>7 DEF ChildrenInv, AcceptedApart, SameWork
  <2> QED
    BY <2>4, <2>6, <2>8, <2>9, <2>10, <2>11 DEF ChildrenInv
<1> QED
  BY <1>5, <1>6, <1>7, <1>8 DEF Settle

\* The next epoch has no jobs yet.
LEMMA HandoffCompletes ==
  ASSUME ChildrenInv, NEW c \in Orders, CompleteHandoff(c)
  PROVE  ChildrenInv'
<1>0. ChildrenTyped /\ OneThingAwaited /\ ActHolds
  BY DEF ChildrenInv
<1>1. UNCHANGED <<todo, jobs, parent, act, child>>
  BY DEF CompleteHandoff
<1>2. CASE md' = md
  <2>1. ChildrenTyped'
    BY <1>0, <1>1, <1>2 DEF ChildrenTyped
  <2> QED
    BY <1>1, <1>2, <2>1, AsideKeeps
<1>3. CASE md' # md
  <2>1. md' = [md EXCEPT !.epoch = @ + 1, !.version = @ + 2, !.token = @ + 1,
                         !.disposition = "RUNNING"]
    BY <1>3 DEF CompleteHandoff
  <2>2. /\ md'.epoch = md.epoch + 1 /\ md.epoch \in Nat /\ md'.epoch \in Nat
        /\ md' = [phase |-> md'.phase, disposition |-> md'.disposition, version |-> md'.version,
                  token |-> md'.token, epoch |-> md'.epoch]
    <3>1. PICK m : m = md
      OBVIOUS
    <3>2. PICK p, d, v, t, e : m = [phase |-> p, disposition |-> d, version |-> v,
                                    token |-> t, epoch |-> e]
      BY <1>0, <3>1 DEF ChildrenTyped
    <3>3. md' = [m EXCEPT !.epoch = m.epoch + 1, !.version = m.version + 2,
                          !.token = m.token + 1, !.disposition = "RUNNING"]
      BY <2>1, <3>1
    <3>4. m.epoch \in Nat
      BY <1>0, <3>1 DEF ChildrenTyped
    <3>5. PICK w, u, f : w = m.version + 2 /\ u = m.token + 1 /\ f = m.epoch + 1
      OBVIOUS
    <3>6. md' = [m EXCEPT !.epoch = f, !.version = w, !.token = u, !.disposition = "RUNNING"]
      BY <3>3, <3>5
    <3>7. md' = [phase |-> p, disposition |-> "RUNNING", version |-> w, token |-> u, epoch |-> f]
      BY <3>2, <3>6
    <3> QED
      BY <3>1, <3>4, <3>5, <3>7
  <2>3. \A j \in DJobs : jobs[j].epoch \in Nat /\ jobs[j].epoch <= md.epoch
    BY <1>0, JobRow DEF ChildrenInv, ChildrenTyped, JobsApart
  <2>4. \A j \in DJobs : jobs[j].epoch # md'.epoch /\ jobs[j].epoch <= md'.epoch
    BY <2>2, <2>3
  <2>5. ChildrenTyped' /\ OneThingAwaited' /\ WorkJobs' = WorkJobs
    BY <1>0, <1>1, <2>2 DEF ChildrenTyped, OneThingAwaited, WorkJobs
  <2>6. ActHolds'
    BY <1>0, <1>1 DEF ActHolds, Offered, Candidate
  <2>7. WorkIsNewest'
    BY <1>1, <2>4, <2>5 DEF ChildrenInv, WorkIsNewest, DJobs, SameWork
  <2>8. JobsApart' /\ JobsCurrent' /\ AcceptedApart'
    BY <1>1, <2>4 DEF ChildrenInv, JobsApart, JobsCurrent, AcceptedApart, DJobs, SameWork
  <2> QED
    BY <2>5, <2>6, <2>7, <2>8 DEF ChildrenInv
<1> QED
  BY <1>2, <1>3

\* A child that is at work: its parent waits for it, and nothing else goes on.
LEMMA ChildAtWork ==
  ASSUME ChildrenInv, child.pc # "ended"
  PROVE  /\ act.name = "none" /\ parent.pc \in {"starting", "child"} /\ child.job \in WorkJobs
         /\ child.job \in DJobs /\ jobs[child.job] \in ChildJobs
         /\ jobs[child.job].retry # "settled"
<1>1. act.name = "none" /\ parent.pc \in {"starting", "child"} /\ child.job \in WorkJobs
  BY DEF ChildrenInv, OneThingAwaited, PlaceOfAct, WorkJobs
<1> QED
  BY <1>1, JobRow DEF ChildrenInv, ChildrenTyped, WorkIsNewest

LEMMA ChildMarks ==
  ASSUME ChildrenInv, Validate \/ FinishStage
  PROVE  ChildrenInv'
<1>0. ChildrenTyped /\ child.pc # "ended" /\ UNCHANGED <<md, todo, parent, act>>
  BY DEF ChildrenInv, Validate, FinishStage
<1>1. PICK j : j = child.job
  OBVIOUS
<1>2. act.name = "none" /\ j \in DJobs /\ jobs[j] \in ChildJobs
  BY <1>0, <1>1, ChildAtWork
<1>3. child'.job = child.job /\ {"pc", "job"} \subseteq DOMAIN child'
  BY <1>0 DEF ChildrenTyped, Validate, FinishStage, Becomes, Ends
<1>4. CASE jobs' = jobs
  <2>1. ChildrenTyped'
    BY <1>0, <1>3, <1>4 DEF ChildrenTyped
  <2> QED
    BY <1>0, <1>3, <1>4, <2>1, AsideKeeps
<1>5. CASE jobs' # jobs
  <2>1. PICK row : /\ jobs' = [jobs EXCEPT ![j] = row]
                   /\ \/ row = [jobs[j] EXCEPT !.authorized = TRUE]
                      \/ row = [jobs[j] EXCEPT !.evidence = TRUE]
    BY <1>1, <1>5 DEF Validate, FinishStage
  <2>2. /\ row \in ChildJobs /\ row.item = jobs[j].item /\ row.attempt = jobs[j].attempt
        /\ row.epoch = jobs[j].epoch /\ row.completed = jobs[j].completed
        /\ row.retry = jobs[j].retry
    BY <1>2, <2>1 DEF ChildJobs
  <2>3. "name" \in DOMAIN act
    BY <1>0 DEF ChildrenTyped
  <2>4. md' = [phase |-> md'.phase, disposition |-> md'.disposition, version |-> md'.version,
               token |-> md'.token, epoch |-> md'.epoch]
    BY <1>0 DEF ChildrenTyped
  <2> QED
    BY <1>0, <1>2, <1>3, <2>1, <2>2, <2>3, <2>4, JobMarked
<1> QED
  BY <1>4, <1>5

\* The acceptance of a child's job.
LEMMA CompletionKeeps ==
  ASSUME ChildrenInv, InsertCompletion
  PROVE  ChildrenInv'
<1>0. ChildrenTyped /\ OneThingAwaited /\ child.pc # "ended"
      /\ UNCHANGED <<md, todo, parent, act>>
  BY DEF ChildrenInv, InsertCompletion
<1>1. PICK j : j = child.job
  OBVIOUS
<1>2. /\ act.name = "none" /\ parent.pc \in {"starting", "child"} /\ j \in DJobs /\ jobs[j] \in ChildJobs
      /\ j \in WorkJobs /\ jobs[j].retry # "settled"
  BY <1>0, <1>1, ChildAtWork
<1>3. child'.job = child.job /\ {"pc", "job"} \subseteq DOMAIN child'
  BY <1>0 DEF ChildrenTyped, InsertCompletion, Becomes
<1> DEFINE row == [jobs[j] EXCEPT !.completed = TRUE]
<1>4. jobs' = [jobs EXCEPT ![j] = row]
  BY <1>1 DEF InsertCompletion
<1>5. /\ row \in ChildJobs /\ row.item = jobs[j].item /\ row.attempt = jobs[j].attempt
      /\ row.epoch = jobs[j].epoch /\ row.retry = jobs[j].retry
  BY <1>2 DEF ChildJobs
<1> HIDE DEF row
<1>6. /\ jobs' \in Seq(ChildJobs) /\ DJobs' = DJobs
      /\ jobs'[j] = row /\ \A k \in DJobs \ {j} : jobs'[k] = jobs[k]
  BY <1>0, <1>2, <1>4, <1>5, JobWritten DEF ChildrenTyped
<1>7. \A k \in DJobs : /\ jobs'[k].item = jobs[k].item /\ jobs'[k].attempt = jobs[k].attempt
                       /\ jobs'[k].epoch = jobs[k].epoch /\ jobs'[k].retry = jobs[k].retry
                       /\ k # j => jobs'[k].completed = jobs[k].completed
  BY <1>5, <1>6
<1>8. \A k \in DJobs \ {j} : SameWork(j, k) => ~jobs[k].completed
  BY <1>2 DEF ChildrenInv, WorkIsNewest
<1>9. ChildrenTyped' /\ OneThingAwaited' /\ ActHolds'
  BY <1>0, <1>2, <1>3, <1>6 DEF ChildrenTyped, OneThingAwaited, ActHolds
<1>10. WorkJobs' = {j}
  BY <1>0, <1>1, <1>2, <1>3 DEF WorkJobs
<1>11. WorkIsNewest'
  BY <1>0, <1>2, <1>6, <1>7, <1>8, <1>10 DEF ChildrenInv, WorkIsNewest, SameWork
<1>12. JobsApart'
  BY <1>0, <1>2, <1>6, <1>7 DEF ChildrenInv, JobsApart, SameWork
<1>13. JobsCurrent'
  BY <1>0, <1>2, <1>6, <1>7 DEF ChildrenInv, JobsCurrent
<1>14. AcceptedApart'
  BY <1>6, <1>7, <1>8 DEF ChildrenInv, AcceptedApart, SameWork
<1> QED
  BY <1>9, <1>11, <1>12, <1>13, <1>14 DEF ChildrenInv

LEMMA ChildrenStep == ChildrenInv /\ [DNext]_dvars => ChildrenInv'
<1> SUFFICES ASSUME ChildrenInv, [DNext]_dvars PROVE ChildrenInv'
  OBVIOUS
<1>1. ASSUME NEW c \in Orders,
             \/ \E a \in OrderActions : Order(c, a)
             \/ TakeResult(c) \/ TakePreparation(c) \/ SeeChildGone(c) \/ TakeCompletion(c)
      PROVE  ChildrenInv'
  BY <1>1, OrdersKeep
<1>2. ASSUME NEW c \in Orders, ApplyOrder(c) \/ CompleteHandoff(c) PROVE ChildrenInv'
  BY <1>2, ApplyOrderKeeps, HandoffCompletes
<1>3. CASE \/ TakeFence \/ TakePhase \/ AfterHandoff \/ TakeSettled \/ TakeReconciled
  BY <1>3, ParentLeaves
<1>4. CASE \/ ReadControlFence \/ ScheduleEnter \/ SchedulePrepare \/ ScheduleComplete
           \/ ScheduleSettle \/ ScheduleReconcile
  BY <1>4, ActsScheduled
<1>5. CASE EnterCheck \/ CompleteCheck \/ PrepareBegin \/ MakeTransition
  BY <1>5, ChecksKeep, TransitionKeeps
<1>6. CASE Choose \/ Reserve \/ InsertJob \/ TakePrepared
  BY <1>6, ChooseKeeps, ReserveKeeps, InsertJobKeeps, TakePreparedKeeps
<1>7. CASE StartChild \/ HoldChild \/ TakeChild \/ KillAct
  BY <1>7, ChildStarts, ChildTaken, KillActKeeps
<1>8. CASE Settle \/ ReconcileItem
  BY <1>8, SettleKeeps, ReconcileKeeps
<1>9. CASE \/ ReadMail \/ ChildGoesOn \/ AdmitStage \/ LeaveStage
           \/ CheckScope \/ TakeCompleted \/ KillFinalize
  BY <1>9, ChildMoves
<1>10. CASE Validate \/ FinishStage \/ InsertCompletion
  BY <1>10, ChildMarks, CompletionKeeps
<1>11. CASE UNCHANGED dvars
  <2>1. UNCHANGED <<md, todo, jobs, parent, act, child>>
    BY <1>11 DEF dvars
  <2>2. ChildrenTyped'
    BY <2>1 DEF ChildrenInv, ChildrenTyped
  <2> QED
    BY <2>1, <2>2, AsideKeeps
<1> QED
  BY <1>1, <1>2, <1>3, <1>4, <1>5, <1>6, <1>7, <1>8, <1>9, <1>10, <1>11 DEF DNext

\* A child is accepted or retried, never both, and an item is accepted at most once
\* in an epoch, whatever commands, handoffs and kills come between the steps of
\* the parent, its activities and the child, for any items, commands and jobs
\* (complete_job, settle_retry, prepare_job, open_job).
THEOREM ItemsAcceptedOnce == DSpec => []AcceptedOnce
<1>1. ChildrenInv => AcceptedOnce
  <2> SUFFICES ASSUME ChildrenInv, NEW j \in 1..Len(jobs)
               PROVE  /\ jobs[j].retry = "settled" => ~jobs[j].completed
                      /\ \A k \in 1..(j - 1) :
                            ~(/\ jobs[j].completed /\ jobs[k].completed
                              /\ jobs[j].item = jobs[k].item /\ jobs[j].epoch = jobs[k].epoch)
    BY DEF AcceptedOnce
  <2>1. Len(jobs) \in Nat /\ j \in DJobs
    BY JobRow DEF ChildrenInv, ChildrenTyped, DJobs
  <2>2. \A k \in 1..(j - 1) : k \in DJobs /\ k # j
    BY <2>1 DEF DJobs
  <2> QED
    BY <2>1, <2>2 DEF ChildrenInv, JobsApart, AcceptedApart, SameWork
<1> QED
  BY <1>1, ChildrenStart, ChildrenStep, PTL DEF DSpec
=============================================================================
