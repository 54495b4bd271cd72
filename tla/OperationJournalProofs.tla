------------------------ MODULE OperationJournalProofs ------------------------
(***************************************************************************)
(* For any number of operations, callers, restarts and recovery passes:    *)
(* an effect happens at most once and the journal tells what happened, as  *)
(* long as no caller comes back under a start key it used before. A        *)
(* recovery pass says of a mission that moves only what holds of it, and   *)
(* the tables let it execute only what descends from its approval.         *)
(***************************************************************************)
EXTENDS OperationJournal, MissionRecovery, AuthoritySchema, SequenceTheorems, TLAPS

USE JournalAssumption

\* The installed pool of callers never calls again under its own start key.
NoReturn == Returning = {}

\* What _append writes: one lifecycle and one key.
LEMMA AppendWrites ==
    ASSUME NEW op \in Ops, NEW key, NEW from, NEW to, TypeOK, AppendEvent(op, key, from, to)
    PROVE  /\ life[op] \in from
           /\ life'[op] = to
           /\ \A q \in Ops : q # op => life'[q] = life[q]
           /\ \A q \in Ops : \A k : (\E e \in keys'[q] : e[1] = k)
                 <=> (Used(q, k) \/ (q = op /\ k = key))
  <1>1. life[op] \in from /\ life'[op] = to /\ \A q \in Ops : q # op => life'[q] = life[q]
    BY DEF AppendEvent, TypeOK
  <1>2. keys'[op] = keys[op] \cup {<<key, to>>} /\ \A q \in Ops : q # op => keys'[q] = keys[q]
    BY DEF AppendEvent, TypeOK
  <1>3. \A k : (\E e \in keys[op] \cup {<<key, to>>} : e[1] = k) <=> (Used(op, k) \/ k = key)
    <2>1. <<key, to>>[1] = key
      OBVIOUS
    <2> QED BY <2>1, Zenon DEF Used
  <1> QED BY <1>1, <1>2, <1>3 DEF Used

\* _append keeps the columns' types.
LEMMA AppendType ==
    ASSUME NEW op \in Ops, NEW key \in EventKeys, NEW from, NEW to \in Lifecycles,
           TypeOK, AppendEvent(op, key, from, to)
    PROVE  /\ life' \in [Ops -> Lifecycles \cup {"absent"}]
           /\ keys' \in [Ops -> SUBSET (EventKeys \X Lifecycles)]
  <1>1. life' \in [Ops -> Lifecycles \cup {"absent"}]
    BY DEF AppendEvent, TypeOK
  <1>2. <<key, to>> \in EventKeys \X Lifecycles
    OBVIOUS
  <1>3. keys' \in [Ops -> SUBSET (EventKeys \X Lifecycles)]
    BY <1>2 DEF AppendEvent, TypeOK
  <1> QED BY <1>1, <1>3

\* The keys the actions build are event keys.
LEMMA KeysAreEventKeys ==
    /\ \A op \in Ops : <<"reserved", op>> \in EventKeys /\ <<"operator", op>> \in EventKeys
    /\ \A c \in Callers : /\ <<"start", c>> \in EventKeys
                          /\ <<"end", c>> \in EventKeys
                          /\ <<"unknown", c>> \in EventKeys
    /\ \A k \in RecoveryKeys : /\ <<"mark-unknown", k>> \in EventKeys
                               /\ <<"unsafe-reservation", k>> \in EventKeys
                               /\ <<"reserved-retry", k>> \in EventKeys
                               /\ <<"reconcile", k>> \in EventKeys
  BY DEF EventKeys

\* What an observation leads to is a lifecycle.
LEMMA OutcomeType ==
    ASSUME NEW op \in Ops, NEW observation
    PROVE  Outcome(op, observation) \in Lifecycles
  BY DEF Outcome, Lifecycles

\* What a pass remembers of an operation it is through with.
LEMMA ExaminedWrites ==
    ASSUME NEW op, NEW lifecycle, TypeOK, Examined(op, lifecycle)
    PROVE  /\ pass' \in [key : RecoveryKeys \cup {"none"}, version : Nat, run : BOOLEAN,
                          sound : BOOLEAN, todo : SUBSET Ops, safe : BOOLEAN]
           /\ pass'.key = pass.key
           /\ pass'.todo = pass.todo \ {op}
           /\ pass'.safe => pass.safe /\ lifecycle \notin
                               {"unknown", "running", "reserved", "needs_attention"}
  <1> DEFINE safe == pass.safe /\ lifecycle \notin {"unknown", "running", "reserved", "needs_attention"}
  <1>1. pass' = [pass EXCEPT !.todo = pass.todo \ {op}, !.safe = safe]
    BY DEF Examined
  <1>2. safe \in BOOLEAN
    OBVIOUS
  <1>3. safe => pass.safe /\ lifecycle \notin {"unknown", "running", "reserved", "needs_attention"}
    OBVIOUS
  <1> HIDE DEF safe
  <1> QED BY <1>1, <1>2, <1>3 DEF TypeOK

-----------------------------------------------------------------------------
LEMMA InitInv == Init => IInv
  <1> SUFFICES ASSUME Init PROVE IInv OBVIOUS
  <1>1. TypeOK
    BY DEF Init, TypeOK, Idle
  <1>2. Passing /\ Quiet /\ RunnerAlone
    BY DEF Init, Passing, Quiet, RunnerAlone
  <1>3. StartsOnce /\ AttemptedOnce /\ FirstAttempt
    BY DEF Init, StartsOnce, AttemptedOnce, FirstAttempt, Used
  <1>4. JournalTellsEffects /\ EffectAtMostOnce /\ PassTells
    BY DEF Init, JournalTellsEffects, EffectAtMostOnce, PassTells, Idle
  <1> QED BY <1>1, <1>2, <1>3, <1>4 DEF IInv

\* Types, and that a pass runs only while the host recovers.
LEMMA TypeStep ==
    ASSUME TypeOK, Passing, [Next]_vars
    PROVE  TypeOK' /\ Passing'
  <1> USE KeysAreEventKeys
  <1>1. ASSUME NEW run \in BOOLEAN, ChangeMission(run) PROVE TypeOK' /\ Passing'
    BY <1>1 DEF ChangeMission, TypeOK, Passing, journal, recovery
  <1>2. ASSUME NEW c \in Callers, ReserveRead(c) PROVE TypeOK' /\ Passing'
    BY <1>2 DEF ReserveRead, Tell, TypeOK, Passing, journal, mission, recovery
  <1>3. ASSUME NEW c \in Callers, ReserveInsert(c) PROVE TypeOK' /\ Passing'
    <2>1. UNCHANGED <<mission, seen, effects, recovery>> /\ pc' \in [Callers -> {"idle", "scoped", "told", "started", "applied", "gone"}]
          /\ bound' \in [Ops -> Nat]
      BY <1>3 DEF ReserveInsert, Tell, TypeOK
    <2>2. /\ life' \in [Ops -> Lifecycles \cup {"absent"}]
          /\ keys' \in [Ops -> SUBSET (EventKeys \X Lifecycles)]
      <3>1. CASE AppendEvent(About[c], <<"reserved", About[c]>>, {"absent"}, "reserved")
        BY <3>1, AppendType DEF Lifecycles
      <3>2. CASE UNCHANGED journal
        BY <3>2 DEF journal, TypeOK
      <3> QED BY <1>3, <3>1, <3>2 DEF ReserveInsert
    <2> QED BY <2>1, <2>2 DEF TypeOK, Passing, mission, recovery
  <1>4. ASSUME NEW c \in Callers, Start(c) PROVE TypeOK' /\ Passing'
    <2>1. UNCHANGED <<bound, mission, seen, effects, recovery>> /\ pc' \in [Callers -> {"idle", "scoped", "told", "started", "applied", "gone"}]
      BY <1>4 DEF Start, TypeOK
    <2>2. /\ life' \in [Ops -> Lifecycles \cup {"absent"}]
          /\ keys' \in [Ops -> SUBSET (EventKeys \X Lifecycles)]
      <3>1. CASE AppendEvent(About[c], <<"start", c>>, StartsFrom, "running")
        BY <3>1, AppendType DEF Lifecycles
      <3>2. CASE UNCHANGED journal
        BY <3>2 DEF journal, TypeOK
      <3> QED BY <1>4, <3>1, <3>2 DEF Start, Repeat, Refused
    <2> QED BY <2>1, <2>2 DEF TypeOK, Passing, mission, recovery
  <1>5. ASSUME NEW c \in Callers, Effect(c) PROVE TypeOK' /\ Passing'
    BY <1>5 DEF Effect, TypeOK, Passing, journal, mission, recovery
  <1>6. ASSUME NEW c \in Callers, NEW to \in {"completed", "failed", "unknown"}, Report(c, to)
        PROVE  TypeOK' /\ Passing'
    <2>1. UNCHANGED <<bound, mission, seen, effects, recovery>> /\ pc' \in [Callers -> {"idle", "scoped", "told", "started", "applied", "gone"}]
      BY <1>6 DEF Report, TypeOK
    <2>2. /\ life' \in [Ops -> Lifecycles \cup {"absent"}]
          /\ keys' \in [Ops -> SUBSET (EventKeys \X Lifecycles)]
      <3> DEFINE key == <<IF to = "unknown" THEN "unknown" ELSE "end", c>>
                 from == IF to = "unknown" THEN {"reserved", "running", "retry_ready"} ELSE {"running"}
      <3>1. CASE AppendEvent(About[c], key, from, to)
        <4>1. key \in EventKeys /\ to \in Lifecycles
          BY DEF Lifecycles
        <4> HIDE DEF key, from
        <4> QED BY <3>1, <4>1, AppendType
      <3>2. CASE UNCHANGED journal
        BY <3>2 DEF journal, TypeOK
      <3> QED BY <1>6, <3>1, <3>2 DEF Report, Repeat, Refused
    <2> QED BY <2>1, <2>2 DEF TypeOK, Passing, mission, recovery
  <1>7. ASSUME NEW c \in Callers, CallerDies(c) \/ CallAgain(c) PROVE TypeOK' /\ Passing'
    BY <1>7 DEF CallerDies, CallAgain, TypeOK, Passing, journal, mission, recovery
  <1>8. ASSUME NEW op \in Ops, NEW observation, ReconcilePublication(op, observation)
        PROVE  TypeOK' /\ Passing'
    <2>1. /\ life' \in [Ops -> Lifecycles \cup {"absent"}]
          /\ keys' \in [Ops -> SUBSET (EventKeys \X Lifecycles)]
      BY <1>8, AppendType, OutcomeType DEF ReconcilePublication
    <2> QED BY <1>8, <2>1 DEF ReconcilePublication, TypeOK, Passing, mission, recovery
  <1>9. CASE Restart
    BY <1>9 DEF Restart, TypeOK, Passing, Idle, journal, mission
  <1>10. ASSUME NEW k \in RecoveryKeys, NEW sound \in BOOLEAN, BeginRecovery(k, sound)
         PROVE  TypeOK' /\ Passing'
    BY <1>10 DEF BeginRecovery, TypeOK, Passing, journal, mission
  <1>11. ASSUME NEW op \in Ops, RecoverOp(op) PROVE TypeOK' /\ Passing'
    <2>1. /\ UNCHANGED <<bound, mission, pc, seen, effects, mode, recovered, restarts>>
          /\ op \in pass.todo
      BY <1>11 DEF RecoverOp, RecoverRunning, RecoverReserved, RecoverUnknown, RecoverSettled
    <2>2. mode = "recovering" /\ pass.key \in RecoveryKeys
      BY <2>1 DEF Passing, Idle
    <2>3. pass' = Idle \/ pass' = pass \/ \E lifecycle : Examined(op, lifecycle)
      BY <1>11 DEF RecoverOp, RecoverRunning, RecoverReserved, RecoverUnknown, RecoverSettled
    <2>4. /\ pass' \in [key : RecoveryKeys \cup {"none"}, version : Nat, run : BOOLEAN,
                        sound : BOOLEAN, todo : SUBSET Ops, safe : BOOLEAN]
          /\ pass' # Idle => pass'.key \in RecoveryKeys
      <3>1. CASE pass' = Idle
        BY <3>1 DEF Idle, TypeOK
      <3>2. CASE pass' = pass
        BY <2>2, <3>2 DEF TypeOK
      <3>3. ASSUME NEW lifecycle, Examined(op, lifecycle)
            PROVE  /\ pass' \in [key : RecoveryKeys \cup {"none"}, version : Nat, run : BOOLEAN,
                                  sound : BOOLEAN, todo : SUBSET Ops, safe : BOOLEAN]
                   /\ pass' # Idle => pass'.key \in RecoveryKeys
        BY <2>2, <3>3, ExaminedWrites
      <3> QED BY <2>3, <3>1, <3>2, <3>3
    <2>5. /\ life' \in [Ops -> Lifecycles \cup {"absent"}]
          /\ keys' \in [Ops -> SUBSET (EventKeys \X Lifecycles)]
      <3>1. CASE UNCHANGED journal
        BY <3>1 DEF journal, TypeOK
      <3>2. CASE RecoverRunning(op)
        BY <2>2, <3>1, <3>2, AppendType DEF RecoverRunning, Repeat, Lifecycles
      <3>3. CASE RecoverReserved(op)
        BY <2>2, <3>3, AppendType DEF RecoverReserved, Lifecycles
      <3>4. ASSUME NEW observation, RecoverUnknown(op, observation)
            PROVE  /\ life' \in [Ops -> Lifecycles \cup {"absent"}]
                   /\ keys' \in [Ops -> SUBSET (EventKeys \X Lifecycles)]
        BY <2>2, <3>1, <3>4, AppendType, OutcomeType DEF RecoverUnknown, Repeat, Refused
      <3>5. CASE RecoverSettled(op)
        BY <3>1, <3>5 DEF RecoverSettled
      <3> QED BY <1>11, <3>2, <3>3, <3>4, <3>5 DEF RecoverOp
    <2> QED BY <2>1, <2>2, <2>4, <2>5 DEF TypeOK, Passing, mission
  <1>12. CASE FinishRecovery
    BY <1>12 DEF FinishRecovery, TypeOK, Passing, Idle, journal, mission
  <1>13. CASE UNCHANGED vars
    BY <1>13 DEF vars, TypeOK, Passing, journal, mission, recovery
  <1> QED BY <1>1, <1>2, <1>3, <1>4, <1>5, <1>6, <1>7, <1>8, <1>9, <1>10, <1>11, <1>12, <1>13 DEF Next

-----------------------------------------------------------------------------
\* Only start appends under a start key.
LEMMA OtherKeys ==
    ASSUME NEW op \in Ops, NEW kind, NEW who, NEW from, NEW to, TypeOK, kind # "start",
           AppendEvent(op, <<kind, who>>, from, to)
    PROVE  \A q \in Ops, c \in Callers : Used(q, <<"start", c>>)' <=> Used(q, <<"start", c>>)
  <1> SUFFICES ASSUME NEW q \in Ops, NEW c \in Callers
               PROVE  Used(q, <<"start", c>>)' <=> Used(q, <<"start", c>>)
    OBVIOUS
  <1>1. <<kind, who>> # <<"start", c>>
    OBVIOUS
  <1>2. (\E e \in keys'[q] : e[1] = <<"start", c>>)
           <=> (Used(q, <<"start", c>>) \/ (q = op /\ <<"start", c>> = <<kind, who>>))
    BY AppendWrites
  <1> QED BY <1>1, <1>2 DEF Used

\* Start adds the caller's own start key and no other.
LEMMA StartKeys ==
    ASSUME NEW d \in Callers, NEW from, NEW to, TypeOK,
           AppendEvent(About[d], <<"start", d>>, from, to)
    PROVE  \A q \in Ops, c \in Callers :
              Used(q, <<"start", c>>)' <=> (Used(q, <<"start", c>>) \/ (q = About[d] /\ c = d))
  <1> SUFFICES ASSUME NEW q \in Ops, NEW c \in Callers
               PROVE  Used(q, <<"start", c>>)' <=> (Used(q, <<"start", c>>) \/ (q = About[d] /\ c = d))
    OBVIOUS
  <1>1. <<"start", c>> = <<"start", d>> <=> c = d
    OBVIOUS
  <1>2. (\E e \in keys'[q] : e[1] = <<"start", c>>)
           <=> (Used(q, <<"start", c>>) \/ (q = About[d] /\ <<"start", c>> = <<"start", d>>))
    BY AppendWrites
  <1> QED BY <1>1, <1>2 DEF Used

\* Nothing appended, no key used.
LEMMA SameKeys ==
    ASSUME UNCHANGED journal
    PROVE  \A q \in Ops, c \in Callers : Used(q, <<"start", c>>)' <=> Used(q, <<"start", c>>)
  BY DEF journal, Used

Live == Quiet /\ RunnerAlone /\ StartsOnce

\* While the host recovers, a step of the recovery pass disturbs no caller.
LEMMA RecoveryLive ==
    ASSUME NoReturn, TypeOK, Passing, Live, NEW op \in Ops, RecoverOp(op)
    PROVE  /\ mode = "recovering" /\ pass.key \in RecoveryKeys
           /\ UNCHANGED <<bound, mission, pc, seen, effects, mode, recovered, restarts>>
           /\ \A q \in Ops, c \in Callers : Used(q, <<"start", c>>)' <=> Used(q, <<"start", c>>)
           /\ \A q \in Ops : q # op => life'[q] = life[q]
  <1>1. /\ UNCHANGED <<bound, mission, pc, seen, effects, mode, recovered, restarts>>
        /\ op \in pass.todo
    BY DEF RecoverOp, RecoverRunning, RecoverReserved, RecoverUnknown, RecoverSettled
  <1>2. mode = "recovering" /\ pass.key \in RecoveryKeys
    BY <1>1 DEF Passing, Idle
  <1> DEFINE Undisturbed ==
        /\ \A q \in Ops, c \in Callers : Used(q, <<"start", c>>)' <=> Used(q, <<"start", c>>)
        /\ \A q \in Ops : q # op => life'[q] = life[q]
  <1>3. CASE UNCHANGED journal
    <2>1. \A q \in Ops : q # op => life'[q] = life[q]
      BY <1>3 DEF journal
    <2> QED BY <1>1, <1>2, <1>3, <2>1, SameKeys
  <1>4. ASSUME NEW kind, NEW from, NEW to, kind # "start",
               AppendEvent(op, <<kind, pass.key>>, from, to)
        PROVE  Undisturbed
    <2>1. \A q \in Ops : q # op => life'[q] = life[q]
      BY <1>4, AppendWrites
    <2>2. \A q \in Ops, c \in Callers : Used(q, <<"start", c>>)' <=> Used(q, <<"start", c>>)
      BY <1>4, OtherKeys
    <2> QED BY <2>1, <2>2
  <1>5. CASE RecoverRunning(op)
    BY <1>1, <1>2, <1>3, <1>4, <1>5 DEF RecoverRunning, Repeat
  <1>6. CASE RecoverReserved(op)
    BY <1>1, <1>2, <1>4, <1>6 DEF RecoverReserved
  <1>7. ASSUME NEW observation, RecoverUnknown(op, observation) PROVE Undisturbed
    BY <1>1, <1>2, <1>3, <1>4, <1>7 DEF RecoverUnknown, Repeat, Refused
  <1>8. CASE RecoverSettled(op)
    BY <1>1, <1>2, <1>3, <1>8 DEF RecoverSettled
  <1> QED BY <1>1, <1>2, <1>5, <1>6, <1>7, <1>8 DEF RecoverOp

\* A caller between start and its report is alone, and no key is reused.
LEMMA LiveStep ==
    ASSUME NoReturn, TypeOK, Passing, Live, JournalTellsEffects, [Next]_vars
    PROVE  Live'
  <1> USE DEF Live
  <1> DEFINE SameStarts ==
        \A q \in Ops, c \in Callers : Used(q, <<"start", c>>)' <=> Used(q, <<"start", c>>)
  <1>1. ASSUME NEW run \in BOOLEAN, ChangeMission(run) PROVE Live'
    <2>1. UNCHANGED <<journal, pc, effects, mode>>
      BY <1>1 DEF ChangeMission, recovery
    <2> QED BY <2>1, SameKeys DEF Quiet, RunnerAlone, StartsOnce, journal
  <1>2. ASSUME NEW c \in Callers, ReserveRead(c) PROVE Live'
    <2>1. /\ UNCHANGED <<journal, effects, mode>> /\ mode = "up" /\ pc[c] = "idle"
          /\ pc'[c] \in {"told", "gone", "scoped"}
          /\ \A d \in Callers : d # c => pc'[d] = pc[d]
      BY <1>2 DEF ReserveRead, Tell, recovery, TypeOK
    <2>2. SameStarts
      BY <2>1, SameKeys
    <2>3. Quiet' /\ StartsOnce'
      BY <2>1, <2>2 DEF Quiet, StartsOnce
    <2>4. RunnerAlone'
      BY <2>1 DEF RunnerAlone, journal
    <2> QED BY <2>3, <2>4
  <1>3. ASSUME NEW c \in Callers, ReserveInsert(c) PROVE Live'
    <2>1. /\ UNCHANGED <<effects, mode>> /\ pc[c] = "scoped" /\ mode = "up"
          /\ pc'[c] \in {"told", "gone"}
          /\ \A d \in Callers : d # c => pc'[d] = pc[d]
      BY <1>3 DEF ReserveInsert, Tell, recovery, TypeOK, Quiet
    <2>2. SameStarts /\ \A q \in Ops : life[q] = "running" => life'[q] = "running"
      <3>1. CASE AppendEvent(About[c], <<"reserved", About[c]>>, {"absent"}, "reserved")
        <4>1. SameStarts
          BY <3>1, OtherKeys
        <4>2. \A q \in Ops : life[q] = "running" => life'[q] = "running"
          BY <3>1, AppendWrites
        <4> QED BY <4>1, <4>2
      <3>2. CASE UNCHANGED journal
        <4>1. SameStarts
          BY <3>2, SameKeys
        <4> QED BY <3>2, <4>1 DEF journal
      <3> QED BY <1>3, <3>1, <3>2 DEF ReserveInsert
    <2>3. Quiet' /\ StartsOnce'
      BY <2>1, <2>2 DEF Quiet, StartsOnce
    <2>4. RunnerAlone'
      BY <2>1, <2>2 DEF RunnerAlone
    <2> QED BY <2>3, <2>4
  <1>4. ASSUME NEW c \in Callers, Start(c) PROVE Live'
    <2>1. /\ UNCHANGED <<effects, mode>> /\ pc[c] = "told" /\ mode = "up"
          /\ pc'[c] \in {"started", "gone"}
          /\ \A d \in Callers : d # c => pc'[d] = pc[d]
      BY <1>4 DEF Start, recovery, TypeOK, Quiet
    <2>2. ~Repeat(About[c], <<"start", c>>, "running")
      <3>1. ~Used(About[c], <<"start", c>>)
        BY <2>1 DEF StartsOnce
      <3>2. <<<<"start", c>>, "running">>[1] = <<"start", c>>
        OBVIOUS
      <3> QED BY <3>1, <3>2, Zenon DEF Used, Repeat
    <2>3. CASE pc'[c] = "started"
      <3>1. AppendEvent(About[c], <<"start", c>>, StartsFrom, "running")
        BY <1>4, <2>1, <2>2, <2>3 DEF Start, TypeOK
      <3>2. /\ life[About[c]] \in StartsFrom /\ life'[About[c]] = "running"
            /\ \A q \in Ops : q # About[c] => life'[q] = life[q]
        BY <3>1, AppendWrites
      <3>3. \A d \in Callers : About[d] = About[c] => pc[d] \notin {"started", "applied"}
        BY <3>2 DEF RunnerAlone, StartsFrom
      <3>4. \A q \in Ops, d \in Callers :
               Used(q, <<"start", d>>)' <=> (Used(q, <<"start", d>>) \/ (q = About[c] /\ d = c))
        BY <3>1, StartKeys
      <3>5. Quiet' /\ StartsOnce'
        BY <2>1, <3>4 DEF Quiet, StartsOnce
      <3>6. effects[About[c]] = {}
        BY <3>2 DEF StartsFrom, JournalTellsEffects
      <3>7. RunnerAlone'
        BY <2>1, <2>3, <3>2, <3>3, <3>6 DEF RunnerAlone
      <3> QED BY <3>5, <3>7
    <2>4. CASE pc'[c] = "gone"
      <3>1. UNCHANGED journal
        BY <1>4, <2>2, <2>4 DEF Start, Refused, TypeOK
      <3>2. SameStarts
        BY <3>1, SameKeys
      <3>3. Quiet' /\ StartsOnce'
        BY <2>1, <2>4, <3>2 DEF Quiet, StartsOnce
      <3>4. RunnerAlone'
        BY <2>1, <2>4, <3>1 DEF RunnerAlone, journal
      <3> QED BY <3>3, <3>4
    <2> QED BY <2>1, <2>3, <2>4
  <1>5. ASSUME NEW c \in Callers, Effect(c) PROVE Live'
    <2>1. /\ UNCHANGED <<journal, mode>> /\ pc[c] = "started" /\ pc'[c] = "applied"
          /\ \A d \in Callers : d # c => pc'[d] = pc[d]
          /\ effects'[About[c]] = effects[About[c]] \cup {c}
          /\ \A q \in Ops : q # About[c] => effects'[q] = effects[q]
      BY <1>5 DEF Effect, recovery, TypeOK
    <2>2. SameStarts
      BY <2>1, SameKeys
    <2>3. Quiet' /\ StartsOnce'
      BY <2>1, <2>2 DEF Quiet, StartsOnce
    <2>4. effects[About[c]] = {} /\ \A d \in Callers :
             d # c /\ About[d] = About[c] => pc[d] \notin {"started", "applied"}
      BY <2>1 DEF RunnerAlone
    <2>5. RunnerAlone'
      BY <2>1, <2>4 DEF RunnerAlone, journal
    <2> QED BY <2>3, <2>5
  <1>6. ASSUME NEW c \in Callers, NEW to \in {"completed", "failed", "unknown"}, Report(c, to)
        PROVE  Live'
    <2> DEFINE kind == IF to = "unknown" THEN "unknown" ELSE "end"
               from == IF to = "unknown" THEN {"reserved", "running", "retry_ready"} ELSE {"running"}
    <2>1. /\ UNCHANGED <<effects, mode>> /\ pc[c] \in {"started", "applied"} /\ pc'[c] = "gone"
          /\ \A d \in Callers : d # c => pc'[d] = pc[d]
      BY <1>6 DEF Report, recovery, TypeOK
    <2>2. SameStarts /\ \A q \in Ops : q # About[c] => life'[q] = life[q]
      <3>1. CASE AppendEvent(About[c], <<kind, c>>, from, to)
        <4>1. kind # "start"
          OBVIOUS
        <4> HIDE DEF kind, from
        <4>2. SameStarts
          BY <3>1, <4>1, OtherKeys
        <4>3. \A q \in Ops : q # About[c] => life'[q] = life[q]
          BY <3>1, AppendWrites
        <4> QED BY <4>2, <4>3
      <3>2. CASE UNCHANGED journal
        <4>1. SameStarts
          BY <3>2, SameKeys
        <4> QED BY <3>2, <4>1 DEF journal
      <3> QED BY <1>6, <3>1, <3>2 DEF Report, Repeat, Refused
    <2>3. Quiet' /\ StartsOnce'
      BY <2>1, <2>2 DEF Quiet, StartsOnce
    <2>4. \A d \in Callers : d # c /\ pc[d] \in {"started", "applied"} => About[d] # About[c]
      BY <2>1 DEF RunnerAlone
    <2>5. RunnerAlone'
      BY <2>1, <2>2, <2>4 DEF RunnerAlone
    <2> QED BY <2>3, <2>5
  <1>7. ASSUME NEW c \in Callers, CallerDies(c) \/ CallAgain(c) PROVE Live'
    <2>1. CallerDies(c)
      BY <1>7 DEF CallAgain, NoReturn
    <2>2. /\ UNCHANGED <<journal, effects, mode>> /\ pc'[c] = "gone"
          /\ \A d \in Callers : d # c => pc'[d] = pc[d]
      BY <2>1 DEF CallerDies, recovery, TypeOK
    <2>3. SameStarts
      BY <2>2, SameKeys
    <2>4. Quiet' /\ StartsOnce'
      BY <2>2, <2>3 DEF Quiet, StartsOnce
    <2>5. RunnerAlone'
      BY <2>2 DEF RunnerAlone, journal
    <2> QED BY <2>4, <2>5
  <1>8. ASSUME NEW op \in Ops, NEW observation, ReconcilePublication(op, observation) PROVE Live'
    <2>1. UNCHANGED <<pc, effects, mode>> /\ mode = "up"
      BY <1>8 DEF ReconcilePublication, recovery
    <2>2. AppendEvent(op, <<"operator", op>>, {"unknown"}, Outcome(op, observation))
      BY <1>8 DEF ReconcilePublication
    <2>3. SameStarts
      BY <2>2, OtherKeys
    <2>4. \A q \in Ops : life[q] = "running" => life'[q] = "running"
      BY <2>2, AppendWrites
    <2>5. Quiet' /\ StartsOnce'
      BY <2>1, <2>3 DEF Quiet, StartsOnce
    <2>6. RunnerAlone'
      BY <2>1, <2>4 DEF RunnerAlone
    <2> QED BY <2>5, <2>6
  <1>9. CASE Restart
    <2>1. /\ UNCHANGED <<journal, effects>> /\ mode' = "recovering"
          /\ \A d \in Callers : pc'[d] = IF pc[d] = "idle" THEN "idle" ELSE "gone"
      BY <1>9 DEF Restart
    <2>2. SameStarts
      BY <2>1, SameKeys
    <2>3. Quiet' /\ StartsOnce' /\ RunnerAlone'
      BY <2>1, <2>2 DEF Quiet, StartsOnce, RunnerAlone
    <2> QED BY <2>3
  <1>10. ASSUME NEW k \in RecoveryKeys, NEW sound \in BOOLEAN, BeginRecovery(k, sound) PROVE Live'
    <2>1. UNCHANGED <<journal, pc, effects, mode>>
      BY <1>10 DEF BeginRecovery
    <2> QED BY <2>1, SameKeys DEF Quiet, RunnerAlone, StartsOnce, journal
  <1>11. ASSUME NEW op \in Ops, RecoverOp(op) PROVE Live'
    <2>1. /\ mode = "recovering" /\ UNCHANGED <<pc, effects, mode>> /\ SameStarts
      BY <1>11, RecoveryLive
    <2>2. Quiet' /\ StartsOnce'
      BY <2>1 DEF Quiet, StartsOnce
    <2>3. RunnerAlone'
      BY <2>1, <2>2 DEF RunnerAlone, Quiet
    <2> QED BY <2>2, <2>3
  <1>12. CASE FinishRecovery
    <2>1. /\ UNCHANGED <<journal, pc, effects>> /\ mode = "recovering" /\ mode' \in {mode, "up"}
      BY <1>12 DEF FinishRecovery, Passing
    <2>2. SameStarts
      BY <2>1, SameKeys
    <2>3. Quiet' /\ StartsOnce'
      BY <2>1, <2>2 DEF Quiet, StartsOnce
    <2>4. RunnerAlone'
      BY <2>1 DEF RunnerAlone, Quiet, journal
    <2> QED BY <2>3, <2>4
  <1>13. CASE UNCHANGED vars
    <2>1. UNCHANGED <<journal, pc, effects, mode>>
      BY <1>13 DEF vars, journal, recovery
    <2> QED BY <2>1, SameKeys DEF Quiet, RunnerAlone, StartsOnce, journal
  <1> QED BY <1>1, <1>2, <1>3, <1>4, <1>5, <1>6, <1>7, <1>8, <1>9, <1>10, <1>11, <1>12, <1>13 DEF Next

-----------------------------------------------------------------------------
\* The moves of an operation, and what each of them says of its effect.
Move(op) ==
    \/ life[op] = "absent" /\ life'[op] = "reserved" /\ running /\ bound'[op] = version
    \/ life[op] \in {"reserved", "retry_ready"} /\ life'[op] = "running"
    \/ life[op] = "running" /\ life'[op] = "completed" /\ effects[op] # {}
    \/ life[op] = "running" /\ life'[op] = "failed" /\ effects[op] = {}
    \/ life[op] \in {"reserved", "running"} /\ life'[op] = "unknown"
    \/ life[op] = "reserved" /\ life'[op] = "retry_ready"
    \/ life[op] = "unknown" /\ life'[op] = "reconciled" /\ effects[op] # {}
    \/ life[op] = "unknown" /\ life'[op] = "retry_ready" /\ effects[op] = {} /\ op \in Retryable
    \/ life[op] = "unknown" /\ life'[op] = "needs_attention"

SameStarts ==
    \A q \in Ops, c \in Callers : Used(q, <<"start", c>>)' <=> Used(q, <<"start", c>>)
FirstStart(op) ==
    \E c \in Callers : About[c] = op /\ AppendEvent(op, <<"start", c>>, StartsFrom, "running")
Moves(op) ==
    /\ Move(op)
    /\ \A q \in Ops : q # op => life'[q] = life[q]
    /\ SameStarts \/ FirstStart(op)

\* What a reconciliation writes follows from the truth.
LEMMA ReconcileMoves ==
    ASSUME TypeOK, NEW op \in Ops, NEW observation \in Observations(op), NEW kind, NEW who,
           kind # "start",
           AppendEvent(op, <<kind, who>>, {"unknown"}, Outcome(op, observation))
    PROVE  Moves(op)
  <1>1. SameStarts
    BY OtherKeys DEF SameStarts
  <1>2. /\ life[op] = "unknown" /\ life'[op] = Outcome(op, observation)
        /\ \A q \in Ops : q # op => life'[q] = life[q]
    BY AppendWrites
  <1>3. Move(op)
    BY <1>2 DEF Observations, Outcome, Move
  <1> QED BY <1>1, <1>2, <1>3 DEF Moves

\* Every step is an effect, leaves the journal alone, or moves one operation.
LEMMA Steps ==
    ASSUME NoReturn, TypeOK, Passing, Live, [Next]_vars
    PROVE  \/ \E c \in Callers : Effect(c)
           \/ UNCHANGED <<journal, effects>>
           \/ UNCHANGED effects /\ \E op \in Ops : Moves(op)
  <1> USE DEF Live
  <1> DEFINE Step == \/ \E c \in Callers : Effect(c)
                     \/ UNCHANGED <<journal, effects>>
                     \/ UNCHANGED effects /\ \E op \in Ops : Moves(op)
  <1>1. ASSUME NEW c \in Callers, ReserveInsert(c) PROVE Step
    <2>1. UNCHANGED effects
      BY <1>1 DEF ReserveInsert
    <2>2. CASE /\ ScopeHolds(c)
               /\ AppendEvent(About[c], <<"reserved", About[c]>>, {"absent"}, "reserved")
               /\ bound' = [bound EXCEPT ![About[c]] = seen[c]]
      <3>1. SameStarts
        BY <2>2, OtherKeys DEF SameStarts
      <3>2. /\ life[About[c]] = "absent" /\ life'[About[c]] = "reserved"
            /\ \A q \in Ops : q # About[c] => life'[q] = life[q]
        BY <2>2, AppendWrites
      <3>3. Move(About[c])
        BY <2>2, <3>2 DEF Move, ScopeHolds, TypeOK
      <3> QED BY <2>1, <3>1, <3>2, <3>3 DEF Moves
    <2> QED BY <1>1, <2>1, <2>2 DEF ReserveInsert
  <1>2. ASSUME NEW c \in Callers, Start(c) PROVE Step
    <2>1. UNCHANGED effects
      BY <1>2 DEF Start
    <2>2. CASE AppendEvent(About[c], <<"start", c>>, StartsFrom, "running")
      <3>1. /\ life[About[c]] \in StartsFrom /\ life'[About[c]] = "running"
            /\ \A q \in Ops : q # About[c] => life'[q] = life[q]
        BY <2>2, AppendWrites
      <3>2. Move(About[c])
        BY <3>1 DEF Move, StartsFrom
      <3> QED BY <2>1, <2>2, <3>1, <3>2 DEF Moves, FirstStart
    <2> QED BY <1>2, <2>1, <2>2 DEF Start, Repeat, Refused
  <1>3. ASSUME NEW c \in Callers, NEW to \in {"completed", "failed", "unknown"}, Report(c, to)
        PROVE  Step
    <2> DEFINE kind == IF to = "unknown" THEN "unknown" ELSE "end"
               from == IF to = "unknown" THEN {"reserved", "running", "retry_ready"} ELSE {"running"}
    <2>1. UNCHANGED effects /\ pc[c] \in {"started", "applied"}
      BY <1>3 DEF Report
    <2>2. CASE AppendEvent(About[c], <<kind, c>>, from, to)
      <3>1. kind # "start"
        OBVIOUS
      <3> HIDE DEF kind, from
      <3>2. SameStarts
        BY <2>2, <3>1, OtherKeys DEF SameStarts
      <3>3. life'[About[c]] = to /\ \A q \in Ops : q # About[c] => life'[q] = life[q]
        BY <2>2, AppendWrites
      <3>4. life[About[c]] = "running" /\ effects[About[c]] = IF pc[c] = "applied" THEN {c} ELSE {}
        BY <2>1 DEF RunnerAlone
      <3>5. (to = "completed" => pc[c] = "applied") /\ (to = "failed" => pc[c] = "started")
        BY <1>3 DEF Report
      <3>6. Move(About[c])
        BY <3>3, <3>4, <3>5 DEF Move
      <3> QED BY <2>1, <3>2, <3>3, <3>6 DEF Moves
    <2> QED BY <1>3, <2>1, <2>2 DEF Report, Repeat, Refused
  <1>4. ASSUME NEW op \in Ops, NEW observation, ReconcilePublication(op, observation) PROVE Step
    BY <1>4, ReconcileMoves DEF ReconcilePublication
  <1>5. ASSUME NEW op \in Ops, RecoverOp(op) PROVE Step
    <2>1. /\ mode = "recovering" /\ UNCHANGED effects /\ SameStarts
          /\ \A q \in Ops : q # op => life'[q] = life[q]
      BY <1>5, RecoveryLive DEF SameStarts
    <2>2. CASE RecoverRunning(op)
      <3>1. CASE AppendEvent(op, <<"mark-unknown", pass.key>>, {"running"}, "unknown")
        BY <2>1, <3>1, AppendWrites DEF Moves, Move
      <3> QED BY <2>1, <2>2, <3>1 DEF RecoverRunning, Repeat
    <2>3. CASE RecoverReserved(op)
      <3>1. life[op] = "reserved" /\ life'[op] \in {"retry_ready", "unknown"}
        BY <2>3, AppendWrites DEF RecoverReserved
      <3> QED BY <2>1, <3>1 DEF Moves, Move
    <2>4. ASSUME NEW observation, RecoverUnknown(op, observation) PROVE Step
      <3>1. observation \in Observations(op)
        BY <2>4 DEF RecoverUnknown, Observations
      <3> QED BY <2>1, <2>4, <3>1, ReconcileMoves DEF RecoverUnknown, Repeat, Refused
    <2> QED BY <1>5, <2>1, <2>2, <2>3, <2>4 DEF RecoverOp, RecoverSettled
  <1>6. ASSUME NEW run \in BOOLEAN, ChangeMission(run) PROVE Step
    BY <1>6 DEF ChangeMission
  <1>7. ASSUME NEW c \in Callers, ReserveRead(c) \/ CallerDies(c) \/ CallAgain(c) PROVE Step
    BY <1>7 DEF ReserveRead, CallerDies, CallAgain
  <1>8. CASE Restart \/ FinishRecovery
    BY <1>8 DEF Restart, FinishRecovery
  <1>9. ASSUME NEW k \in RecoveryKeys, NEW sound \in BOOLEAN, BeginRecovery(k, sound) PROVE Step
    BY <1>9 DEF BeginRecovery
  <1>10. CASE UNCHANGED vars
    BY <1>10 DEF vars, journal
  <1> QED BY <1>1, <1>2, <1>3, <1>4, <1>5, <1>6, <1>7, <1>8, <1>9, <1>10 DEF Next

-----------------------------------------------------------------------------
\* Before an effect nothing happened, and it touches the journal not at all.
LEMMA EffectWrites ==
    ASSUME TypeOK, Live, NEW c \in Callers, Effect(c)
    PROVE  /\ UNCHANGED <<journal, pass, mode>>
           /\ life[About[c]] = "running" /\ effects[About[c]] = {}
           /\ effects'[About[c]] = {c}
           /\ \A q \in Ops : q # About[c] => effects'[q] = effects[q]
  BY DEF Effect, Live, RunnerAlone, TypeOK, recovery

\* The journal tells the effects, and each happened at most once.
LEMMA DataStep ==
    ASSUME NoReturn, TypeOK, Passing, Live, JournalTellsEffects, EffectAtMostOnce, [Next]_vars
    PROVE  JournalTellsEffects' /\ EffectAtMostOnce'
  <1>1. ASSUME NEW c \in Callers, Effect(c) PROVE JournalTellsEffects' /\ EffectAtMostOnce'
    BY <1>1, EffectWrites DEF JournalTellsEffects, EffectAtMostOnce, journal
  <1>2. CASE UNCHANGED <<journal, effects>>
    BY <1>2 DEF JournalTellsEffects, EffectAtMostOnce, journal
  <1>3. ASSUME UNCHANGED effects, NEW op \in Ops, Moves(op)
        PROVE  JournalTellsEffects' /\ EffectAtMostOnce'
    <2>1. EffectAtMostOnce'
      BY <1>3 DEF EffectAtMostOnce
    <2>2. ASSUME NEW q \in Ops
          PROVE  /\ life'[q] \in {"completed", "reconciled"} => effects[q] # {}
                 /\ life'[q] \in {"absent", "reserved", "retry_ready", "failed"} => effects[q] = {}
      BY <1>3 DEF Moves, Move, JournalTellsEffects
    <2>3. JournalTellsEffects'
      BY <1>3, <2>2 DEF JournalTellsEffects
    <2> QED BY <2>1, <2>3
  <1> QED BY <1>1, <1>2, <1>3, Steps

\* What may not be retried has no start key before its only start.
LEMMA AttemptStep ==
    ASSUME NoReturn, TypeOK, Passing, Live, AttemptedOnce, FirstAttempt, [Next]_vars
    PROVE  AttemptedOnce' /\ FirstAttempt'
  <1>1. CASE SameStarts /\ UNCHANGED life
    BY <1>1 DEF SameStarts, AttemptedOnce, FirstAttempt
  <1>2. ASSUME NEW c \in Callers, Effect(c) PROVE AttemptedOnce' /\ FirstAttempt'
    BY <1>1, <1>2, EffectWrites, SameKeys DEF SameStarts, journal
  <1>3. CASE UNCHANGED <<journal, effects>>
    BY <1>1, <1>3, SameKeys DEF SameStarts, journal
  <1>4. ASSUME NEW op \in Ops, Moves(op), SameStarts PROVE AttemptedOnce' /\ FirstAttempt'
    <2>1. AttemptedOnce'
      BY <1>4 DEF SameStarts, AttemptedOnce
    <2>2. ASSUME NEW q \in Ops \ Retryable, life'[q] \in {"absent", "reserved", "retry_ready"}
          PROVE  life[q] \in {"absent", "reserved", "retry_ready"}
      BY <1>4, <2>2 DEF Moves, Move
    <2>3. FirstAttempt'
      BY <1>4, <2>2 DEF FirstAttempt, SameStarts
    <2> QED BY <2>1, <2>3
  <1>5. ASSUME NEW op \in Ops, Moves(op), NEW d \in Callers, About[d] = op,
               AppendEvent(op, <<"start", d>>, StartsFrom, "running")
        PROVE  AttemptedOnce' /\ FirstAttempt'
    <2>1. /\ life[op] \in StartsFrom /\ life'[op] = "running"
          /\ \A q \in Ops : q # op => life'[q] = life[q]
      BY <1>5, AppendWrites
    <2>2. \A q \in Ops, c \in Callers :
             Used(q, <<"start", c>>)' <=> (Used(q, <<"start", c>>) \/ (q = op /\ c = d))
      BY <1>5, StartKeys
    <2>3. op \notin Retryable => \A c \in Callers : ~Used(op, <<"start", c>>)
      BY <2>1 DEF FirstAttempt, StartsFrom
    <2>4. AttemptedOnce'
      BY <2>2, <2>3 DEF AttemptedOnce
    <2>5. FirstAttempt'
      BY <2>1, <2>2 DEF FirstAttempt
    <2> QED BY <2>4, <2>5
  <1> QED BY <1>2, <1>3, <1>4, <1>5, Steps DEF Moves, FirstStart

\* A safe pass leaves no operation behind that an effect could come from.
LEMMA PassStep ==
    ASSUME NoReturn, TypeOK, Passing, Live, PassTells, [Next]_vars
    PROVE  PassTells'
  <1> USE DEF Live
  <1>1. pass.safe => mode = "recovering"
    BY DEF Passing, Idle
  <1>2. CASE UNCHANGED <<journal, pass>>
    BY <1>2 DEF PassTells, journal
  <1>3. CASE mode = "up" /\ UNCHANGED pass
    BY <1>1, <1>3 DEF PassTells
  <1>4. ASSUME NEW op \in Ops, RecoverOp(op) PROVE PassTells'
    <2>1. op \in pass.todo /\ \A q \in Ops : q # op => life'[q] = life[q]
      <3>1. op \in pass.todo
        BY <1>4 DEF RecoverOp, RecoverRunning, RecoverReserved, RecoverUnknown, RecoverSettled
      <3> QED BY <1>4, <3>1, RecoveryLive
    <2>2. CASE UNCHANGED pass
      BY <2>1, <2>2 DEF PassTells
    <2>3. CASE pass' = Idle
      BY <2>3 DEF PassTells, Idle
    <2>4. ASSUME NEW lifecycle, Examined(op, lifecycle),
                 lifecycle \notin {"unknown", "running", "reserved", "needs_attention"}
                    => life'[op] \in Settled
          PROVE  PassTells'
      BY <2>1, <2>4, ExaminedWrites DEF PassTells
    <2>5. CASE RecoverRunning(op)
      BY <2>2, <2>4, <2>5 DEF RecoverRunning
    <2>6. CASE RecoverReserved(op)
      <3>1. CASE UNCHANGED pass
        BY <2>2, <3>1
      <3>2. CASE /\ AppendEvent(op, <<"reserved-retry", pass.key>>, {"reserved"}, "retry_ready")
                 /\ Examined(op, "retry_ready")
        <4>1. life'[op] = "retry_ready"
          BY <3>2, AppendWrites
        <4> QED BY <2>4, <3>2, <4>1 DEF Settled
      <3> QED BY <2>6, <3>1, <3>2 DEF RecoverReserved
    <2>7. ASSUME NEW observation, RecoverUnknown(op, observation) PROVE PassTells'
      <3> DEFINE to == Outcome(op, observation)
      <3>1. CASE AppendEvent(op, <<"reconcile", pass.key>>, {"unknown"}, to) /\ Examined(op, to)
        <4>1. life'[op] = to
          BY <3>1, AppendWrites
        <4>2. to \in {"reconciled", "retry_ready", "needs_attention"}
          BY DEF Outcome
        <4> HIDE DEF to
        <4> QED BY <2>4, <3>1, <4>1, <4>2 DEF Settled
      <3>2. CASE Examined(op, "unknown")
        BY <2>4, <3>2
      <3>3. CASE pass' = Idle
        BY <2>3, <3>3
      <3> QED BY <2>7, <3>1, <3>2, <3>3 DEF RecoverUnknown
    <2>8. CASE RecoverSettled(op)
      <3>1. Examined(op, life[op]) /\ UNCHANGED journal
        BY <2>8 DEF RecoverSettled
      <3>2. life[op] = "retry_ready" \/ Terminal(op)
        BY <2>8 DEF RecoverSettled
      <3>3. life[op] # "needs_attention" => life'[op] \in Settled
        BY <3>1, <3>2 DEF Terminal, Settled, journal
      <3> QED BY <2>4, <3>1, <3>3
    <2> QED BY <1>4, <2>5, <2>6, <2>7, <2>8 DEF RecoverOp
  <1>5. ASSUME NEW k \in RecoveryKeys, NEW sound \in BOOLEAN, BeginRecovery(k, sound) PROVE PassTells'
    BY <1>5 DEF BeginRecovery, PassTells, Settled, journal
  <1>6. CASE Restart \/ FinishRecovery
    BY <1>6 DEF Restart, FinishRecovery, PassTells, Idle
  <1>7. ASSUME NEW c \in Callers,
               ReserveRead(c) \/ Effect(c) \/ CallerDies(c) \/ CallAgain(c)
        PROVE  PassTells'
    BY <1>2, <1>7 DEF ReserveRead, Effect, CallerDies, CallAgain, recovery
  <1>8. ASSUME NEW c \in Callers, ReserveInsert(c) \/ Start(c) PROVE PassTells'
    <2>1. UNCHANGED pass /\ pc[c] \in {"scoped", "told"}
      BY <1>8 DEF ReserveInsert, Start, recovery
    <2>2. mode = "up"
      BY <2>1 DEF Quiet, TypeOK
    <2> QED BY <1>3, <2>1, <2>2
  <1>9. ASSUME NEW c \in Callers, NEW to \in {"completed", "failed", "unknown"}, Report(c, to)
        PROVE  PassTells'
    <2>1. UNCHANGED pass /\ pc[c] \in {"started", "applied"}
      BY <1>9 DEF Report, recovery
    <2>2. mode = "up"
      BY <2>1 DEF RunnerAlone
    <2> QED BY <1>3, <2>1, <2>2
  <1>10. ASSUME NEW op \in Ops, NEW observation, ReconcilePublication(op, observation) PROVE PassTells'
    BY <1>3, <1>10 DEF ReconcilePublication, recovery
  <1>11. ASSUME NEW run \in BOOLEAN, ChangeMission(run) PROVE PassTells'
    BY <1>2, <1>11 DEF ChangeMission, recovery
  <1>12. CASE UNCHANGED vars
    BY <1>2, <1>12 DEF vars, journal, recovery
  <1> QED BY <1>4, <1>5, <1>6, <1>7, <1>8, <1>9, <1>10, <1>11, <1>12 DEF Next

-----------------------------------------------------------------------------
\* The invariant holds in every reachable state.
THEOREM Inductive == ASSUME NoReturn PROVE Spec => []IInv
  <1>1. ASSUME IInv, [Next]_vars PROVE IInv'
    BY <1>1, TypeStep, LiveStep, DataStep, AttemptStep, PassStep, NoReturn DEF IInv, Live
  <1> QED BY <1>1, InitInv, PTL DEF Spec

\* Types hold whether or not callers come back.
THEOREM TypeCorrect == Spec => []TypeOK
  <1>1. Init => TypeOK /\ Passing
    BY InitInv DEF IInv
  <1>2. TypeOK /\ Passing /\ [Next]_vars => TypeOK' /\ Passing'
    BY TypeStep
  <1> QED BY <1>1, <1>2, PTL DEF Spec

\* No effect happens twice.
THEOREM AtMostOnce == ASSUME NoReturn PROVE Spec => []EffectAtMostOnce
  <1>1. IInv => EffectAtMostOnce
    BY DEF IInv
  <1> QED BY <1>1, Inductive, NoReturn, PTL

\* The journal does not claim an effect that did not happen, nor deny one that did.
THEOREM Truthful == ASSUME NoReturn PROVE Spec => []JournalTellsEffects
  <1>1. IInv => JournalTellsEffects
    BY DEF IInv
  <1> QED BY <1>1, Inductive, NoReturn, PTL

\* Whoever may touch the outside world is alone with a running operation.
THEOREM Alone == ASSUME NoReturn PROVE Spec => []RunnerAlone
  <1>1. IInv => RunnerAlone
    BY DEF IInv
  <1> QED BY <1>1, Inductive, NoReturn, PTL

\* A verify-only operation is attempted once.
THEOREM OneAttempt == ASSUME NoReturn PROVE Spec => []AttemptedOnce
  <1>1. IInv => AttemptedOnce
    BY DEF IInv
  <1> QED BY <1>1, Inductive, NoReturn, PTL

\* The mission goes on after a restart only with every operation decided.
THEOREM ResumesDecided == ASSUME NoReturn PROVE Spec => ResumeOnlyDecided
  <1> DEFINE Good == mode = "recovering" /\ mode' = "up" => \A op \in Ops : life[op] \in Settled
  <1>1. ASSUME IInv, [Next]_vars, mode = "recovering", mode' = "up"
        PROVE  \A op \in Ops : life[op] \in Settled
    <2>1. FinishRecovery
      <3>1. ASSUME NEW op \in Ops, RecoverOp(op) PROVE FALSE
        BY <1>1, <3>1 DEF RecoverOp, RecoverRunning, RecoverReserved, RecoverUnknown, RecoverSettled
      <3> QED BY <1>1, <3>1 DEF Next, vars, ChangeMission, ReserveRead, ReserveInsert, Start, Effect,
             Report, CallerDies, CallAgain, ReconcilePublication, Restart, BeginRecovery, recovery
    <2>2. pass.safe /\ pass.todo = {}
      BY <1>1, <2>1 DEF FinishRecovery
    <2> QED BY <1>1, <2>2 DEF IInv, PassTells
  <1>2. IInv /\ [Next]_vars => Good
    BY <1>1
  <1> HIDE DEF Good
  <1>3. Spec => [][Good]_vars
    BY <1>2, Inductive, NoReturn, PTL DEF Spec
  <1> QED BY <1>3 DEF Good, ResumeOnlyDecided

\* A terminal operation stays as it is.
THEOREM Decided == ASSUME NoReturn PROVE Spec => DecidedForGood
  <1> DEFINE Good == \A op \in Ops : Terminal(op) => life'[op] = life[op]
  <1>1. ASSUME IInv, [Next]_vars, NEW op \in Ops, Terminal(op) PROVE life'[op] = life[op]
    <2>1. ASSUME NEW c \in Callers, Effect(c) PROVE life'[op] = life[op]
      BY <2>1 DEF Effect, journal
    <2>2. ASSUME NEW q \in Ops, Moves(q) PROVE life'[op] = life[op]
      BY <1>1, <2>2 DEF Moves, Move, Terminal
    <2> QED BY <1>1, <2>1, <2>2, Steps, NoReturn DEF IInv, Live, journal
  <1>2. IInv /\ [Next]_vars => Good
    BY <1>1
  <1> HIDE DEF Good
  <1>3. Spec => [][Good]_vars
    BY <1>2, Inductive, NoReturn, PTL DEF Spec
  <1> QED BY <1>3 DEF Good, DecidedForGood

\* An operation is reserved under the scope the mission has at that moment.
THEOREM InScope == ASSUME NoReturn PROVE Spec => ReservedInScope
  <1> DEFINE Good == \A op \in Ops : life[op] = "absent" /\ life'[op] # "absent" =>
                       running /\ bound'[op] = version
  <1>1. ASSUME IInv, [Next]_vars, NEW op \in Ops, life[op] = "absent", life'[op] # "absent"
        PROVE  running /\ bound'[op] = version
    <2>1. ASSUME NEW c \in Callers, Effect(c) PROVE FALSE
      BY <1>1, <2>1 DEF Effect, journal
    <2>2. ASSUME NEW q \in Ops, Moves(q) PROVE running /\ bound'[op] = version
      BY <1>1, <2>2 DEF Moves, Move
    <2> QED BY <1>1, <2>1, <2>2, Steps, NoReturn DEF IInv, Live, journal
  <1>2. IInv /\ [Next]_vars => Good
    BY <1>1
  <1> HIDE DEF Good
  <1>3. Spec => [][Good]_vars
    BY <1>2, Inductive, NoReturn, PTL DEF Spec
  <1> QED BY <1>3 DEF Good, ReservedInScope

-----------------------------------------------------------------------------
\* A step of one operation's lifecycle is a decision or none at all.
LEMMA MoveRefines ==
    ASSUME TypeOK, UNCHANGED effects, NEW op \in Ops, Moves(op)
    PROVE  [Once!Next]_Once!vars
  <1>1. Happened' = Happened
    BY DEF Happened
  <1>2. \A q \in Ops : q # op => Verdict'[q] = Verdict[q]
    BY DEF Moves, Verdict
  <1>3. Verdict = [q \in Ops |-> Verdict[q]] /\ Verdict' = [q \in Ops |-> Verdict'[q]]
    BY DEF Verdict
  <1>4. CASE Verdict'[op] = Verdict[op]
    <2>1. Verdict' = Verdict
      <3> HIDE DEF Verdict
      <3> QED BY <1>2, <1>3, <1>4
    <2> QED BY <1>1, <2>1 DEF Once!vars
  <1>5. CASE Verdict'[op] # Verdict[op]
    <2> PICK said : said = Verdict'[op]
      OBVIOUS
    <2>1. /\ Verdict[op] = "open" /\ said \in {"done", "failed", "blocked"}
          /\ said = "done" => op \in Happened
          /\ said = "failed" => op \notin Happened
      BY <1>5 DEF Moves, Move, Verdict, Happened
    <2>2. Verdict' = [Verdict EXCEPT ![op] = said]
      <3> HIDE DEF Verdict
      <3> QED BY <1>2, <1>3
    <2>3. Once!Decide(op, said)
      BY <1>1, <2>1, <2>2 DEF Once!Decide
    <2>4. Once!Next
      BY <2>1, <2>3, Zenon DEF Once!Next
    <2> QED BY <2>4
  <1> QED BY <1>4, <1>5

\* The effect is the abstract one.
LEMMA EffectRefines ==
    ASSUME TypeOK, Live, NEW c \in Callers, Effect(c)
    PROVE  Once!Next
  <1> PICK op \in Ops : op = About[c]
    OBVIOUS
  <1>1. op \notin Happened /\ Happened' = Happened \cup {op}
    BY EffectWrites DEF Happened
  <1>2. Verdict' = Verdict /\ Verdict[op] = "open"
    BY EffectWrites DEF Verdict, journal
  <1>3. Once!Happen(op)
    BY <1>1, <1>2 DEF Once!Happen
  <1> QED BY <1>3, Zenon DEF Once!Next

\* The journal implements effects that happen at most once and a verdict on
\* each that is true and stays.
THEOREM Refinement == ASSUME NoReturn PROVE Spec => RefinesEffectOnce
  <1>1. Init => Once!Init
    BY DEF Init, Once!Init, Happened, Verdict
  <1>2. ASSUME IInv, [Next]_vars PROVE [Once!Next]_Once!vars
    <2>1. CASE UNCHANGED <<journal, effects>>
      BY <2>1 DEF journal, Happened, Verdict, Once!vars
    <2> QED BY <1>2, <2>1, Steps, MoveRefines, EffectRefines, NoReturn DEF IInv, Live
  <1> QED BY <1>1, <1>2, Inductive, NoReturn, PTL DEF Spec, RefinesEffectOnce, Once!Spec

------------------------------------------------------------------------------
(* A recovery pass and the mission that moves under it                       *)
(* (LocalRecoveryService.reconstruct_mission).                               *)

MissionRows == [phase : {"approved", "development", "completed"}, disposition : {"RUNNING", "PAUSED"},
                version : Nat, rev : Int, epoch : Nat, checkpoint : Nat]
Lives == {"absent", "reserved", "running", "completed", "unknown", "retry_ready", "reconciled",
          "needs_attention"}
Passes == [key : RKeys, at : {"checkpoint", "git", "operation", "decide", "record"},
           seen : MissionRows, sound : BOOLEAN,
           heard : {"nothing", Present, Absent, Conflict, Indeterminate}, safe : BOOLEAN]
Records == [disposition : {"none"}] \cup
           [disposition : {"NEEDS_ATTENTION", "COMPLETED", "PAUSED", "RESUME_SAFE"},
            snapshot : MissionRows, at : MissionRows, held : [class : Classes, life : Lives]]

RecoveryTyped ==
    /\ row \in MissionRows
    /\ ledger \in [epochs : Nat, checkpoints : Nat]
    /\ job \in [class : Classes, life : Lives, at : Nat, base : Int, target : Int, did : BOOLEAN]
    /\ scan = NoPass \/ scan \in Passes
    /\ records \in [RKeys -> Records]

\* What the operation did is bounded by what exists, and it can do it only as the next.
Unmade == ~job.did /\ job.life \in {"reserved", "running"} /\ row.version = job.at
JobMade ==
    /\ row.epoch = ledger.epochs /\ job.at <= row.version
    /\ job.life \in {"absent", "reserved"} => ~job.did
    /\ job.class = "checkpoint" =>
          /\ job.did => job.target <= ledger.checkpoints
          /\ Unmade => job.target = ledger.checkpoints + 1
    /\ job.class = "epoch_transition" =>
          /\ job.life # "absent" => job.target = job.base + 1
          /\ job.did => job.target <= ledger.epochs
          /\ Unmade => job.target = ledger.epochs + 1
    /\ job.class \in {"epoch_transition", "checkpoint"} /\ job.life = "retry_ready" => ~job.did

\* A pass knows the mission of its version; what it heard of the operation still
\* holds, and it goes to its record with a decided operation.
PassKnows ==
    scan # NoPass =>
        /\ scan.seen.version <= row.version
        /\ scan.seen.version = row.version => scan.seen = row
        /\ scan.at = "decide" =>
              /\ job.life = "unknown"
              /\ job.class \in {"epoch_transition", "checkpoint"} /\ scan.heard = Absent => ~job.did
        /\ scan.at = "record" /\ scan.safe =>
              job.life \notin {"unknown", "running", "needs_attention"}

ResumesExactly ==
    \A k \in RKeys :
        records[k].disposition = "RESUME_SAFE" =>
            /\ records[k].snapshot = records[k].at
            /\ records[k].at.disposition = "RUNNING"
            /\ records[k].held.life \notin {"unknown", "running", "needs_attention"}

RecoveryInv == RecoveryTyped /\ JobMade /\ PassKnows /\ ResumesExactly

LEMMA RecoveryInit == RInit => RecoveryInv
<1> SUFFICES ASSUME RInit PROVE RecoveryInv
  OBVIOUS
<1> USE DEF RInit
<1>1. row \in MissionRows /\ row.epoch = 1 /\ row.version = 1
  BY DEF MissionRows
<1>2. PICK c \in Classes : job = Unreserved(c)
  OBVIOUS
<1>3. /\ job \in [class : Classes, life : Lives, at : Nat, base : Int, target : Int, did : BOOLEAN]
      /\ job.life = "absent" /\ job.at = 0 /\ ~job.did
  BY <1>2 DEF Unreserved, Lives
<1>4. records \in [RKeys -> Records] /\ \A k \in RKeys : records[k].disposition = "none"
  BY DEF Records
<1> QED
  BY <1>1, <1>3, <1>4
     DEF RecoveryInv, RecoveryTyped, JobMade, Unmade, PassKnows, ResumesExactly

\* The mission is as it was, or one version on, with the epochs and checkpoints
\* it had and perhaps more.
MissionMoved == \/ UNCHANGED <<row, ledger>>
         \/ /\ row'.version = row.version + 1 /\ row' \in MissionRows
            /\ ledger' \in [epochs : Nat, checkpoints : Nat] /\ row'.epoch = ledger'.epochs
            /\ ledger.epochs <= ledger'.epochs /\ ledger.checkpoints <= ledger'.checkpoints

LEMMA MovesKeep ==
    ASSUME RecoveryInv, MissionMoved, UNCHANGED <<job, scan, records>>
    PROVE  RecoveryInv'
<1>0. /\ row.version \in Nat /\ ledger.epochs \in Nat /\ ledger.checkpoints \in Nat
      /\ job.at \in Nat /\ job.target \in Int
  BY DEF RecoveryInv, RecoveryTyped, MissionRows
<1>1. RecoveryTyped'
  BY DEF RecoveryInv, RecoveryTyped, MissionMoved
<1>2. JobMade'
  BY <1>0 DEF RecoveryInv, JobMade, Unmade, MissionMoved
<1>3. PassKnows'
  <2>1. scan # NoPass => scan.seen.version \in Nat
    BY DEF RecoveryInv, RecoveryTyped, Passes, MissionRows
  <2> QED
    BY <1>0, <2>1 DEF RecoveryInv, PassKnows, MissionMoved
<1> QED
  BY <1>1, <1>2, <1>3 DEF RecoveryInv, ResumesExactly

\* The statements that move the mission: one version on.
LEMMA AdvanceTyped ==
    ASSUME RecoveryInv, NEW new \in MissionRows, Advance(new)
    PROVE  /\ row' \in MissionRows /\ row'.version = row.version + 1 /\ row'.epoch = new.epoch
  BY DEF Advance, MissionRows, RecoveryInv, RecoveryTyped

LEMMA EpochIsNext ==
    ASSUME RecoveryInv, CreateEpoch
    PROVE  MissionMoved /\ ledger'.epochs = ledger.epochs + 1
<1>1. row \in MissionRows /\ ledger \in [epochs : Nat, checkpoints : Nat]
  BY DEF RecoveryInv, RecoveryTyped
<1> DEFINE new == [row EXCEPT !.epoch = ledger.epochs + 1]
<1>2. new \in MissionRows /\ new.epoch = ledger.epochs + 1
  BY <1>1 DEF MissionRows
<1>3. Advance(new) /\ ledger' = [ledger EXCEPT !.epochs = @ + 1]
  BY DEF CreateEpoch
<1> HIDE DEF new
<1>4. row' \in MissionRows /\ row'.version = row.version + 1 /\ row'.epoch = ledger.epochs + 1
  BY <1>2, <1>3, AdvanceTyped
<1>5. /\ ledger' \in [epochs : Nat, checkpoints : Nat] /\ ledger'.epochs = ledger.epochs + 1
      /\ ledger'.checkpoints = ledger.checkpoints /\ ledger.epochs \in Nat /\ ledger.checkpoints \in Nat
  BY <1>1, <1>3
<1> QED
  BY <1>4, <1>5 DEF MissionMoved

LEMMA CheckpointIsNext ==
    ASSUME RecoveryInv, RecordCheckpoint
    PROVE  MissionMoved /\ ledger'.checkpoints = ledger.checkpoints + 1
<1>1. /\ row \in MissionRows /\ ledger \in [epochs : Nat, checkpoints : Nat]
      /\ row.epoch = ledger.epochs
  BY DEF RecoveryInv, RecoveryTyped, JobMade
<1> DEFINE new == [row EXCEPT !.checkpoint = ledger.checkpoints + 1]
<1>2. new \in MissionRows /\ new.epoch = ledger.epochs
  BY <1>1 DEF MissionRows
<1>3. Advance(new) /\ ledger' = [ledger EXCEPT !.checkpoints = @ + 1]
  BY DEF RecordCheckpoint
<1> HIDE DEF new
<1>4. row' \in MissionRows /\ row'.version = row.version + 1 /\ row'.epoch = ledger.epochs
  BY <1>2, <1>3, AdvanceTyped
<1>5. /\ ledger' \in [epochs : Nat, checkpoints : Nat] /\ ledger'.epochs = ledger.epochs
      /\ ledger'.checkpoints = ledger.checkpoints + 1
      /\ ledger.epochs \in Nat /\ ledger.checkpoints \in Nat
  BY <1>1, <1>3
<1> QED
  BY <1>4, <1>5 DEF MissionMoved

LEMMA RestMoves ==
    ASSUME RecoveryInv, NEW new \in MissionRows, Advance(new), new.epoch = row.epoch, UNCHANGED ledger
    PROVE  MissionMoved
<1>1. row'.epoch = ledger.epochs /\ ledger \in [epochs : Nat, checkpoints : Nat]
  BY AdvanceTyped DEF RecoveryInv, RecoveryTyped, JobMade
<1> QED
  BY <1>1, AdvanceTyped DEF MissionMoved

LEMMA RevisionMoves ==
    ASSUME RecoveryInv, NEW r \in Int, SetRevision(r)
    PROVE  MissionMoved
<1> DEFINE new == [row EXCEPT !.rev = r]
<1>1. new \in MissionRows /\ new.epoch = row.epoch
  BY DEF MissionRows, RecoveryInv, RecoveryTyped
<1>2. Advance(new) /\ UNCHANGED ledger
  BY DEF SetRevision
<1> HIDE DEF new
<1> QED
  BY <1>1, <1>2, RestMoves

LEMMA MissionMoves ==
    ASSUME RecoveryInv, Transition \/ SyncFence \/ OthersMove \/ RepoMoves
    PROVE  RecoveryInv'
<1>1. UNCHANGED <<job, scan, records>>
  BY DEF Transition, SyncFence, OthersMove, RepoMoves
<1>2. CASE Transition
  <2>1. row \in MissionRows
    BY DEF RecoveryInv, RecoveryTyped
  <2>2. PICK new : /\ Advance(new) /\ UNCHANGED ledger
                   /\ \/ \E d \in {"RUNNING", "PAUSED"} : new = [row EXCEPT !.disposition = d]
                      \/ \E p \in {"development", "completed"} : new = [row EXCEPT !.phase = p]
    BY <1>2, <2>1 DEF Transition
  <2>3. new \in MissionRows /\ new.epoch = row.epoch
    BY <2>1, <2>2 DEF MissionRows
  <2>4. MissionMoved
    BY <2>2, <2>3, RestMoves
  <2> QED
    BY <1>1, <2>4, MovesKeep
<1>3. CASE SyncFence \/ RepoMoves
  BY <1>1, <1>3, MovesKeep DEF SyncFence, RepoMoves, MissionMoved
<1>4. CASE OthersMove
  BY <1>1, <1>4, MovesKeep, EpochIsNext, CheckpointIsNext, RevisionMoves DEF OthersMove
<1> QED
  BY <1>2, <1>3, <1>4

LEMMA ReserveKeeps == ASSUME RecoveryInv, Reserve PROVE RecoveryInv'
<1> DEFINE base == CASE job.class = "revision_transition" -> row.rev
                     [] job.class = "epoch_transition" -> row.epoch
                     [] OTHER -> 0
           target == CASE job.class = "revision_transition" -> 3 - row.rev
                       [] job.class = "epoch_transition" -> ledger.epochs + 1
                       [] job.class = "checkpoint" -> ledger.checkpoints + 1
                       [] OTHER -> 0
<1>1. job' = [job EXCEPT !.life = "reserved", !.at = row.version, !.base = base, !.target = target]
  BY DEF Reserve
<1>2. base \in Int /\ target \in Int
  BY DEF RecoveryInv, RecoveryTyped, MissionRows
<1>3. /\ job.class = "epoch_transition" => base = row.epoch /\ target = ledger.epochs + 1
      /\ job.class = "checkpoint" => target = ledger.checkpoints + 1
  OBVIOUS
<1> HIDE DEF base, target
<1>4. UNCHANGED <<row, ledger, scan, records>> /\ scan = NoPass /\ ~job.did
  BY DEF Reserve, NoScan, RecoveryInv, JobMade
<1>5. /\ job'.life = "reserved" /\ job'.at = row.version /\ job'.base = base /\ job'.target = target
      /\ job'.class = job.class /\ job'.did = job.did
      /\ job' \in [class : Classes, life : Lives, at : Nat, base : Int, target : Int, did : BOOLEAN]
  BY <1>1, <1>2 DEF RecoveryInv, RecoveryTyped, MissionRows, Lives
<1>6. row.version \in Nat /\ ledger.epochs \in Nat /\ ledger.checkpoints \in Nat
  BY DEF RecoveryInv, RecoveryTyped, MissionRows
<1>7. RecoveryTyped'
  BY <1>4, <1>5 DEF RecoveryInv, RecoveryTyped
<1>8. JobMade'
  BY <1>3, <1>4, <1>5, <1>6 DEF RecoveryInv, JobMade, Unmade
<1> QED
  BY <1>4, <1>7, <1>8 DEF RecoveryInv, PassKnows, ResumesExactly

LEMMA StartsOrReports == ASSUME RecoveryInv, StartJob \/ ReportJob PROVE RecoveryInv'
<1>1. PICK l \in {"running", "completed"} :
          /\ job' = [job EXCEPT !.life = l]
          /\ job.life = IF l = "running" THEN "reserved" ELSE "running"
  BY DEF StartJob, ReportJob
<1>2. UNCHANGED <<row, ledger, scan, records>> /\ scan = NoPass
  BY DEF StartJob, ReportJob, NoScan
<1>3. RecoveryTyped'
  BY <1>1, <1>2 DEF RecoveryInv, RecoveryTyped, Lives
<1>4. /\ job'.life = l /\ job'.class = job.class /\ job'.did = job.did /\ job'.at = job.at
      /\ job'.base = job.base /\ job'.target = job.target
  BY <1>1 DEF RecoveryInv, RecoveryTyped
<1>5. JobMade'
  BY <1>1, <1>2, <1>4 DEF RecoveryInv, JobMade, Unmade
<1> QED
  BY <1>2, <1>3, <1>5 DEF RecoveryInv, PassKnows, ResumesExactly

\* The effect is the next epoch or checkpoint, for the version that reserved it.
LEMMA PerformKeeps == ASSUME RecoveryInv, Perform PROVE RecoveryInv'
<1>1. /\ job' = [job EXCEPT !.did = TRUE] /\ job.life = "running" /\ ~job.did
      /\ UNCHANGED <<scan, records>> /\ scan = NoPass
  BY DEF Perform, NoScan
<1>2. /\ job'.life = job.life /\ job'.class = job.class /\ job'.did = TRUE /\ job'.at = job.at
      /\ job'.base = job.base /\ job'.target = job.target
      /\ job' \in [class : Classes, life : Lives, at : Nat, base : Int, target : Int, did : BOOLEAN]
  BY <1>1 DEF RecoveryInv, RecoveryTyped
<1>3. /\ MissionMoved
      /\ job.class = "epoch_transition" => Unmade /\ ledger'.epochs = ledger.epochs + 1
      /\ job.class = "checkpoint" => Unmade /\ ledger'.checkpoints = ledger.checkpoints + 1
  <2>1. CASE job.class = "revision_transition"
    <3>1. SetRevision(job.target)
      BY <2>1 DEF Perform
    <3>2. job.target \in Int
      BY DEF RecoveryInv, RecoveryTyped
    <3> QED
      BY <2>1, <3>1, <3>2, RevisionMoves
  <2>2. CASE job.class = "epoch_transition"
    <3>1. CreateEpoch /\ row.version = job.at
      BY <2>2 DEF Perform
    <3> QED
      BY <1>1, <2>2, <3>1, EpochIsNext DEF Unmade
  <2>3. CASE job.class = "checkpoint"
    <3>1. RecordCheckpoint /\ row.version = job.at
      BY <2>3 DEF Perform
    <3> QED
      BY <1>1, <2>3, <3>1, CheckpointIsNext DEF Unmade
  <2>4. CASE job.class \notin {"revision_transition", "epoch_transition", "checkpoint"}
    BY <2>4 DEF Perform, MissionMoved
  <2> QED
    BY <2>1, <2>2, <2>3, <2>4
<1>4. /\ row.version \in Nat /\ ledger.epochs \in Nat /\ ledger.checkpoints \in Nat
      /\ job.at \in Nat /\ job.target \in Int
  BY DEF RecoveryInv, RecoveryTyped, MissionRows
<1>5. RecoveryTyped'
  BY <1>1, <1>2, <1>3 DEF RecoveryInv, RecoveryTyped, MissionMoved
<1>6. JobMade'
  BY <1>1, <1>2, <1>3, <1>4 DEF RecoveryInv, JobMade, Unmade, MissionMoved
<1> QED
  BY <1>1, <1>5, <1>6 DEF RecoveryInv, PassKnows, ResumesExactly

LEMMA PassBegins == ASSUME RecoveryInv, NEW k \in RKeys, BeginPass(k) PROVE RecoveryInv'
<1>1. scan' = [key |-> k, at |-> "checkpoint", seen |-> row, sound |-> FenceSound /\ repo.evidence,
               heard |-> "nothing", safe |-> TRUE]
  BY DEF BeginPass
<1>2. scan' \in Passes /\ scan'.at = "checkpoint" /\ scan'.seen = row
  BY <1>1 DEF Passes, RecoveryInv, RecoveryTyped
<1>3. UNCHANGED <<row, ledger, job, records>>
  BY DEF BeginPass
<1>4. RecoveryTyped' /\ JobMade' /\ ResumesExactly'
  BY <1>2, <1>3 DEF RecoveryInv, RecoveryTyped, JobMade, Unmade, ResumesExactly
<1>5. PassKnows'
  BY <1>2, <1>3 DEF PassKnows, RecoveryInv, RecoveryTyped, MissionRows
<1> QED
  BY <1>4, <1>5 DEF RecoveryInv

LEMMA PassVerifies == ASSUME RecoveryInv, VerifyPointer \/ VerifyGit PROVE RecoveryInv'
<1>1. scan.at \in {"checkpoint", "git"}
  BY DEF VerifyPointer, VerifyGit
<1>2. scan \in Passes
  BY <1>1 DEF RecoveryInv, RecoveryTyped, NoPass
<1>3. scan' \in Passes /\ scan'.at \in {"git", "operation"} /\ scan'.seen = scan.seen
  BY <1>2 DEF VerifyPointer, VerifyGit, Passes
<1>4. UNCHANGED <<row, ledger, job, records>>
  BY DEF VerifyPointer, VerifyGit
<1>5. RecoveryTyped' /\ JobMade' /\ ResumesExactly'
  BY <1>3, <1>4 DEF RecoveryInv, RecoveryTyped, JobMade, Unmade, ResumesExactly
<1>6. scan # NoPass
  BY <1>1 DEF NoPass
<1>7. PassKnows'
  BY <1>3, <1>4, <1>6 DEF PassKnows, RecoveryInv
<1> QED
  BY <1>5, <1>7 DEF RecoveryInv

\* Sorted, an operation is ready only if it never ran.
LEMMA SortKeeps == ASSUME RecoveryInv, Sort PROVE RecoveryInv'
<1>1. scan.at = "operation" /\ UNCHANGED <<row, ledger, scan, records>>
  BY DEF Sort
<1>2. PICK l \in {"retry_ready", "unknown"} :
          /\ job' = [job EXCEPT !.life = l]
          /\ l = "retry_ready" => job.life = "reserved"
          /\ job.life \in {"reserved", "running"}
  BY DEF Sort, Becomes
<1>3. /\ job'.life = l /\ job'.class = job.class /\ job'.did = job.did /\ job'.at = job.at
      /\ job'.base = job.base /\ job'.target = job.target
      /\ job' \in [class : Classes, life : Lives, at : Nat, base : Int, target : Int, did : BOOLEAN]
  BY <1>2 DEF RecoveryInv, RecoveryTyped, Lives
<1>4. RecoveryTyped'
  BY <1>1, <1>3 DEF RecoveryInv, RecoveryTyped
<1>5. JobMade'
  BY <1>1, <1>2, <1>3 DEF RecoveryInv, JobMade, Unmade
<1>6. PassKnows'
  BY <1>1 DEF RecoveryInv, PassKnows
<1> QED
  BY <1>1, <1>4, <1>5, <1>6 DEF RecoveryInv, ResumesExactly

\* An observer that finds an epoch or a checkpoint absent is right: it does not exist.
LEMMA AbsentIsUndone ==
    ASSUME RecoveryInv, job.life = "unknown", Observation = Absent,
           job.class \in {"epoch_transition", "checkpoint"}
    PROVE  ~job.did
<1>1. /\ ledger.epochs \in Nat /\ ledger.checkpoints \in Nat /\ job.target \in Int
      /\ job.base \in Int /\ row.epoch = ledger.epochs
  BY DEF RecoveryInv, RecoveryTyped, JobMade
<1>2. CASE job.class = "checkpoint"
  <2>1. ledger.checkpoints < job.target
    BY <1>2 DEF Observation, ObserveCheckpoint, Absent, Present, Conflict
  <2> QED
    BY <1>1, <1>2, <2>1 DEF RecoveryInv, JobMade
<1>3. CASE job.class = "epoch_transition"
  <2>1. ledger.epochs < job.target \/ row.epoch = job.base
    BY <1>3 DEF Observation, ObserveEpoch, Absent, Present, Conflict
  <2> QED
    BY <1>1, <1>3, <2>1 DEF RecoveryInv, JobMade
<1> QED
  BY <1>2, <1>3

LEMMA ObserveKeeps == ASSUME RecoveryInv, Observe PROVE RecoveryInv'
<1> DEFINE heard == IF scan.sound THEN Observation ELSE Indeterminate
<1>1. /\ scan.at = "operation" /\ job.life = "unknown"
      /\ scan' = [scan EXCEPT !.at = "decide", !.heard = heard]
      /\ UNCHANGED <<row, ledger, job, records>>
  BY DEF Observe
<1>2. scan \in Passes /\ scan # NoPass
  BY <1>1 DEF RecoveryInv, RecoveryTyped, NoPass
<1>3. heard \in {Present, Absent, Conflict, Indeterminate}
  BY DEF Observation, ObserveCheckpoint, ObserveRevision, ObserveEpoch, ObserveWorktree,
         ObserveIntegration
<1>4. heard = Absent => Observation = Absent
  BY DEF Absent, Indeterminate
<1> HIDE DEF heard
<1>5. scan' \in Passes /\ scan'.at = "decide" /\ scan'.heard = heard /\ scan'.seen = scan.seen
  BY <1>1, <1>2, <1>3 DEF Passes
<1>6. RecoveryTyped' /\ JobMade' /\ ResumesExactly'
  BY <1>1, <1>5 DEF RecoveryInv, RecoveryTyped, JobMade, Unmade, ResumesExactly
<1>7. PassKnows'
  BY <1>1, <1>2, <1>4, <1>5, AbsentIsUndone DEF PassKnows, RecoveryInv
<1> QED
  BY <1>6, <1>7 DEF RecoveryInv

LEMMA DecideKeeps == ASSUME RecoveryInv, Decide PROVE RecoveryInv'
<1>1. scan.at = "decide" /\ UNCHANGED <<row, ledger, records>>
      /\ scan' = [scan EXCEPT !.at = "operation"]
  BY DEF Decide
<1>2. scan \in Passes /\ scan # NoPass
  BY <1>1 DEF RecoveryInv, RecoveryTyped, NoPass
<1>3. PICK l \in {"reconciled", "retry_ready", "needs_attention"} :
          job' = [job EXCEPT !.life = l] /\ (l = "retry_ready" => scan.heard = Absent)
  BY DEF Decide, Becomes
<1>4. /\ job'.life = l /\ job'.class = job.class /\ job'.did = job.did /\ job'.at = job.at
      /\ job'.base = job.base /\ job'.target = job.target
      /\ job' \in [class : Classes, life : Lives, at : Nat, base : Int, target : Int, did : BOOLEAN]
  BY <1>3 DEF RecoveryInv, RecoveryTyped, Lives
<1>5. scan' \in Passes /\ scan'.at = "operation" /\ scan'.seen = scan.seen
  BY <1>1, <1>2 DEF Passes
<1>6. /\ job.life = "unknown"
      /\ job.class \in {"epoch_transition", "checkpoint"} /\ l = "retry_ready" => ~job.did
  BY <1>1, <1>2, <1>3 DEF RecoveryInv, PassKnows
<1>7. RecoveryTyped'
  BY <1>1, <1>4, <1>5 DEF RecoveryInv, RecoveryTyped
<1>8. JobMade'
  BY <1>1, <1>3, <1>4, <1>6 DEF RecoveryInv, JobMade, Unmade
<1>9. PassKnows'
  BY <1>1, <1>2, <1>5 DEF RecoveryInv, PassKnows
<1> QED
  BY <1>1, <1>7, <1>8, <1>9 DEF RecoveryInv, ResumesExactly

LEMMA EndLoopKeeps == ASSUME RecoveryInv, EndLoop PROVE RecoveryInv'
<1>1. /\ scan.at = "operation" /\ UNCHANGED <<row, ledger, job, records>>
      /\ job.life \notin {"reserved", "running", "unknown"}
      /\ scan' = [scan EXCEPT !.at = "record", !.safe = job.life # "needs_attention"]
  BY DEF EndLoop
<1>2. scan \in Passes /\ scan # NoPass
  BY <1>1 DEF RecoveryInv, RecoveryTyped, NoPass
<1>3. /\ scan' \in Passes /\ scan'.at = "record" /\ scan'.seen = scan.seen
      /\ scan'.safe <=> job.life # "needs_attention"
  BY <1>1, <1>2 DEF Passes
<1>4. RecoveryTyped' /\ JobMade' /\ ResumesExactly'
  BY <1>1, <1>3 DEF RecoveryInv, RecoveryTyped, JobMade, Unmade, ResumesExactly
<1>5. PassKnows'
  BY <1>1, <1>2, <1>3 DEF RecoveryInv, PassKnows
<1> QED
  BY <1>4, <1>5 DEF RecoveryInv

\* What a pass records is of the mission as it is.
LEMMA InsertKeeps == ASSUME RecoveryInv, InsertRecord PROVE RecoveryInv'
<1>1. scan.at = "record" /\ scan' = NoPass /\ UNCHANGED <<row, ledger, job>>
  BY DEF InsertRecord
<1>2. scan \in Passes /\ scan # NoPass
  BY <1>1 DEF RecoveryInv, RecoveryTyped, NoPass
<1>3. RecoveryTyped' /\ ResumesExactly'
  <2>1. CASE ~SameMission
    BY <1>1, <2>1 DEF InsertRecord, RecoveryInv, RecoveryTyped, ResumesExactly
  <2>2. CASE SameMission
    <3>1. /\ records' = [records EXCEPT ![scan.key] = Entry] /\ scan.seen = row
          /\ scan.safe => job.life \notin {"unknown", "running", "needs_attention"}
      BY <1>1, <1>2, <2>2 DEF InsertRecord, SameMission, RecoveryInv, PassKnows
    <3>2. /\ Disposition \in {"NEEDS_ATTENTION", "COMPLETED", "PAUSED", "RESUME_SAFE"}
          /\ Disposition = "RESUME_SAFE" => scan.safe /\ row.disposition # "PAUSED"
      BY <3>1 DEF Disposition
    <3>3. Summary \in [class : Classes, life : Lives] /\ Summary.life = job.life
      BY DEF Summary, RecoveryInv, RecoveryTyped
    <3>4. /\ Entry \in Records /\ Entry.disposition = Disposition /\ Entry.snapshot = row
          /\ Entry.at = row /\ Entry.held = Summary
      BY <3>1, <3>2, <3>3 DEF Entry, Records, RecoveryInv, RecoveryTyped
    <3>5. row.disposition # "PAUSED" => row.disposition = "RUNNING"
      BY DEF RecoveryInv, RecoveryTyped, MissionRows
    <3>6. scan.key \in RKeys
      BY <1>2 DEF Passes
    <3>7. /\ records' \in [RKeys -> Records] /\ records'[scan.key] = Entry
          /\ \A k \in RKeys : k # scan.key => records'[k] = records[k]
      BY <3>1, <3>4, <3>6 DEF RecoveryInv, RecoveryTyped
    <3>8. RecoveryTyped'
      BY <1>1, <3>7 DEF RecoveryInv, RecoveryTyped
    <3>9. ResumesExactly'
      <4> SUFFICES ASSUME NEW k \in RKeys, records'[k].disposition = "RESUME_SAFE"
                   PROVE  /\ records'[k].snapshot = records'[k].at
                          /\ records'[k].at.disposition = "RUNNING"
                          /\ records'[k].held.life \notin {"unknown", "running", "needs_attention"}
        BY DEF ResumesExactly
      <4>1. CASE k = scan.key
        BY <3>1, <3>2, <3>3, <3>4, <3>5, <3>7, <4>1
      <4>2. CASE k # scan.key
        BY <3>7, <4>2 DEF RecoveryInv, ResumesExactly
      <4> QED
        BY <4>1, <4>2
    <3> QED
      BY <3>8, <3>9
  <2> QED
    BY <2>1, <2>2
<1>4. JobMade' /\ PassKnows'
  BY <1>1 DEF RecoveryInv, JobMade, Unmade, PassKnows
<1> QED
  BY <1>3, <1>4 DEF RecoveryInv

LEMMA PassDiesKeeps == ASSUME RecoveryInv, PassDies PROVE RecoveryInv'
  BY DEF PassDies, RecoveryInv, RecoveryTyped, JobMade, Unmade, PassKnows, ResumesExactly

\* RecoverySound: a mission goes on from a recovery record only as it is, and no
\* epoch and no checkpoint that was made is made again.
THEOREM RecoveryIsSound == RSpec => []RecoverySound
<1>1. RecoveryInv => RecoverySound
  BY DEF RecoveryInv, JobMade, ResumesExactly, RecoverySound
<1>2. RecoveryInv /\ [RNext]_rvars => RecoveryInv'
  <2> SUFFICES ASSUME RecoveryInv, [RNext]_rvars PROVE RecoveryInv'
    OBVIOUS
  <2>1. CASE UNCHANGED rvars
    BY <2>1, MovesKeep DEF rvars, MissionMoved
  <2> QED
    BY <2>1, MissionMoves, ReserveKeeps, StartsOrReports, PerformKeeps, PassBegins, PassVerifies,
       SortKeeps, ObserveKeeps, DecideKeeps, EndLoopKeeps, InsertKeeps, PassDiesKeeps DEF RNext
<1> QED
  BY <1>1, <1>2, RecoveryInit, PTL DEF RSpec

-----------------------------------------------------------------------------
(* What the tables hold a mission to (storage.py).                           *)

SchemaTyped ==
    /\ \E S : revisionRows \in Seq(S)
    /\ \E S : verificationRows \in Seq(S)
    /\ \E S : authorityRows \in Seq(S)
    /\ missionRow.phase \in Planning \cup Executing \cup {"COMPLETED"}

\* A revision that some row lets a mission work from.
OnLine(r) == r \in Revisions /\ (Approves(r, 0) \/ Applies(r, 0))

\* The rows name revisions there are, whose parents are older.
RowsNameRevisions ==
    /\ \A r \in Revisions : revisionRows[r].parent \in 0..(r - 1)
    /\ \A p \in planRows : p.revision \in Revisions
    /\ \A v \in DOMAIN verificationRows : verificationRows[v].revision \in Revisions
    /\ approvalRows # <<>> => approvalRows[1].revision \in Revisions /\ verificationRows # <<>>
    /\ completionRows # <<>> => approvalRows # <<>>

\* An authority is for what comes next on the line.
AuthoritiesOnLine ==
    \A a \in DOMAIN authorityRows :
        /\ authorityRows[a].revision \in Revisions
        /\ \E s : s = revisionRows[authorityRows[a].revision].parent /\ OnLine(s)

\* A mission that was approved works from the line.
MissionOnLine ==
    approvalRows # <<>> /\ (missionRow.phase \in Executing \/ missionRow.revision # 0) =>
        OnLine(missionRow.revision)

SchemaInv == SchemaTyped /\ RowsNameRevisions /\ AuthoritiesOnLine /\ MissionOnLine

\* A sequence that grows keeps its entries and is a sequence still.
LEMMA Grown ==
  ASSUME NEW S, NEW s \in Seq(S), NEW e
  PROVE  /\ Append(s, e) \in Seq(S \cup {e})
         /\ Len(s) \in Nat /\ DOMAIN s = 1..Len(s)
         /\ DOMAIN Append(s, e) = 1..(Len(s) + 1)
         /\ Append(s, e)[Len(s) + 1] = e
         /\ \A n \in DOMAIN s : Append(s, e)[n] = s[n]
<1>1. S \subseteq S \cup {e} /\ e \in S \cup {e}
  OBVIOUS
<1>2. s \in Seq(S \cup {e})
  BY <1>1, SeqMonotonic
<1>3. Append(s, e) \in Seq(S \cup {e}) /\ Len(Append(s, e)) = Len(s) + 1
  BY <1>1, <1>2, AppendProperties
<1>4. /\ Append(s, e)[Len(s) + 1] = e
      /\ \A n \in 1..Len(s) : Append(s, e)[n] = s[n]
  BY <1>1, <1>2, AppendProperties
<1>5. Len(s) \in Nat /\ DOMAIN s = 1..Len(s) /\ DOMAIN Append(s, e) = 1..(Len(s) + 1)
  BY <1>2, <1>3, LenProperties
<1> QED
  BY <1>3, <1>4, <1>5

LEMMA SchemaStart == ASInit => SchemaInv
<1> SUFFICES ASSUME ASInit PROVE SchemaInv
  OBVIOUS
<1>1. /\ revisionRows = <<>> /\ verificationRows = <<>> /\ authorityRows = <<>>
      /\ DOMAIN revisionRows = {} /\ DOMAIN verificationRows = {} /\ DOMAIN authorityRows = {}
      /\ approvalRows = <<>> /\ completionRows = <<>> /\ planRows = {}
  BY EmptySeq DEF ASInit
<1>2. SchemaTyped
  BY <1>1, EmptySeq DEF ASInit, SchemaTyped, Planning
<1> QED
  BY <1>1, <1>2 DEF SchemaInv, RowsNameRevisions, AuthoritiesOnLine, MissionOnLine, Revisions

\* What is on the line stays there as long as rows are only added.
LEMMA LineStays ==
  ASSUME SchemaInv, NEW r, OnLine(r),
         completionRows # <<>> => completionRows' # <<>> /\ approvalRows' = approvalRows,
         Revisions \subseteq Revisions', DOMAIN authorityRows \subseteq DOMAIN authorityRows',
         \A s \in Revisions : revisionRows'[s] = revisionRows[s],
         \A a \in DOMAIN authorityRows : authorityRows'[a] = authorityRows[a]
  PROVE  OnLine(r)'
<1>1. r \in Revisions'
  BY DEF OnLine
<1>2. CASE Approves(r, 0)
  BY <1>1, <1>2 DEF OnLine, Approves
<1>3. CASE Applies(r, 0)
  <2>1. PICK a \in DOMAIN authorityRows :
           authorityRows[a].revision = r /\ revisionRows[r].origin # "AGENT_MATERIAL"
    BY <1>3 DEF Applies
  <2>2. /\ a \in DOMAIN authorityRows' /\ authorityRows'[a].revision = r
        /\ revisionRows'[r].origin # "AGENT_MATERIAL"
    BY <2>1 DEF OnLine
  <2> QED
    BY <1>1, <2>2 DEF OnLine, Applies
<1> QED
  BY <1>2, <1>3 DEF OnLine

\* A statement that touches neither the mission nor what it may work from.
LEMMA AsideStays ==
  ASSUME SchemaInv, UNCHANGED <<missionRow, revisionRows, approvalRows, completionRows, authorityRows>>,
         \E S : verificationRows' \in Seq(S),
         verificationRows # <<>> => verificationRows' # <<>>,
         \A p \in planRows' : p.revision \in Revisions,
         \A v \in DOMAIN verificationRows' : verificationRows'[v].revision \in Revisions
  PROVE  SchemaInv'
<1>1. SchemaTyped'
  BY DEF SchemaInv, SchemaTyped
<1>2. RowsNameRevisions'
  BY DEF SchemaInv, RowsNameRevisions, Revisions
<1>3. AuthoritiesOnLine' /\ MissionOnLine'
  BY DEF SchemaInv, AuthoritiesOnLine, MissionOnLine, OnLine, Revisions, Approves, Applies
<1> QED
  BY <1>1, <1>2, <1>3 DEF SchemaInv

LEMMA RevisionStays ==
  ASSUME SchemaInv, NEW o \in Origins, NEW p \in Revisions \cup {0}, NEW s \in 1..sourceRows,
         InsertRevision(o, p, s)
  PROVE  SchemaInv'
<1>1. PICK S, new : revisionRows \in Seq(S) /\ new = [origin |-> o, parent |-> p, source |-> s]
  BY DEF SchemaInv, SchemaTyped
<1>2. /\ revisionRows' = Append(revisionRows, new) /\ new.parent = p
      /\ UNCHANGED <<missionRow, planRows, verificationRows, approvalRows, completionRows, authorityRows>>
  BY <1>1 DEF InsertRevision, specification, authority
<1>3. /\ revisionRows' \in Seq(S \cup {new}) /\ Len(revisionRows) \in Nat
      /\ DOMAIN revisionRows = 1..Len(revisionRows)
      /\ DOMAIN revisionRows' = 1..(Len(revisionRows) + 1)
      /\ revisionRows'[Len(revisionRows) + 1] = new
      /\ \A r \in DOMAIN revisionRows : revisionRows'[r] = revisionRows[r]
  BY <1>1, <1>2, Grown
<1>4. Revisions \subseteq Revisions' /\ \A r \in Revisions : revisionRows'[r] = revisionRows[r]
  BY <1>3 DEF Revisions
<1>5. SchemaTyped'
  <2>1. \E T : revisionRows' \in Seq(T)
    BY <1>3
  <2> QED
    BY <1>2, <2>1 DEF SchemaInv, SchemaTyped
<1>6. RowsNameRevisions'
  <2>1. \A r \in Revisions' : revisionRows'[r].parent \in 0..(r - 1)
    BY <1>2, <1>3 DEF SchemaInv, RowsNameRevisions, Revisions
  <2> QED
    BY <1>2, <1>4, <2>1 DEF SchemaInv, RowsNameRevisions
<1>7. \A r : OnLine(r) => OnLine(r)'
  BY <1>2, <1>4, LineStays
<1>8. AuthoritiesOnLine'
  BY <1>2, <1>4, <1>7 DEF SchemaInv, AuthoritiesOnLine
<1>9. MissionOnLine'
  BY <1>2, <1>7 DEF SchemaInv, MissionOnLine
<1> QED
  BY <1>5, <1>6, <1>8, <1>9 DEF SchemaInv

LEMMA VerificationStays ==
  ASSUME SchemaInv, NEW p \in planRows, NEW ready \in BOOLEAN, InsertVerification(p, ready)
  PROVE  SchemaInv'
<1>1. PICK S : verificationRows \in Seq(S)
  BY DEF SchemaInv, SchemaTyped
<1>2. PICK new : new = [revision |-> p.revision, source |-> p.source,
                        result |-> IF ready THEN missionRow.version + 1 ELSE 0]
  OBVIOUS
<1>3. /\ verificationRows' = Append(verificationRows, new) /\ new.revision = p.revision
      /\ UNCHANGED <<missionRow, revisionRows, planRows, approvalRows, completionRows, authorityRows>>
  BY <1>2 DEF InsertVerification, specification, authority
<1>4. /\ verificationRows' \in Seq(S \cup {new}) /\ Len(verificationRows) \in Nat
      /\ DOMAIN verificationRows = 1..Len(verificationRows)
      /\ DOMAIN verificationRows' = 1..(Len(verificationRows) + 1)
      /\ verificationRows'[Len(verificationRows) + 1] = new
      /\ \A v \in DOMAIN verificationRows : verificationRows'[v] = verificationRows[v]
  BY <1>1, <1>3, Grown
<1>5. verificationRows' # <<>>
  BY <1>4, EmptySeq
<1>6. p.revision \in Revisions
  BY DEF SchemaInv, RowsNameRevisions
<1>7. \A v \in DOMAIN verificationRows' : verificationRows'[v].revision \in Revisions
  BY <1>3, <1>4, <1>6 DEF SchemaInv, RowsNameRevisions
<1>8. \E T : verificationRows' \in Seq(T)
  BY <1>4
<1>9. \A q \in planRows' : q.revision \in Revisions
  BY <1>3 DEF SchemaInv, RowsNameRevisions
<1> QED
  BY <1>3, <1>5, <1>7, <1>8, <1>9, AsideStays

LEMMA ApprovalStays ==
  ASSUME SchemaInv, NEW v \in DOMAIN verificationRows, InsertApproval(v)
  PROVE  SchemaInv'
<1>1. PICK new : new = [revision |-> verificationRows[v].revision, result |-> missionRow.version + 1]
  OBVIOUS
<1>2. /\ approvalRows = <<>> /\ approvalRows' = <<new>> /\ new.revision = verificationRows[v].revision
      /\ missionRow.phase = Waiting /\ missionRow.revision = 0
      /\ UNCHANGED <<missionRow, revisionRows, planRows, verificationRows, completionRows, authorityRows>>
  BY <1>1 DEF InsertApproval, ApprovalScope, specification, proposal
<1>3. completionRows = <<>>
  BY <1>2 DEF SchemaInv, RowsNameRevisions
<1>4. SchemaTyped'
  BY <1>2 DEF SchemaInv, SchemaTyped
<1>5. RowsNameRevisions'
  <2>1. verificationRows # <<>>
    BY EmptySeq
  <2>2. approvalRows'[1].revision \in Revisions
    BY <1>2 DEF SchemaInv, RowsNameRevisions
  <2> QED
    BY <1>2, <1>3, <2>1, <2>2 DEF SchemaInv, RowsNameRevisions, Revisions
<1>6. \A r : OnLine(r) => OnLine(r)'
  BY <1>2, <1>3, LineStays DEF Revisions
<1>7. AuthoritiesOnLine'
  BY <1>2, <1>6 DEF SchemaInv, AuthoritiesOnLine, Revisions
<1>8. MissionOnLine'
  BY <1>2 DEF MissionOnLine, Waiting, Executing
<1> QED
  BY <1>4, <1>5, <1>7, <1>8 DEF SchemaInv

LEMMA CompletionStays ==
  ASSUME SchemaInv, NEW g \in DOMAIN grantRows, InsertCompletion(g)
  PROVE  SchemaInv'
<1>1. /\ approvalRows # <<>> /\ completionRows = <<>> /\ completionRows' # <<>>
      /\ UNCHANGED <<missionRow, revisionRows, planRows, verificationRows, approvalRows, authorityRows>>
  BY DEF InsertCompletion, specification, proposal
<1>2. SchemaTyped' /\ RowsNameRevisions'
  BY <1>1 DEF SchemaInv, SchemaTyped, RowsNameRevisions, Revisions
<1>3. \A r : OnLine(r) => OnLine(r)'
  BY <1>1, LineStays DEF Revisions
<1>4. AuthoritiesOnLine' /\ MissionOnLine'
  BY <1>1, <1>3 DEF SchemaInv, AuthoritiesOnLine, MissionOnLine, Revisions
<1> QED
  BY <1>2, <1>4 DEF SchemaInv

LEMMA AuthorityStays ==
  ASSUME SchemaInv, NEW r \in Revisions, InsertAuthority(r)
  PROVE  SchemaInv'
<1>1. PICK S : authorityRows \in Seq(S)
  BY DEF SchemaInv, SchemaTyped
<1>2. PICK new : new = [revision |-> r, result |-> missionRow.version + 1]
  OBVIOUS
<1>3. /\ authorityRows' = Append(authorityRows, new) /\ new.revision = r
      /\ revisionRows[r].parent # 0
      /\ Approves(revisionRows[r].parent, 0) \/ Applies(revisionRows[r].parent, 0)
      /\ UNCHANGED <<missionRow, revisionRows, planRows, verificationRows, approvalRows, completionRows>>
  BY <1>2 DEF InsertAuthority, specification, proposal
<1>4. /\ authorityRows' \in Seq(S \cup {new}) /\ Len(authorityRows) \in Nat
      /\ DOMAIN authorityRows = 1..Len(authorityRows)
      /\ DOMAIN authorityRows' = 1..(Len(authorityRows) + 1)
      /\ authorityRows'[Len(authorityRows) + 1] = new
      /\ \A a \in DOMAIN authorityRows : authorityRows'[a] = authorityRows[a]
  BY <1>1, <1>3, Grown
<1>5. revisionRows[r].parent \in Revisions
  <2>1. PICK T : revisionRows \in Seq(T)
    BY DEF SchemaInv, SchemaTyped
  <2>2. Len(revisionRows) \in Nat /\ Revisions = 1..Len(revisionRows)
    BY <2>1, LenProperties DEF Revisions
  <2>3. revisionRows[r].parent \in 0..(r - 1)
    BY DEF SchemaInv, RowsNameRevisions
  <2> QED
    BY <1>3, <2>2, <2>3
<1>6. OnLine(revisionRows[r].parent)
  BY <1>3, <1>5 DEF OnLine
<1>7. DOMAIN authorityRows \subseteq DOMAIN authorityRows'
  BY <1>4
<1>8. \A s : OnLine(s) => OnLine(s)'
  BY <1>3, <1>4, <1>7, LineStays DEF Revisions
<1>9. SchemaTyped'
  <2>1. \E T : authorityRows' \in Seq(T)
    BY <1>4
  <2> QED
    BY <1>3, <2>1 DEF SchemaInv, SchemaTyped
<1>10. RowsNameRevisions'
  BY <1>3 DEF SchemaInv, RowsNameRevisions, Revisions
<1>11. AuthoritiesOnLine'
  <2>1. ASSUME NEW a \in DOMAIN authorityRows
        PROVE  /\ authorityRows'[a].revision \in Revisions
               /\ \E s : s = revisionRows'[authorityRows'[a].revision].parent /\ OnLine(s)'
    <3>1. PICK s : s = revisionRows[authorityRows[a].revision].parent /\ OnLine(s)
      BY DEF SchemaInv, AuthoritiesOnLine
    <3>2. OnLine(s)' /\ s = revisionRows'[authorityRows'[a].revision].parent
      BY <1>3, <1>4, <1>8, <3>1
    <3>3. authorityRows'[a].revision \in Revisions
      BY <1>4 DEF SchemaInv, AuthoritiesOnLine
    <3> QED
      BY <3>2, <3>3
  <2>2. ASSUME NEW a, a = Len(authorityRows) + 1
        PROVE  /\ authorityRows'[a].revision \in Revisions
               /\ \E s : s = revisionRows'[authorityRows'[a].revision].parent /\ OnLine(s)'
    <3>1. PICK s : s = revisionRows[r].parent
      OBVIOUS
    <3>2. OnLine(s)' /\ authorityRows'[a].revision = r /\ revisionRows'[r].parent = s
      BY <1>3, <1>4, <1>6, <1>8, <2>2, <3>1
    <3> QED
      BY <3>2
  <2>3. Revisions' = Revisions
    BY <1>3 DEF Revisions
  <2>4. \A a \in DOMAIN authorityRows' : a \in DOMAIN authorityRows \/ a = Len(authorityRows) + 1
    BY <1>4
  <2> QED
    BY <2>1, <2>2, <2>3, <2>4 DEF AuthoritiesOnLine
<1>12. MissionOnLine'
  BY <1>3, <1>8 DEF SchemaInv, MissionOnLine
<1> QED
  BY <1>9, <1>10, <1>11, <1>12 DEF SchemaInv

\* A mission begins to execute from its wait only, and as approved.
LEMMA ExecutesFromWaiting ==
  ASSUME NEW p \in Planning, NEW q \in PhaseSteps[p], q \in Executing
  PROVE  p = Waiting /\ q = "APPROVED"
<1>1. CASE p = "DRAFT"
  BY <1>1 DEF PhaseSteps, Planning, Executing, Waiting
<1>2. CASE p = "SPECIFICATION_ANALYSIS"
  BY <1>2 DEF PhaseSteps, Planning, Executing, Waiting
<1>3. CASE p = "BACKLOG_GENERATION"
  BY <1>3 DEF PhaseSteps, Planning, Executing, Waiting
<1>4. CASE p = Waiting
  BY <1>4 DEF PhaseSteps, Planning, Executing, Waiting
<1> QED
  BY <1>1, <1>2, <1>3, <1>4 DEF Planning

LEMMA StepsArePhases ==
  ASSUME NEW p \in Planning \cup Executing \cup {"COMPLETED"}, NEW q \in PhaseSteps[p]
  PROVE  q \in Planning \cup Executing \cup {"COMPLETED"}
  BY DEF PhaseSteps, Planning, Executing, Waiting

LEMMA UpdateStays ==
  ASSUME SchemaInv, NEW p \in Planning \cup Executing \cup {"COMPLETED"}, NEW d, NEW r, NEW e,
         UpdateMission(p, d, r, e),
         p # missionRow.phase => p \in PhaseSteps[missionRow.phase]
  PROVE  SchemaInv'
<1>1. PICK new : new = [phase |-> p, disposition |-> d, revision |-> r, epoch |-> e,
                        version |-> missionRow.version + 1]
  OBVIOUS
<1>2. /\ missionRow' = new /\ new.phase = p /\ new.revision = r
      /\ ApprovedExactly(new) /\ ActivatesWithAuthority(new)
      /\ UNCHANGED <<revisionRows, planRows, verificationRows, approvalRows, completionRows, authorityRows>>
      /\ missionRow.phase # "COMPLETED"
  BY <1>1 DEF UpdateMission, proposal, authority
<1>3. SchemaTyped' /\ RowsNameRevisions' /\ AuthoritiesOnLine'
  BY <1>2 DEF SchemaInv, SchemaTyped, RowsNameRevisions, AuthoritiesOnLine, OnLine, Revisions,
              Approves, Applies
<1>4. \A s, v : Approves(s, v) \/ Applies(s, v) => OnLine(s)
  BY DEF SchemaInv, RowsNameRevisions, AuthoritiesOnLine, OnLine, Approves, Applies
<1>5. approvalRows # <<>> /\ (p \in Executing \/ r # 0) => OnLine(r)
  <2> SUFFICES ASSUME approvalRows # <<>>, p \in Executing \/ r # 0 PROVE OnLine(r)
    OBVIOUS
  <2>1. verificationRows # <<>>
    BY DEF SchemaInv, RowsNameRevisions
  <2>2. CASE r # missionRow.revision
    BY <1>2, <1>4, <2>1, <2>2 DEF ActivatesWithAuthority
  <2>3. CASE r = missionRow.revision /\ (missionRow.phase \in Executing \/ r # 0)
    BY <2>3 DEF SchemaInv, MissionOnLine
  <2>4. CASE missionRow.phase \notin Executing /\ p \in Executing
    <3>1. missionRow.phase \in Planning /\ p # missionRow.phase
      BY <1>2, <2>4 DEF SchemaInv, SchemaTyped
    <3>2. missionRow.phase = Waiting /\ p = "APPROVED"
      BY <2>4, <3>1, ExecutesFromWaiting
    <3> QED
      BY <1>2, <1>4, <2>1, <3>2 DEF ApprovedExactly
  <2> QED
    BY <2>2, <2>3, <2>4
<1>6. MissionOnLine'
  BY <1>2, <1>5 DEF MissionOnLine, OnLine, Revisions, Approves, Applies
<1> QED
  BY <1>3, <1>6 DEF SchemaInv

LEMMA SchemaStep == SchemaInv /\ [ASNext]_asvars => SchemaInv'
<1> SUFFICES ASSUME SchemaInv, [ASNext]_asvars PROVE SchemaInv'
  OBVIOUS
<1>0. /\ \E S : verificationRows \in Seq(S)
      /\ \A p \in planRows : p.revision \in Revisions
      /\ \A v \in DOMAIN verificationRows : verificationRows[v].revision \in Revisions
  BY DEF SchemaInv, SchemaTyped, RowsNameRevisions
<1>1. ASSUME UNCHANGED <<missionRow, revisionRows, planRows, verificationRows, approvalRows,
                         completionRows, authorityRows>>
      PROVE  SchemaInv'
  BY <1>0, <1>1, AsideStays
<1>2. ASSUME NEW s, InsertSource \/ UpdateHead \/ InsertManifest \/ InsertSupersession(s)
      PROVE  SchemaInv'
  BY <1>1, <1>2 DEF InsertSource, UpdateHead, InsertManifest, InsertSupersession, proposal,
                    authority, specification
<1>3. ASSUME NEW o \in Origins, NEW p \in Revisions \cup {0}, NEW s \in 1..sourceRows,
             InsertRevision(o, p, s)
      PROVE  SchemaInv'
  BY <1>3, RevisionStays
<1>4. ASSUME NEW r \in Revisions, NEW v, InsertInvalidation(r) \/ InsertGrant(r) \/ InsertFirstEpoch(r, v)
      PROVE  SchemaInv'
  BY <1>1, <1>4 DEF InsertInvalidation, InsertGrant, InsertFirstEpoch, proposal, authority, specification
<1>5. ASSUME NEW r \in Revisions, InsertPlan(r)
      PROVE  SchemaInv'
  <2>1. /\ planRows' = planRows \cup {[revision |-> r, source |-> headRow]}
        /\ UNCHANGED <<missionRow, revisionRows, verificationRows, approvalRows, completionRows,
                       authorityRows>>
    BY <1>5 DEF InsertPlan, authority, specification
  <2>2. \A p \in planRows' : p.revision \in Revisions
    BY <1>0, <2>1
  <2> QED
    BY <1>0, <2>1, <2>2, AsideStays
<1>6. ASSUME NEW r \in Revisions, InsertAuthority(r)
      PROVE  SchemaInv'
  BY <1>6, AuthorityStays
<1>7. ASSUME NEW p \in planRows, NEW ready \in BOOLEAN, InsertVerification(p, ready)
      PROVE  SchemaInv'
  BY <1>7, VerificationStays
<1>8. ASSUME NEW v \in DOMAIN verificationRows, InsertApproval(v)
      PROVE  SchemaInv'
  BY <1>8, ApprovalStays
<1>9. ASSUME NEW g \in DOMAIN grantRows, InsertCompletion(g)
      PROVE  SchemaInv'
  BY <1>9, CompletionStays
<1>10. missionRow.phase \in Planning \cup Executing \cup {"COMPLETED"}
  BY DEF SchemaInv, SchemaTyped
<1>11. CASE UpdatePhase
  <2>1. PICK p \in PhaseSteps[missionRow.phase], r \in Revisions \cup {0}, e \in 0..Len(epochRows) :
           UpdateMission(p, "RUNNING", r, e)
    BY <1>11 DEF UpdatePhase
  <2>2. p \in Planning \cup Executing \cup {"COMPLETED"}
    BY <1>10, StepsArePhases
  <2> QED
    BY <2>1, <2>2, UpdateStays
<1>12. CASE UpdateOther
  <2>1. PICK d, r, e : UpdateMission(missionRow.phase, d, r, e)
    BY <1>12 DEF UpdateOther
  <2> QED
    BY <1>10, <2>1, UpdateStays
<1>13. CASE UNCHANGED asvars
  BY <1>1, <1>13 DEF asvars
<1> QED
  BY <1>2, <1>3, <1>4, <1>5, <1>6, <1>7, <1>8, <1>9, <1>11, <1>12, <1>13 DEF ASNext

\* Whatever statements are sent, a mission that was approved executes only what
\* descends from the approval, along applied revisions that are younger than their
\* parents, for any number of sources, revisions and rows (the triggers of storage.py).
THEOREM TablesExecuteApproved == ASSpec => []ExecutesApproved
<1>1. SchemaInv => ExecutesApproved
  <2> SUFFICES ASSUME SchemaInv, approvalRows # <<>>,
                      missionRow.phase \in Executing \/ missionRow.revision # 0
               PROVE  DescendsFromApproved(missionRow.revision)
    BY DEF ExecutesApproved
  <2> DEFINE line == {r \in Revisions : OnLine(r)}
  <2>1. missionRow.revision \in line
    BY DEF SchemaInv, MissionOnLine, OnLine
  <2>2. ASSUME NEW r \in line, ~Approves(r, 0)
        PROVE  /\ Applies(r, 0) /\ revisionRows[r].origin # "AGENT_MATERIAL"
               /\ revisionRows[r].parent \in line /\ revisionRows[r].parent < r
    <3>1. r \in Revisions /\ Applies(r, 0) /\ revisionRows[r].origin # "AGENT_MATERIAL"
      BY <2>2 DEF OnLine, Applies
    <3>2. OnLine(revisionRows[r].parent)
      BY <3>1 DEF SchemaInv, AuthoritiesOnLine, Applies
    <3>3. r \in Nat
      <4>1. PICK T : revisionRows \in Seq(T)
        BY DEF SchemaInv, SchemaTyped
      <4> QED
        BY <3>1, <4>1, LenProperties DEF Revisions
    <3>4. revisionRows[r].parent < r
      BY <3>1, <3>3 DEF SchemaInv, RowsNameRevisions
    <3> QED
      BY <3>1, <3>2, <3>4 DEF OnLine
  <2>3. line \in SUBSET Revisions
    OBVIOUS
  <2> HIDE DEF line
  <2> QED
    BY <2>1, <2>2, <2>3 DEF DescendsFromApproved
<1> QED
  BY <1>1, SchemaStart, SchemaStep, PTL DEF ASSpec
=============================================================================
