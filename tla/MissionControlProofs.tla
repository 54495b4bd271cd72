------------------------- MODULE MissionControlProofs -------------------------
(***************************************************************************)
(* For any number of operations, executions and commands: what is at work  *)
(* holds a lease, a stop reaches all of it, and a resume is accepted only  *)
(* at the safe boundary, as long as no operation is executed again beside  *)
(* or after another execution of it. Handoffs keep all that and follow     *)
(* their epochs; so do the tables, whatever is written to them.            *)
(***************************************************************************)
EXTENDS EpochHandoff, ControlSchema, FiniteSetTheorems, TLAPS

USE ControlAssumption

\* Temporal executes an operation again only after a kill.
NoOverlap == Overlapping = {}

LeaseStates == Open \cup {"none", "FINISHED", "RELEASED"}

\* A lease is left alone, or asked to end.
Asked(op) == lease'[op] = lease[op] \/ (lease[op] = "ACTIVE" /\ lease'[op] = "RELEASING")

\* Releasing some leases only asks ACTIVE ones to end.
LEMMA ReleasingAsks ==
    ASSUME TypeOK, NEW ops \in SUBSET Ops, lease' = Releasing(ops)
    PROVE  /\ lease' \in [Ops -> LeaseStates]
           /\ \A op \in Ops : Asked(op)
           /\ \A op \in ops : lease'[op] # "ACTIVE"
  <1>1. lease' \in [Ops -> LeaseStates]
    BY DEF Releasing, TypeOK, LeaseStates, Open
  <1>2. \A op \in Ops : lease'[op] = IF op \in ops /\ lease[op] = "ACTIVE"
                                     THEN "RELEASING" ELSE lease[op]
    BY DEF Releasing
  <1> QED BY <1>1, <1>2 DEF Asked

\* current leaves the fence and the leases alone, or gives a new token.
LEMMA ReconcileFacts ==
    ASSUME TypeOK, Reconcile
    PROVE  /\ lease' \in [Ops -> LeaseStates]
           /\ token' \in Nat /\ fenced' = epoch /\ retried' = retried
           /\ \A op \in Ops : Asked(op)
           /\ \/ token' = token /\ fenced' = fenced /\ lease' = lease
              \/ token' = token + 1 /\ \A op \in Ops : lease'[op] # "ACTIVE"
  <1>1. CASE fenced = epoch
    BY <1>1 DEF Reconcile, TypeOK, LeaseStates, Asked
  <1>2. CASE fenced # epoch
    <2>1. lease' = Releasing(Ops) /\ token' = token + 1
      BY <1>2 DEF Reconcile, NextToken
    <2> QED BY <2>1, ReleasingAsks DEF Reconcile, TypeOK
  <1> QED BY <1>1, <1>2

\* Types are kept by every step.
LEMMA TypeStep == TypeOK /\ [Next]_vars => TypeOK'
  <1> SUFFICES ASSUME TypeOK, [Next]_vars PROVE TypeOK'
    OBVIOUS
  <1>1. ASSUME NEW op \in Ops, Schedule(op) PROVE TypeOK'
    BY <1>1 DEF Schedule, TypeOK, mission, fence, Dispositions
  <1>2. ASSUME NEW r \in Runners, Ask(r) PROVE TypeOK'
    BY <1>2, ReconcileFacts DEF Ask, TypeOK, mission, Refusal, LeaseStates
  <1>3. ASSUME NEW r \in Runners, Begin(r) PROVE TypeOK'
    BY <1>3 DEF Begin, TypeOK, mission, fence, Refusal, Open
  <1>4. ASSUME NEW r \in Runners, Work(r) PROVE TypeOK'
    BY <1>4 DEF Work, TypeOK, mission, fence
  <1>5. ASSUME NEW r \in Runners, Finish(r) PROVE TypeOK'
    BY <1>5 DEF Finish, Finished, TypeOK, mission, fence, Open
  <1>6. ASSUME NEW r \in Runners, Kill(r) PROVE TypeOK'
    BY <1>6 DEF Kill, TypeOK, mission, fence
  <1>7. ASSUME NEW c \in Commands, NEW action \in Actions, Send(c, action) PROVE TypeOK'
    BY <1>7 DEF Send, TypeOK, mission, fence, executions
  <1>8. ASSUME NEW c \in Commands, Check(c) PROVE TypeOK'
    BY <1>8, ReconcileFacts DEF Check, TypeOK, mission, executions, LeaseStates
  <1>9. ASSUME NEW c \in Commands, Transition(c) PROVE TypeOK'
    <2>1. lease' \in [Ops -> LeaseStates]
      BY <1>9, ReleasingAsks DEF Transition, TypeOK, LeaseStates
    <2>2. Target(cmd[c].action) \in Dispositions
      BY DEF Target, Dispositions
    <2> QED BY <1>9, <2>1, <2>2 DEF Transition, TypeOK, executions, LeaseStates, NextToken
  <1>10. ASSUME NEW c \in Commands, Retry(c) PROVE TypeOK'
    <2>1. lease' \in [Ops -> LeaseStates]
      BY <1>10, ReleasingAsks DEF Retry
    <2> QED BY <1>10, <2>1 DEF Retry, TypeOK, mission, executions, LeaseStates, NextToken
  <1>11. ASSUME NEW c \in Commands, Refuse(c) PROVE TypeOK'
    BY <1>11 DEF Refuse, TypeOK, mission, fence, executions
  <1>12. CASE OtherChange
    BY <1>12 DEF OtherChange, TypeOK, executions, NextToken
  <1>13. CASE UNCHANGED vars
    BY <1>13 DEF vars, TypeOK
  <1> QED BY <1>1, <1>2, <1>3, <1>4, <1>5, <1>6, <1>7, <1>8, <1>9, <1>10, <1>11, <1>12, <1>13
          DEF Next

\* One execution of an operation at a time.
LEMMA AloneStep == NoOverlap /\ TypeOK /\ Alone /\ [Next]_vars => Alone'
  <1> SUFFICES ASSUME NoOverlap, TypeOK, Alone, [Next]_vars PROVE Alone'
    OBVIOUS
  <1>1. ASSUME NEW r \in Runners, Ask(r) PROVE Alone'
    <2>1. \A s \in Runners : s # r /\ Does[s] = Does[r] => pc[s] \in {"idle", "killed"}
      BY <1>1 DEF Ask, MayExecute, NoOverlap
    <2>2. \A s \in Runners : s # r => pc'[s] = pc[s]
      BY <1>1 DEF Ask, TypeOK
    <2> QED BY <2>1, <2>2 DEF Alone
  <1>2. ASSUME NEW r \in Runners, Begin(r) \/ Work(r) \/ Finish(r) \/ Kill(r) PROVE Alone'
    <2>1. pc[r] \notin {"idle", "killed"} /\ \A s \in Runners : s # r => pc'[s] = pc[s]
      BY <1>2 DEF Begin, Work, Finish, Kill, TypeOK
    <2> QED BY <2>1 DEF Alone
  <1>3. ASSUME UNCHANGED pc PROVE Alone'
    BY <1>3 DEF Alone
  <1> QED BY <1>1, <1>2, <1>3
          DEF Next, vars, Schedule, Send, Check, Transition, Retry, Refuse, OtherChange, executions

\* What a step does to the leases: an execution begins or finishes, or leases
\* are asked to end.
LEMMA LeaseStep ==
    ASSUME TypeOK, [Next]_vars
    PROVE  \/ \E r \in Runners : Begin(r)
           \/ \E r \in Runners : Finish(r)
           \/ /\ \A op \in Ops : Asked(op)
              /\ \A r \in Runners : \/ pc'[r] = pc[r]
                                    \/ pc[r] # "over" /\ pc'[r] # "running"
  <1>1. ASSUME NEW r \in Runners, Ask(r)
        PROVE  /\ \A op \in Ops : Asked(op)
               /\ \A s \in Runners : pc'[s] = pc[s] \/ (pc[s] # "over" /\ pc'[s] # "running")
    <2>1. \A op \in Ops : Asked(op)
      BY <1>1, ReconcileFacts DEF Ask
    <2>2. \A s \in Runners : pc'[s] = pc[s] \/ (pc[s] # "over" /\ pc'[s] # "running")
      BY <1>1 DEF Ask, Refusal, TypeOK
    <2> QED BY <2>1, <2>2
  <1>2. ASSUME NEW r \in Runners, Work(r) \/ Kill(r)
        PROVE  /\ \A op \in Ops : Asked(op)
               /\ \A s \in Runners : pc'[s] = pc[s] \/ (pc[s] # "over" /\ pc'[s] # "running")
    BY <1>2 DEF Work, Kill, TypeOK, Asked
  <1>3. ASSUME NEW c \in Commands, Check(c) PROVE \A op \in Ops : Asked(op)
    BY <1>3, ReconcileFacts DEF Check
  <1>4. ASSUME NEW c \in Commands, Transition(c) PROVE \A op \in Ops : Asked(op)
    BY <1>4, ReleasingAsks DEF Transition, Asked
  <1>5. ASSUME NEW c \in Commands, Retry(c) PROVE \A op \in Ops : Asked(op)
    BY <1>5, ReleasingAsks DEF Retry
  <1>6. ASSUME UNCHANGED lease PROVE \A op \in Ops : Asked(op)
    BY <1>6 DEF Asked
  <1> QED BY <1>1, <1>2, <1>3, <1>4, <1>5, <1>6
          DEF Next, vars, Schedule, Send, Check, Transition, Retry, Refuse, OtherChange, executions

\* A lease that ended had an execution that ended.
LEMMA EndsStep == TypeOK /\ EndsWithWork /\ [Next]_vars => EndsWithWork'
  <1> SUFFICES ASSUME TypeOK, EndsWithWork, [Next]_vars,
                      NEW op \in Ops, lease'[op] \in {"FINISHED", "RELEASED"}
               PROVE  \E r \in Runners : Does[r] = op /\ pc'[r] = "over"
    BY DEF EndsWithWork
  <1>1. ASSUME NEW r \in Runners, Begin(r) PROVE \E s \in Runners : Does[s] = op /\ pc'[s] = "over"
    <2>1. lease[op] \in {"FINISHED", "RELEASED"} /\ pc[r] = "asked"
      BY <1>1 DEF Begin, TypeOK
    <2>2. PICK s \in Runners : Does[s] = op /\ pc[s] = "over"
      BY <2>1 DEF EndsWithWork
    <2> QED BY <1>1, <2>1, <2>2 DEF Begin, TypeOK
  <1>2. ASSUME NEW r \in Runners, Finish(r) PROVE \E s \in Runners : Does[s] = op /\ pc'[s] = "over"
    <2>1. pc'[r] = "over"
      BY <1>2 DEF Finish, TypeOK
    <2>2. CASE Does[r] # op
      <3>1. lease[op] \in {"FINISHED", "RELEASED"} /\ pc[r] = "leaving"
        BY <1>2, <2>2 DEF Finish, TypeOK
      <3>2. PICK s \in Runners : Does[s] = op /\ pc[s] = "over"
        BY <3>1 DEF EndsWithWork
      <3> QED BY <1>2, <3>1, <3>2 DEF Finish, TypeOK
    <2> QED BY <2>1, <2>2
  <1>3. ASSUME \A q \in Ops : Asked(q),
               \A r \in Runners : pc'[r] = pc[r] \/ (pc[r] # "over" /\ pc'[r] # "running")
        PROVE  \E s \in Runners : Does[s] = op /\ pc'[s] = "over"
    <2>1. lease[op] \in {"FINISHED", "RELEASED"}
      BY <1>3 DEF Asked
    <2>2. PICK s \in Runners : Does[s] = op /\ pc[s] = "over"
      BY <2>1 DEF EndsWithWork
    <2> QED BY <1>3, <2>2
  <1> QED BY <1>1, <1>2, <1>3, LeaseStep

\* What is at work keeps its lease.
LEMMA WorkStep ==
    TypeOK /\ Alone /\ EndsWithWork /\ WorkHoldsLease /\ [Next]_vars => WorkHoldsLease'
  <1> SUFFICES ASSUME TypeOK, Alone, EndsWithWork, WorkHoldsLease, [Next]_vars,
                      NEW r \in Runners, pc'[r] = "running"
               PROVE  lease'[Does[r]] \in Open
    BY DEF WorkHoldsLease, Open
  <1> DEFINE op == Does[r]
  <1>1. ASSUME NEW s \in Runners, Begin(s) PROVE lease'[op] \in Open
    <2>1. CASE s = r
      <3>1. pc[r] = "asked"
        BY <1>1, <2>1 DEF Begin
      <3>2. lease[op] \notin {"FINISHED", "RELEASED"}
        BY <3>1 DEF EndsWithWork, Alone
      <3>3. StillAdmits(op) /\ lease' = [lease EXCEPT ![op] = IF @ = "none" THEN "ACTIVE" ELSE @]
        BY <1>1, <2>1 DEF Begin, Refusal, TypeOK
      <3> QED BY <3>2, <3>3 DEF TypeOK, Open
    <2>2. CASE s # r
      <3>1. pc[r] = "running" /\ lease[op] \in Open
        BY <1>1, <2>2 DEF Begin, TypeOK, WorkHoldsLease
      <3> QED BY <1>1, <3>1 DEF Begin, TypeOK, Open
    <2> QED BY <2>1, <2>2
  <1>2. ASSUME NEW s \in Runners, Finish(s) PROVE lease'[op] \in Open
    <2>1. s # r /\ pc[r] = "running" /\ pc[s] = "leaving"
      BY <1>2 DEF Finish, TypeOK
    <2>2. Does[s] # op
      BY <2>1 DEF Alone
    <2>3. lease'[op] = lease[op]
      BY <1>2, <2>2 DEF Finish, TypeOK
    <2> QED BY <2>1, <2>3 DEF WorkHoldsLease
  <1>3. ASSUME \A q \in Ops : Asked(q),
               \A s \in Runners : pc'[s] = pc[s] \/ (pc[s] # "over" /\ pc'[s] # "running")
        PROVE  lease'[op] \in Open
    BY <1>3 DEF Asked, WorkHoldsLease, Open
  <1> QED BY <1>1, <1>2, <1>3, LeaseStep

\* Under a stop no lease is left ACTIVE.
LEMMA StopStep == TypeOK /\ StopReleasesAll /\ [Next]_vars => StopReleasesAll'
  <1> SUFFICES ASSUME TypeOK, StopReleasesAll, [Next]_vars PROVE StopReleasesAll'
    OBVIOUS
  <1>1. ASSUME NEW c \in Commands, Transition(c) PROVE StopReleasesAll'
    <2>1. CASE disposition' = "STOPPED"
      <3>1. lease' = Releasing(Ops)
        BY <1>1, <2>1 DEF Transition
      <3> QED BY <3>1, ReleasingAsks DEF StopReleasesAll
    <2> QED BY <2>1 DEF StopReleasesAll
  <1>2. ASSUME NEW r \in Runners, Begin(r) PROVE StopReleasesAll'
    BY <1>2 DEF Begin, StillAdmits, Admits, StopReleasesAll, mission
  <1>3. ASSUME NEW r \in Runners, Finish(r) PROVE StopReleasesAll'
    BY <1>3 DEF Finish, Finished, StopReleasesAll, mission, TypeOK
  <1>4. ASSUME UNCHANGED disposition, \A op \in Ops : Asked(op) PROVE StopReleasesAll'
    BY <1>4 DEF StopReleasesAll, Asked
  <1>5. \/ \E c \in Commands : Transition(c)
        \/ UNCHANGED disposition
    BY DEF Next, vars, mission, Schedule, Ask, Begin, Work, Finish, Kill, Send, Check, Retry,
           Refuse, OtherChange
  <1> QED BY <1>1, <1>2, <1>3, <1>4, <1>5, LeaseStep

\* Tokens only grow, and under the same token the scope stays and no lease is
\* newly asked to end.
LEMMA TokenStep ==
    ASSUME TypeOK, [Next]_vars
    PROVE  /\ token' \in Nat /\ token' >= token
           /\ token' = token =>
                /\ disposition' = disposition /\ fenced' = fenced
                /\ \A op \in Ops : lease'[op] = "RELEASING" => lease[op] = "RELEASING"
  <1>1. ASSUME Reconcile, UNCHANGED disposition
        PROVE  /\ token' \in Nat /\ token' >= token
               /\ token' = token =>
                    /\ disposition' = disposition /\ fenced' = fenced
                    /\ \A op \in Ops : lease'[op] = "RELEASING" => lease[op] = "RELEASING"
    BY <1>1, ReconcileFacts DEF TypeOK
  <1>2. ASSUME UNCHANGED <<token, disposition, fenced, lease>>
        PROVE  /\ token' \in Nat /\ token' >= token
               /\ token' = token =>
                    /\ disposition' = disposition /\ fenced' = fenced
                    /\ \A op \in Ops : lease'[op] = "RELEASING" => lease[op] = "RELEASING"
    BY <1>2 DEF TypeOK
  <1>3. ASSUME NEW r \in Runners, Begin(r) \/ Finish(r)
        PROVE  /\ token' \in Nat /\ token' >= token
               /\ token' = token =>
                    /\ disposition' = disposition /\ fenced' = fenced
                    /\ \A op \in Ops : lease'[op] = "RELEASING" => lease[op] = "RELEASING"
    BY <1>3 DEF Begin, Finish, Finished, TypeOK, mission, fence
  <1>4. ASSUME token' = NextToken PROVE token' \in Nat /\ token' >= token /\ token' # token
    BY <1>4 DEF NextToken, TypeOK
  <1> QED BY <1>1, <1>2, <1>3, <1>4
          DEF Next, vars, mission, fence, executions, Schedule, Ask, Work, Kill, Send, Check,
              Transition, Retry, Refuse, OtherChange

\* What a step does to claims and commands: one is made from the fence of now.
LEMMA SeenStep ==
    ASSUME TypeOK, [Next]_vars
    PROVE  /\ \A op \in Ops : \/ claim'[op] = claim[op]
                              \/ /\ claim'[op].token = token /\ claim'[op].epoch = fenced
                                 /\ claim'[op].disposition = disposition
                                 /\ token' = token
           /\ \A c \in Commands : cmd'[c].token = cmd[c].token \/ cmd'[c].token = token
  <1>1. ASSUME NEW q \in Ops, Schedule(q)
        PROVE  \A op \in Ops : \/ claim'[op] = claim[op]
                               \/ /\ claim'[op].token = token /\ claim'[op].epoch = fenced
                                  /\ claim'[op].disposition = disposition
                                  /\ token' = token
    BY <1>1 DEF Schedule, fence, TypeOK
  <1>2. \/ \E q \in Ops : Schedule(q)
        \/ UNCHANGED claim
    BY DEF Next, vars, executions, Ask, Begin, Work, Finish, Kill, Send, Check, Transition,
           Retry, Refuse, OtherChange
  <1>3. ASSUME NEW d \in Commands,
               \/ \E action \in Actions : Send(d, action)
               \/ Check(d) \/ Transition(d) \/ Retry(d) \/ Refuse(d)
        PROVE  \A c \in Commands : cmd'[c].token = cmd[c].token \/ cmd'[c].token = token
    <2>1. ASSUME NEW action \in Actions, Send(d, action)
          PROVE  cmd'[d].token = token /\ \A c \in Commands : c # d => cmd'[c] = cmd[c]
      BY <2>1 DEF Send, TypeOK
    <2>2. ASSUME NEW at, cmd' = [cmd EXCEPT ![d].at = at]
          PROVE  cmd'[d].token = cmd[d].token /\ \A c \in Commands : c # d => cmd'[c] = cmd[c]
      BY <2>2 DEF TypeOK
    <2>3. ASSUME Check(d) \/ Transition(d) \/ Retry(d) \/ Refuse(d)
          PROVE  \E at : cmd' = [cmd EXCEPT ![d].at = at]
      BY <2>3 DEF Check, Transition, Retry, Refuse
    <2> QED BY <1>3, <2>1, <2>2, <2>3
  <1>4. \/ \E d \in Commands : \/ \E action \in Actions : Send(d, action)
                               \/ Check(d) \/ Transition(d) \/ Retry(d) \/ Refuse(d)
        \/ UNCHANGED cmd
    BY DEF Next, vars, Schedule, Ask, Begin, Work, Finish, Kill, OtherChange
  <1> QED BY <1>1, <1>2, <1>3, <1>4

\* Tokens seen stay below the fence, and a token names one scope.
LEMMA TokensStep ==
    TypeOK /\ TokensSeen /\ TokenNamesScope /\ [Next]_vars => TokensSeen' /\ TokenNamesScope'
  <1> SUFFICES ASSUME TypeOK, TokensSeen, TokenNamesScope, [Next]_vars
               PROVE  TokensSeen' /\ TokenNamesScope'
    OBVIOUS
  <1>1. token' \in Nat /\ token' >= token /\ token \in Nat
    BY TokenStep DEF TypeOK
  <1>2. /\ \A op \in Ops : claim[op].token \in Nat
        /\ \A c \in Commands : cmd[c].token \in Nat
    BY DEF TypeOK
  <1>3. TokensSeen'
    BY <1>1, <1>2, SeenStep DEF TokensSeen
  <1>4. TokenNamesScope'
    <2> SUFFICES ASSUME NEW op \in Ops, claim'[op].token = token'
                 PROVE  claim'[op].epoch = fenced' /\ claim'[op].disposition = disposition'
      BY DEF TokenNamesScope
    <2>1. token' = token
      BY <1>1, <1>2, SeenStep DEF TokensSeen
    <2> QED BY <2>1, SeenStep, TokenStep DEF TokenNamesScope
  <1> QED BY <1>3, <1>4

\* A resume that was checked and is still current still finds no lease that is
\* being released.
LEMMA ResumeStep ==
    TypeOK /\ TokensSeen /\ ResumeStillSafe /\ [Next]_vars => ResumeStillSafe'
  <1> SUFFICES ASSUME TypeOK, TokensSeen, ResumeStillSafe, [Next]_vars,
                      NEW c \in Commands, cmd'[c].at = "checked",
                      cmd'[c].action = "RESUME", cmd'[c].token = token'
               PROVE  \A op \in Ops : lease'[op] # "RELEASING"
    BY DEF ResumeStillSafe, SafeToResume
  <1>1. token' = token
    <2>1. token' \in Nat /\ token' >= token /\ token \in Nat
      BY TokenStep DEF TypeOK
    <2>2. cmd[c].token \in Nat /\ cmd[c].token <= token
      BY DEF TypeOK, TokensSeen
    <2>3. cmd'[c].token = cmd[c].token \/ cmd'[c].token = token
      BY SeenStep
    <2> QED BY <2>1, <2>2, <2>3
  <1>2. CASE Check(c)
    <2>1. SafeToResume
      BY <1>2 DEF Check, TypeOK
    <2> QED BY <1>1, <2>1, TokenStep DEF SafeToResume
  <1>3. CASE cmd'[c] = cmd[c]
    <2>1. SafeToResume
      BY <1>1, <1>3 DEF ResumeStillSafe
    <2> QED BY <1>1, <2>1, TokenStep DEF SafeToResume
  <1>4. ASSUME NEW d \in Commands,
               \/ \E action \in Actions : Send(d, action)
               \/ Transition(d) \/ Retry(d) \/ Refuse(d)
        PROVE  cmd'[c] = cmd[c]
    BY <1>4 DEF Send, Transition, Retry, Refuse, TypeOK
  <1>5. ASSUME NEW d \in Commands, d # c, Check(d) PROVE cmd'[c] = cmd[c]
    BY <1>5 DEF Check, TypeOK
  <1>6. \/ \E d \in Commands : \/ \E action \in Actions : Send(d, action)
                               \/ Check(d) \/ Transition(d) \/ Retry(d) \/ Refuse(d)
        \/ UNCHANGED cmd
    BY DEF Next, vars, Schedule, Ask, Begin, Work, Finish, Kill, OtherChange
  <1> QED BY <1>2, <1>3, <1>4, <1>5, <1>6

-----------------------------------------------------------------------------
\* The initial states have the types and the invariant.
LEMMA InitInv == Init => IInv
  <1> SUFFICES ASSUME Init PROVE IInv
    OBVIOUS
  <1>1. Unsent \in [at : {"unsent", "sent", "checked", "applied", "refused"},
                    action : Actions, version : Nat, token : Nat, epoch : Nat]
    BY DEF Unsent, Actions
  <1>2. Unbound \in [token : Nat, epoch : Nat, disposition : Dispositions]
    BY DEF Unbound, Dispositions
  <1>3. claim \in [Ops -> [token : Nat, epoch : Nat, disposition : Dispositions]]
    BY <1>2 DEF Init
  <1>4. cmd \in [Commands -> [at : {"unsent", "sent", "checked", "applied", "refused"},
                              action : Actions, version : Nat, token : Nat, epoch : Nat]]
    BY <1>1 DEF Init
  <1>5. TypeOK
    BY <1>3, <1>4 DEF Init, TypeOK, Dispositions
  <1>6. /\ \A op \in Ops : lease[op] = "none" /\ claim[op].token = 0
        /\ \A r \in Runners : pc[r] = "idle"
        /\ \A c \in Commands : cmd[c].at = "unsent" /\ cmd[c].token = 0
        /\ token = 1 /\ disposition = "RUNNING"
    BY DEF Init, Unbound, Unsent
  <1>7. Alone /\ EndsWithWork /\ WorkHoldsLease /\ StopReleasesAll
    BY <1>6 DEF Alone, EndsWithWork, WorkHoldsLease, StopReleasesAll
  <1>8. TokensSeen /\ TokenNamesScope /\ ResumeStillSafe
    BY <1>6 DEF TokensSeen, TokenNamesScope, ResumeStillSafe
  <1> QED BY <1>5, <1>7, <1>8 DEF IInv

\* The invariant holds at the start and is kept by every step.
THEOREM Inductive == ASSUME NoOverlap PROVE Spec => []IInv
  <1>1. ASSUME IInv, [Next]_vars PROVE IInv'
    BY <1>1, TypeStep, AloneStep, EndsStep, WorkStep, StopStep, TokensStep, ResumeStep, NoOverlap
       DEF IInv
  <1> QED BY <1>1, InitInv, PTL DEF Spec

\* The tables' columns and the callers' variables keep their types.
THEOREM TypeCorrect == Spec => []TypeOK
  <1>1. Init => TypeOK
    BY InitInv DEF IInv
  <1> QED BY <1>1, TypeStep, PTL DEF Spec

\* What is at work holds a lease, whoever was killed or refused before, so that
\* stop, retry and handoff see it (begin_operation, finish_operation).
THEOREM WorkIsLeased == ASSUME NoOverlap PROVE Spec => []WorkHoldsLease
  <1>1. IInv => WorkHoldsLease
    BY DEF IInv
  <1> QED BY <1>1, Inductive, NoOverlap, PTL

\* A stop asks everything to end, also what was admitted by a comparison that
\* preceded the stop (_transition, begin_operation).
THEOREM StopReachesAll == Spec => []StopReleasesAll
  <1>1. Init => TypeOK /\ StopReleasesAll
    BY InitInv DEF IInv
  <1>2. TypeOK /\ StopReleasesAll /\ [Next]_vars => (TypeOK /\ StopReleasesAll)'
    BY TypeStep, StopStep
  <1> QED BY <1>1, <1>2, PTL DEF Spec

\* The fence's token names one disposition and one epoch.
THEOREM TokenIsScope == Spec => []TokenNamesScope
  <1>1. Init => TypeOK /\ TokensSeen /\ TokenNamesScope
    BY InitInv DEF IInv
  <1>2. TypeOK /\ TokensSeen /\ TokenNamesScope /\ [Next]_vars
           => (TypeOK /\ TokensSeen /\ TokenNamesScope)'
    BY TypeStep, TokensStep
  <1> QED BY <1>1, <1>2, PTL DEF Spec

\* Only a transition changes the disposition; one to RUNNING is a resume that
\* was checked and is still current.
LEMMA ResumeCase ==
    ASSUME TypeOK, [Next]_vars, disposition # "RUNNING", disposition' = "RUNNING"
    PROVE  \E c \in Commands : /\ cmd[c].at = "checked" /\ cmd[c].action = "RESUME"
                               /\ cmd[c].token = token
  <1>1. PICK c \in Commands : Transition(c)
    BY DEF Next, vars, mission, Schedule, Ask, Begin, Work, Finish, Kill, Send, Check, Retry,
           Refuse, OtherChange
  <1>2. Target(cmd[c].action) = "RUNNING" /\ cmd[c].action \in Actions \ {"RETRY"}
    BY <1>1 DEF Transition, TypeOK
  <1>3. cmd[c].action = "RESUME"
    BY <1>2 DEF Target, Actions
  <1> QED BY <1>1, <1>3 DEF Transition, Current, SawAll

\* What is at work when the mission resumes was neither stopped nor superseded.
LEMMA BoundaryStep ==
    ASSUME IInv, [Next]_vars, disposition # "RUNNING", disposition' = "RUNNING",
           NEW r \in Runners, pc[r] = "running"
    PROVE  disposition = "PAUSED" /\ lease[Does[r]] = "ACTIVE"
  <1>1. SafeToResume
    BY ResumeCase DEF IInv, ResumeStillSafe
  <1>2. lease[Does[r]] = "ACTIVE"
    BY <1>1 DEF IInv, WorkHoldsLease, Open, SafeToResume
  <1>3. disposition # "STOPPED"
    BY <1>2 DEF IInv, StopReleasesAll
  <1> QED BY <1>2, <1>3 DEF IInv, TypeOK, Dispositions

\* A resume is accepted only at the safe boundary (apply, control_plane.py:664).
THEOREM ResumesAtBoundary == ASSUME NoOverlap PROVE Spec => ResumeAtBoundary
  <1> DEFINE Good == disposition # "RUNNING" /\ disposition' = "RUNNING" =>
                        \A r \in Runners : pc[r] = "running" =>
                            disposition = "PAUSED" /\ lease[Does[r]] = "ACTIVE"
  <1>1. IInv /\ [Next]_vars => Good
    BY BoundaryStep
  <1> HIDE DEF Good
  <1>2. Spec => [][Good]_vars
    BY <1>1, Inductive, NoOverlap, PTL DEF Spec
  <1> QED BY <1>2 DEF Good, ResumeAtBoundary

\* The operations at work change as the gate allows: one enters while the
\* mission runs, one leaves, or none changes.
LEMMA WorkMoves ==
    ASSUME TypeOK, [Next]_vars
    PROVE  /\ UNCHANGED epoch
           /\ \/ UNCHANGED AtWork
              \/ /\ disposition' = disposition
                 /\ \E r \in Runners : \/ disposition = "RUNNING" /\ AtWork' = AtWork \cup {r}
                                       \/ AtWork' = AtWork \ {r}
  <1>1. UNCHANGED epoch
    BY DEF Next, vars, mission, Schedule, Ask, Begin, Work, Finish, Kill, Send, Check,
           Transition, Retry, Refuse, OtherChange
  <1>2. ASSUME NEW r \in Runners, Begin(r), pc'[r] = "running"
        PROVE  /\ disposition' = disposition /\ disposition = "RUNNING"
               /\ AtWork' = AtWork \cup {r}
    BY <1>2 DEF Begin, StillAdmits, Admits, Refusal, mission, AtWork, TypeOK
  <1>3. ASSUME NEW r \in Runners, Work(r) \/ Kill(r)
        PROVE  disposition' = disposition /\ AtWork' = AtWork \ {r}
    BY <1>3 DEF Work, Kill, mission, AtWork, TypeOK
  <1>4. ASSUME NEW r \in Runners, \/ Ask(r) \/ Finish(r) \/ (Begin(r) /\ pc'[r] # "running")
        PROVE  UNCHANGED AtWork
    BY <1>4 DEF Ask, Finish, Begin, Refusal, AtWork, TypeOK
  <1>5. ASSUME UNCHANGED pc PROVE UNCHANGED AtWork
    BY <1>5 DEF AtWork
  <1> QED BY <1>1, <1>2, <1>3, <1>4, <1>5
          DEF Next, vars, executions, Schedule, Send, Check, Transition, Retry, Refuse, OtherChange

\* A transition turns the gate.
LEMMA TurnStep ==
    ASSUME IInv, NEW c \in Commands, Transition(c) PROVE Gate!Turn
  <1>1. [Next]_vars
    BY DEF Next
  <1>2. UNCHANGED AtWork /\ UNCHANGED epoch
    BY DEF Transition, executions, AtWork
  <1>3. <<disposition, disposition'>> \in Allowed
    BY DEF Transition
  <1>4. disposition # "RUNNING" /\ disposition' = "RUNNING" =>
           \A r \in Runners : pc[r] = "running" => disposition = "PAUSED"
    BY <1>1, BoundaryStep
  <1>5. disposition = "STOPPED" /\ disposition' = "RUNNING" => AtWork = {}
    BY <1>4 DEF AtWork
  <1> QED BY <1>2, <1>3, <1>5 DEF Gate!Turn, Mode, Allowed

\* A step of the fence is one of the gate, or none.
LEMMA GateStep == ASSUME IInv, [Next]_vars PROVE [Gate!Next]_Gate!vars
  <1>1. CASE \E c \in Commands : Transition(c)
    BY <1>1, TurnStep DEF Gate!Next
  <1>2. CASE UNCHANGED disposition
    <2>1. UNCHANGED Mode /\ UNCHANGED epoch
      BY <1>2, WorkMoves DEF Mode, IInv
    <2>2. CASE UNCHANGED AtWork
      BY <2>1, <2>2 DEF Gate!vars
    <2>3. ASSUME NEW r \in Runners, disposition = "RUNNING", AtWork' = AtWork \cup {r}
          PROVE  Gate!Enter(r)
      BY <2>1, <2>3 DEF Gate!Enter, Mode
    <2>4. ASSUME NEW r \in Runners, AtWork' = AtWork \ {r} PROVE Gate!Leave(r)
      BY <2>1, <2>4 DEF Gate!Leave
    <2> QED BY <2>2, <2>3, <2>4, WorkMoves DEF Gate!Next, IInv
  <1>3. \/ \E c \in Commands : Transition(c)
        \/ UNCHANGED disposition
    BY DEF Next, vars, mission, Schedule, Ask, Begin, Work, Finish, Kill, Send, Check, Retry,
           Refuse, OtherChange
  <1> QED BY <1>1, <1>2, <1>3

\* The fence implements the gate.
THEOREM Refinement == ASSUME NoOverlap PROVE Spec => RefinesGate
  <1>1. Init => Gate!Init
    BY DEF Init, Gate!Init, Mode, AtWork
  <1>2. IInv /\ [Next]_vars => [Gate!Next]_Gate!vars
    BY GateStep
  <1> QED BY <1>1, <1>2, Inductive, NoOverlap, PTL DEF Spec, RefinesGate, Gate!Spec

-----------------------------------------------------------------------------
(* Handoffs of the execution epoch (EpochHandoff). *)

Reports == [at : {"unsent", "sent", "checked", "applied", "refused"}, action : Actions,
            version : Nat, token : Nat, epoch : Nat]

\* What a handoff's activity does to the fence: it may bring it up to date, advance the
\* mission's version and epoch, and send a command.
LEMMA FenceKept ==
    ASSUME IInv, Reconcile \/ UNCHANGED <<fence, lease>>, UNCHANGED <<disposition, executions>>,
           version' \in Nat, epoch' \in Nat, cmd' \in [Commands -> Reports],
           \A c \in Commands : \/ cmd'[c] = cmd[c]
                               \/ cmd'[c].at # "checked" /\ cmd'[c].token <= token'
    PROVE  IInv' /\ token' >= token /\ \A op \in Ops : Asked(op)
  <1>1. TypeOK
    BY DEF IInv
  <1>2. /\ lease' \in [Ops -> LeaseStates] /\ token' \in Nat /\ token \in Nat
        /\ fenced' \in Nat /\ retried' \in BOOLEAN
        /\ \A op \in Ops : Asked(op)
        /\ \/ token' = token /\ fenced' = fenced /\ lease' = lease
           \/ token' = token + 1 /\ \A op \in Ops : lease'[op] # "ACTIVE"
    <2>1. CASE Reconcile
      BY <1>1, <2>1, ReconcileFacts DEF TypeOK
    <2>2. CASE UNCHANGED <<fence, lease>>
      BY <1>1, <2>2 DEF TypeOK, fence, LeaseStates, Asked
    <2> QED BY <2>1, <2>2
  <1>3. UNCHANGED <<claim, pc>> /\ token' >= token
    BY <1>2 DEF executions
  <1>4. TypeOK'
    BY <1>1, <1>2, <1>3 DEF TypeOK, LeaseStates, Reports
  <1>5. Alone' /\ EndsWithWork' /\ WorkHoldsLease' /\ StopReleasesAll'
    BY <1>2, <1>3 DEF IInv, Alone, EndsWithWork, WorkHoldsLease, StopReleasesAll, Asked, Open
  <1>6. /\ \A op \in Ops : claim[op].token \in Nat /\ claim[op].token <= token
        /\ \A c \in Commands : cmd[c].token \in Nat /\ cmd[c].token <= token
        /\ token > 0
    BY <1>1 DEF IInv, TypeOK, TokensSeen
  <1>7. TokensSeen'
    BY <1>2, <1>3, <1>6 DEF TokensSeen
  <1>8. TokenNamesScope'
    BY <1>2, <1>3, <1>6 DEF IInv, TokenNamesScope
  <1>9. ResumeStillSafe'
    BY <1>2, <1>3, <1>6 DEF IInv, ResumeStillSafe, SafeToResume
  <1> QED BY <1>2, <1>3, <1>4, <1>5, <1>7, <1>8, <1>9 DEF IInv

LEMMA HandoffTypes ==
    ASSUME HandoffInv
    PROVE  /\ TypeOK /\ request \in [Handoffs -> Requests]
           /\ \A h \in Handoffs : /\ request[h] \in Requests /\ request[h].version \in Nat
                                  /\ request[h].token \in Nat /\ request[h].epoch \in Nat
                                  /\ request[h].stopped \in Nat /\ request[h].result \in Nat
                                  /\ StopOf[h] \in Commands /\ ResumeOf[h] \in Commands
           /\ step \in [Activities -> {"idle", "clear", "scoped", "activated", "resuming", "over"}]
           /\ \A x \in Activities : Of[x] \in Handoffs
           /\ cmd \in [Commands -> Reports]
           /\ version \in Nat /\ token \in Nat /\ epoch \in Nat /\ disposition \in Dispositions
           /\ \A c \in Commands : cmd[c].version \in Nat
  BY HandoffAssumption DEF HandoffInv, HTypeOK, Requests, TypeOK, Reports

\* What goes on under the fence meanwhile is a step of the fence, which keeps the epoch,
\* moves the disposition only with the version, and leaves the derived commands unsent.
LEMMA FenceSteps ==
    ASSUME TypeOK, FenceNext
    PROVE  /\ [Next]_vars /\ UNCHANGED epoch
           /\ \/ UNCHANGED <<version, disposition>>
              \/ version' = version + 1
           /\ \A c \in Commands : cmd'[c].at = "applied" /\ cmd'[c].action = "STOP" =>
                 \/ cmd'[c] = cmd[c]
                 \/ version' = cmd'[c].version + 1 /\ disposition' = "STOPPED"
           /\ \A c \in OwnCommands \cap Commands :
                 /\ cmd[c].at = "unsent" => cmd'[c].at = "unsent"
                 /\ cmd[c].at # "unsent" => cmd'[c].action = cmd[c].action
  <1>1. [Next]_vars
    BY DEF FenceNext, Next
  <1>2. UNCHANGED epoch
    BY <1>1, WorkMoves
  <1>3. \/ UNCHANGED <<version, disposition>>
        \/ version' = version + 1
    BY DEF FenceNext, mission, Schedule, Ask, Begin, Work, Finish, Kill, Send, Check, Transition,
           Retry, Refuse, OtherChange
  <1>4. ASSUME NEW c \in Commands, NEW d \in Commands, Check(d) \/ Refuse(d) \/ Retry(d) \/ Transition(d)
        PROVE  /\ cmd'[c].at = "applied" /\ cmd'[c].action = "STOP" =>
                    \/ cmd'[c] = cmd[c]
                    \/ version' = cmd'[c].version + 1 /\ disposition' = "STOPPED"
               /\ cmd[c].at = "unsent" => cmd'[c].at = "unsent"
               /\ cmd'[c].action = cmd[c].action
    <2>1. PICK at : cmd' = [cmd EXCEPT ![d].at = at]
      BY <1>4 DEF Check, Refuse, Retry, Transition
    <2>2. cmd[d].at # "unsent"
      BY <1>4 DEF Check, Refuse, Retry, Transition
    <2>3. /\ c # d => cmd'[c] = cmd[c]
          /\ cmd'[c].action = cmd[c].action /\ cmd'[c].version = cmd[c].version
      BY <2>1 DEF TypeOK
    <2>4. CASE c = d /\ Transition(d)
      BY <2>2, <2>3, <2>4 DEF Transition, Current, SawAll, Target
    <2>5. CASE c = d /\ (Check(d) \/ Refuse(d))
      BY <2>2, <2>3, <2>5 DEF Check, Refuse, TypeOK
    <2>6. CASE c = d /\ Retry(d)
      BY <2>2, <2>3, <2>6 DEF Retry
    <2> QED BY <1>4, <2>3, <2>4, <2>5, <2>6
  <1>5. ASSUME NEW d \in Commands \ OwnCommands, NEW action \in Actions, Send(d, action),
               NEW c \in Commands
        PROVE  cmd'[c] = cmd[c] \/ (c \notin OwnCommands /\ cmd'[c].at = "sent")
    BY <1>5 DEF Send, TypeOK
  <1>6. \/ \E d \in Commands : Check(d) \/ Refuse(d) \/ Retry(d) \/ Transition(d)
        \/ \E d \in Commands \ OwnCommands, action \in Actions : Send(d, action)
        \/ UNCHANGED cmd
    BY DEF FenceNext, Schedule, Ask, Begin, Work, Finish, Kill, OtherChange
  <1> QED BY <1>1, <1>2, <1>3, <1>4, <1>5, <1>6

\* No lease is opened while the mission does not run.
LEMMA NothingOpens ==
    ASSUME TypeOK, [Next]_vars, disposition # "RUNNING", NEW op \in Ops, lease[op] \notin Open
    PROVE  lease'[op] \notin Open
  <1>1. ASSUME NEW r \in Runners, Begin(r) PROVE lease'[op] \notin Open
    BY <1>1 DEF Begin, StillAdmits, Admits
  <1>2. ASSUME NEW r \in Runners, Finish(r) PROVE lease'[op] \notin Open
    BY <1>2 DEF Finish, Finished, TypeOK, Open
  <1>3. CASE \A q \in Ops : Asked(q)
    BY <1>3 DEF Asked, Open
  <1> QED BY <1>1, <1>2, <1>3, LeaseStep

\* A step that replaces no epoch.
LEMMA ResultsStay ==
    ASSUME HandoffInv, HTypeOK', UNCHANGED epoch, Replaced' = Replaced,
           \A h \in Handoffs : request'[h].result = request[h].result,
           \A h \in Replaced : request'[h].epoch = request[h].epoch,
           \A x \in Activities : step'[x] \in {"activated", "resuming"} => Of[x] \in Replaced
    PROVE  OneEpochPerHandoff' /\ ResultsKept'
  <1>1. Replaced \subseteq Handoffs
    BY DEF Replaced
  <1> QED BY <1>1 DEF HandoffInv, OneEpochPerHandoff, ResultsKept

\* A step under which a handoff's stop still holds, as far as the version stays.
LEMMA StopsStay ==
    ASSUME HandoffInv, HTypeOK', token' >= token,
           \/ UNCHANGED <<version, disposition>>
           \/ version' = version + 1,
           \A c \in Commands : cmd'[c].at = "applied" /\ cmd'[c].action = "STOP" =>
              \/ cmd'[c] = cmd[c]
              \/ version' = cmd'[c].version + 1 /\ disposition' = "STOPPED",
           \A h \in Handoffs :
              /\ cmd'[StopOf[h]].at # "unsent" => cmd'[StopOf[h]].action = "STOP"
              /\ request'[h].token <= token'
              /\ request'[h].stage \in Prepared =>
                    \/ request[h].stage \in Prepared /\ request'[h].stopped = request[h].stopped
                    \/ /\ request'[h].stopped <= version'
                       /\ version' = request'[h].stopped => disposition' = "STOPPED",
           \A h \in Handoffs : request[h].stage \in Prepared =>
              request'[h].stage \in Prepared /\ request'[h].stopped = request[h].stopped,
           \A x \in Activities : step'[x] \in {"clear", "scoped"} =>
              request[Of[x]].stage \in Prepared /\ (step[x] \in {"clear", "scoped"} \/ BoundaryReached),
           \A op \in Ops : disposition = "STOPPED" /\ lease[op] \notin Open => lease'[op] \notin Open
    PROVE  StopsHold'
  <1>1. /\ version \in Nat /\ version' \in Nat
        /\ \A h \in Handoffs : /\ request[h].stopped \in Nat /\ request'[h].stopped \in Nat
                               /\ StopOf[h] \in Commands
        /\ \A c \in Commands : cmd[c].version \in Nat /\ cmd'[c].version \in Nat
        /\ \A x \in Activities : Of[x] \in Handoffs
    BY HandoffTypes, HandoffAssumption DEF HTypeOK, TypeOK, Requests
  <1>2. ASSUME NEW c \in Commands, cmd'[c].at = "applied", cmd'[c].action = "STOP"
        PROVE  /\ cmd'[c].version < version'
               /\ version' = cmd'[c].version + 1 => disposition' = "STOPPED"
    <2>1. CASE cmd'[c] = cmd[c]
      <3>1. cmd[c].version < version /\ (version = cmd[c].version + 1 => disposition = "STOPPED")
        BY <1>2, <2>1 DEF HandoffInv, StopsHold
      <3> QED BY <1>1, <2>1, <3>1
    <2>2. CASE version' = cmd'[c].version + 1 /\ disposition' = "STOPPED"
      BY <1>1, <2>2
    <2> QED BY <1>2, <2>1, <2>2
  <1>3. ASSUME NEW h \in Handoffs, request'[h].stage \in Prepared
        PROVE  /\ request'[h].stopped <= version'
               /\ version' = request'[h].stopped => disposition' = "STOPPED"
    <2>1. CASE request[h].stage \in Prepared /\ request'[h].stopped = request[h].stopped
      <3>1. /\ request[h].stopped <= version
            /\ version = request[h].stopped => disposition = "STOPPED"
        BY <2>1 DEF HandoffInv, StopsHold
      <3> QED BY <1>1, <2>1, <3>1
    <2> QED BY <1>3, <2>1
  <1>4. ASSUME NEW x \in Activities, step'[x] \in {"clear", "scoped"}
        PROVE  /\ request'[Of[x]].stage \in Prepared
               /\ version' = request'[Of[x]].stopped => BoundaryReached'
    <2>1. /\ request[Of[x]].stage \in Prepared /\ request'[Of[x]].stage \in Prepared
          /\ request'[Of[x]].stopped = request[Of[x]].stopped
          /\ step[x] \in {"clear", "scoped"} \/ BoundaryReached
      BY <1>1, <1>4
    <2>2. ASSUME version' = request'[Of[x]].stopped PROVE BoundaryReached'
      <3>1. /\ request[Of[x]].stopped <= version
            /\ version = request[Of[x]].stopped => disposition = "STOPPED"
        BY <1>1, <2>1 DEF HandoffInv, StopsHold
      <3>2. version = request[Of[x]].stopped /\ disposition = "STOPPED"
        BY <1>1, <2>1, <2>2, <3>1
      <3>3. BoundaryReached
        BY <2>1, <3>2 DEF HandoffInv, StopsHold
      <3> QED BY <3>2, <3>3 DEF BoundaryReached, Open
    <2> QED BY <2>1, <2>2
  <1> QED BY <1>2, <1>3, <1>4 DEF StopsHold

LEMMA HandoffInit == HInit => IInv /\ HandoffInv
  <1> SUFFICES ASSUME HInit PROVE IInv /\ HandoffInv
    OBVIOUS
  <1>1. IInv
    BY InitInv DEF HInit
  <1>2. NoRequest \in Requests /\ NoRequest.stage = "none" /\ NoRequest.result = 0
        /\ NoRequest.token = 0
    BY DEF NoRequest, Requests
  <1>3. HTypeOK
    BY <1>1, <1>2 DEF HInit, HTypeOK, IInv
  <1>4. Replaced = {} /\ epoch = 1 /\ token = 1
    BY <1>2 DEF HInit, Replaced, Init
  <1>5. OneEpochPerHandoff /\ ResultsKept
    BY <1>2, <1>4, FS_EmptySet DEF OneEpochPerHandoff, ResultsKept, HInit
  <1>6. \A c \in Commands : cmd[c].at = "unsent"
    BY DEF HInit, Init, Unsent
  <1>7. StopsHold
    BY <1>2, <1>4, <1>6, HandoffAssumption DEF StopsHold, HInit, Prepared
  <1> QED BY <1>1, <1>3, <1>5, <1>7 DEF HandoffInv

LEMMA FenceMoves ==
    ASSUME NoOverlap, IInv, HandoffInv, FenceNext, UNCHANGED <<request, step>>
    PROVE  IInv' /\ HandoffInv'
  <1>1. [Next]_vars /\ UNCHANGED epoch
    BY FenceSteps DEF IInv
  <1>2. IInv'
    BY <1>1, TypeStep, AloneStep, EndsStep, WorkStep, StopStep, TokensStep, ResumeStep, NoOverlap
       DEF IInv
  <1>3. HTypeOK'
    BY <1>2 DEF IInv, HandoffInv, HTypeOK
  <1>4. OneEpochPerHandoff' /\ ResultsKept'
    BY <1>1 DEF HandoffInv, OneEpochPerHandoff, ResultsKept, Replaced
  <1>5. token' >= token
    BY <1>1, TokenStep DEF IInv
  <1>6. ASSUME NEW op \in Ops, disposition = "STOPPED", lease[op] \notin Open
        PROVE  lease'[op] \notin Open
    BY <1>1, <1>6, NothingOpens DEF IInv
  <1>7. \A h \in Handoffs : cmd'[StopOf[h]].at # "unsent" => cmd'[StopOf[h]].action = "STOP"
    <2> SUFFICES ASSUME NEW h \in Handoffs, cmd'[StopOf[h]].at # "unsent"
                 PROVE  cmd'[StopOf[h]].action = "STOP"
      OBVIOUS
    <2>1. StopOf[h] \in OwnCommands \cap Commands
      BY HandoffAssumption DEF OwnCommands
    <2>2. cmd[StopOf[h]].at # "unsent" /\ cmd'[StopOf[h]].action = cmd[StopOf[h]].action
      BY <2>1, FenceSteps DEF IInv
    <2> QED BY <2>2 DEF HandoffInv, StopsHold
  <1>8. \A h \in Handoffs : request'[h].token <= token'
    <2>1. \A h \in Handoffs : request[h].token <= token /\ request[h].token \in Nat
      BY HandoffTypes DEF HandoffInv, StopsHold
    <2>2. token \in Nat /\ token' \in Nat
      BY <1>2 DEF IInv, TypeOK
    <2> QED BY <1>5, <2>1, <2>2
  <1>9. \A x \in Activities : step'[x] \in {"clear", "scoped"} =>
              request[Of[x]].stage \in Prepared /\ (step[x] \in {"clear", "scoped"} \/ BoundaryReached)
    BY DEF HandoffInv, StopsHold
  <1>10. /\ \/ UNCHANGED <<version, disposition>>
            \/ version' = version + 1
         /\ \A c \in Commands : cmd'[c].at = "applied" /\ cmd'[c].action = "STOP" =>
               \/ cmd'[c] = cmd[c]
               \/ version' = cmd'[c].version + 1 /\ disposition' = "STOPPED"
    BY FenceSteps DEF IInv
  <1>11. /\ \A h \in Handoffs : request'[h].stage \in Prepared =>
                request[h].stage \in Prepared /\ request'[h].stopped = request[h].stopped
         /\ \A h \in Handoffs : request[h].stage \in Prepared =>
                request'[h].stage \in Prepared /\ request'[h].stopped = request[h].stopped
    OBVIOUS
  <1>12. StopsHold'
    BY <1>3, <1>5, <1>6, <1>7, <1>8, <1>9, <1>10, <1>11, StopsStay
  <1> QED BY <1>2, <1>3, <1>4, <1>12 DEF HandoffInv

\* A handoff is authorized, or its stop prepared.
LEMMA HandoffsBegin ==
    ASSUME IInv, HandoffInv, NEW h \in Handoffs, Authorize(h) \/ Prepare(h)
    PROVE  IInv' /\ HandoffInv'
  <1>1. IInv' /\ UNCHANGED <<vars, step>>
    BY DEF Authorize, Prepare, vars, IInv, TypeOK, Alone, EndsWithWork, WorkHoldsLease, StopReleasesAll,
           TokensSeen, TokenNamesScope, ResumeStillSafe, SafeToResume
  <1>2. UNCHANGED <<version, disposition, epoch, token, lease, cmd, step>>
    BY <1>1 DEF vars
  <1>3. /\ request \in [Handoffs -> Requests] /\ request[h] \in Requests
        /\ version \in Nat /\ token \in Nat /\ epoch \in Nat
        /\ StopOf[h] \in Commands /\ cmd \in [Commands -> Reports] /\ cmd[StopOf[h]].version \in Nat
        /\ cmd[StopOf[h]].token \in Nat
    BY HandoffTypes DEF Reports
  <1>4. PICK s \in Requests :
           /\ request' = [request EXCEPT ![h] = s]
           /\ request[h].stage \in {"none", "authorized"} /\ s.stage \in {"authorized", "prepared"}
           /\ s.result = request[h].result /\ s.token <= token
           /\ s.stage = "prepared" => /\ cmd[StopOf[h]].at = "applied"
                                      /\ s.stopped = cmd[StopOf[h]].version + 1
    <2>1. CASE Authorize(h)
      <3> DEFINE s == [request[h] EXCEPT !.stage = "authorized", !.version = version,
                                        !.token = token, !.epoch = epoch]
      <3>1. /\ request' = [request EXCEPT ![h] = s] /\ request[h].stage = "none"
        BY <2>1 DEF Authorize
      <3>2. /\ s \in Requests /\ s.stage = "authorized" /\ s.result = request[h].result
            /\ s.token = token
        BY <1>3 DEF Requests
      <3> HIDE DEF s
      <3>3. s.token <= token
        BY <1>3, <3>2
      <3> QED BY <3>1, <3>2, <3>3
    <2>2. CASE Prepare(h)
      <3> DEFINE m == cmd[StopOf[h]].version + 1
                 n == cmd[StopOf[h]].token + 1
                 s == [request[h] EXCEPT !.stage = "prepared", !.stopped = m, !.stopToken = n]
      <3>1. /\ request' = [request EXCEPT ![h] = s] /\ request[h].stage = "authorized"
            /\ cmd[StopOf[h]].at = "applied"
        BY <2>2 DEF Prepare
      <3>2. m \in Nat /\ n \in Nat
        BY <1>3
      <3> HIDE DEF m, n
      <3>3. /\ s \in Requests /\ s.stage = "prepared" /\ s.result = request[h].result
            /\ s.token = request[h].token /\ s.stopped = m
        BY <1>3, <3>2 DEF Requests, Prepared
      <3> HIDE DEF s
      <3>4. s.token <= token
        BY <3>3 DEF HandoffInv, StopsHold
      <3> QED BY <3>1, <3>3, <3>4 DEF m
    <2> QED BY <2>1, <2>2
  <1>5. /\ request' \in [Handoffs -> Requests]
        /\ \A i \in Handoffs : request'[i] = IF i = h THEN s ELSE request[i]
    BY <1>3, <1>4
  <1>6. HTypeOK'
    BY <1>1, <1>2, <1>5 DEF IInv, HandoffInv, HTypeOK
  <1>7. h \notin Replaced /\ Replaced' = Replaced
    BY <1>4, <1>5 DEF Replaced
  <1>8. OneEpochPerHandoff' /\ ResultsKept'
    <2>1. \A i \in Handoffs : request'[i].result = request[i].result
      BY <1>4, <1>5
    <2>2. \A i \in Replaced : request'[i].epoch = request[i].epoch
      BY <1>5, <1>7 DEF Replaced
    <2>3. \A x \in Activities : step'[x] \in {"activated", "resuming"} => Of[x] \in Replaced
      BY <1>2 DEF HandoffInv, ResultsKept
    <2> QED BY <1>2, <1>6, <1>7, <2>1, <2>2, <2>3, ResultsStay
  <1>9. StopsHold'
    <2>1. s.stage \in Prepared =>
             s.stopped <= version /\ (version = s.stopped => disposition = "STOPPED")
      <3> SUFFICES ASSUME s.stage \in Prepared
                   PROVE  s.stopped <= version /\ (version = s.stopped => disposition = "STOPPED")
        OBVIOUS
      <3>1. cmd[StopOf[h]].at = "applied" /\ s.stopped = cmd[StopOf[h]].version + 1
        BY <1>4 DEF Prepared
      <3>2. cmd[StopOf[h]].action = "STOP"
        BY <3>1 DEF HandoffInv, StopsHold
      <3>3. /\ cmd[StopOf[h]].version < version
            /\ version = cmd[StopOf[h]].version + 1 => disposition = "STOPPED"
        BY <1>3, <3>1, <3>2 DEF HandoffInv, StopsHold
      <3> QED BY <1>3, <3>1, <3>3
    <2>2. \A i \in Handoffs :
             /\ cmd'[StopOf[i]].at # "unsent" => cmd'[StopOf[i]].action = "STOP"
             /\ request'[i].token <= token'
      BY <1>2, <1>4, <1>5 DEF HandoffInv, StopsHold
    <2>3. \A i \in Handoffs : request'[i].stage \in Prepared =>
             \/ request[i].stage \in Prepared /\ request'[i].stopped = request[i].stopped
             \/ /\ request'[i].stopped <= version'
                /\ version' = request'[i].stopped => disposition' = "STOPPED"
      BY <1>2, <1>5, <2>1
    <2>4. \A i \in Handoffs : request[i].stage \in Prepared =>
             request'[i].stage \in Prepared /\ request'[i].stopped = request[i].stopped
      BY <1>4, <1>5 DEF Prepared
    <2>5. \A x \in Activities : step'[x] \in {"clear", "scoped"} =>
             request[Of[x]].stage \in Prepared /\ (step[x] \in {"clear", "scoped"} \/ BoundaryReached)
      BY <1>2 DEF HandoffInv, StopsHold
    <2> QED BY <1>2, <1>3, <1>6, <2>2, <2>3, <2>4, <2>5, StopsStay
  <1> QED BY <1>1, <1>6, <1>8, <1>9 DEF HandoffInv

\* An activity of a handoff, or the handoff itself, sends a command, which nobody
\* has compared yet; the requests stay.
LEMMA ActivitiesMove ==
    ASSUME IInv, HandoffInv, Reconcile \/ UNCHANGED <<fence, lease>>,
           UNCHANGED <<mission, executions, request>>,
           step' \in [Activities -> {"idle", "clear", "scoped", "activated", "resuming", "over"}],
           cmd' \in [Commands -> Reports],
           \A c \in Commands : \/ cmd'[c] = cmd[c]
                               \/ /\ cmd'[c].at = "sent" /\ cmd'[c].token <= token'
                                  /\ \A h \in Handoffs : c = StopOf[h] => cmd'[c].action = "STOP",
           \A x \in Activities : step'[x] \in {"clear", "scoped"} =>
              request[Of[x]].stage \in Prepared /\ (step[x] \in {"clear", "scoped"} \/ BoundaryReached),
           \A x \in Activities : step'[x] \in {"activated", "resuming"} =>
              step[x] \in {"activated", "resuming"}
    PROVE  IInv' /\ HandoffInv'
  <1>1. version' = version /\ disposition' = disposition /\ epoch' = epoch
        /\ version \in Nat /\ epoch \in Nat
    BY HandoffTypes DEF mission
  <1>2. IInv' /\ token' >= token /\ \A op \in Ops : Asked(op)
    BY <1>1, FenceKept DEF mission
  <1>3. HTypeOK'
    BY <1>2 DEF IInv, HandoffInv, HTypeOK
  <1>4. OneEpochPerHandoff' /\ ResultsKept'
    BY <1>1 DEF HandoffInv, OneEpochPerHandoff, ResultsKept, Replaced
  <1>5. \A c \in Commands : cmd'[c].at = "applied" /\ cmd'[c].action = "STOP" => cmd'[c] = cmd[c]
    OBVIOUS
  <1>6. \A h \in Handoffs :
           /\ cmd'[StopOf[h]].at # "unsent" => cmd'[StopOf[h]].action = "STOP"
           /\ request'[h].token <= token'
    <2>1. \A h \in Handoffs : cmd'[StopOf[h]].at # "unsent" => cmd'[StopOf[h]].action = "STOP"
      BY HandoffTypes DEF HandoffInv, StopsHold
    <2>2. \A h \in Handoffs : request[h].token <= token /\ request[h].token \in Nat
      BY HandoffTypes DEF HandoffInv, StopsHold
    <2>3. token \in Nat /\ token' \in Nat
      BY <1>2, HandoffTypes DEF IInv, TypeOK
    <2> QED BY <1>2, <2>1, <2>2, <2>3
  <1>7. \A op \in Ops : disposition = "STOPPED" /\ lease[op] \notin Open => lease'[op] \notin Open
    BY <1>2 DEF Asked, Open
  <1>8. StopsHold'
    BY <1>1, <1>2, <1>3, <1>5, <1>6, <1>7, StopsStay
  <1> QED BY <1>2, <1>3, <1>4, <1>8 DEF HandoffInv

LEMMA StopsAreSent ==
    ASSUME IInv, HandoffInv, NEW h \in Handoffs, SendStop(h) PROVE IInv' /\ HandoffInv'
  <1> DEFINE new == [at |-> "sent", action |-> "STOP", version |-> request[h].version,
                     token |-> request[h].token, epoch |-> request[h].epoch]
  <1>1. /\ StopOf[h] \in Commands /\ cmd \in [Commands -> Reports]
        /\ request[h].version \in Nat /\ request[h].token \in Nat /\ request[h].epoch \in Nat
        /\ step \in [Activities -> {"idle", "clear", "scoped", "activated", "resuming", "over"}]
    BY HandoffTypes
  <1>2. cmd' = [cmd EXCEPT ![StopOf[h]] = new] /\ UNCHANGED <<mission, fence, lease, executions, request, step>>
    BY DEF SendStop
  <1>3. new \in Reports /\ new.at = "sent" /\ new.action = "STOP" /\ new.token <= token
    BY <1>1 DEF Reports, Actions, HandoffInv, StopsHold
  <1> HIDE DEF new
  <1>4. token' = token
    BY <1>2 DEF fence
  <1>5. cmd' \in [Commands -> Reports] /\ \A c \in Commands : cmd'[c] = IF c = StopOf[h] THEN new ELSE cmd[c]
    BY <1>1, <1>2, <1>3
  <1>6. \A x \in Activities : step'[x] \in {"clear", "scoped"} =>
              request[Of[x]].stage \in Prepared /\ (step[x] \in {"clear", "scoped"} \/ BoundaryReached)
    BY <1>2 DEF HandoffInv, StopsHold
  <1> QED BY <1>1, <1>2, <1>3, <1>4, <1>5, <1>6, ActivitiesMove

LEMMA BoundariesAreSeen ==
    ASSUME IInv, HandoffInv, NEW x \in Activities,
           SeeBoundary(x) \/ SeeScope(x) \/ KillActivity(x)
    PROVE  IInv' /\ HandoffInv'
  <1>1. /\ step \in [Activities -> {"idle", "clear", "scoped", "activated", "resuming", "over"}]
        /\ cmd \in [Commands -> Reports]
    BY HandoffTypes
  <1>2. PICK s \in {"clear", "scoped", "over"} :
           /\ step' = [step EXCEPT ![x] = s]
           /\ s = "clear" => request[Of[x]].stage \in Prepared /\ BoundaryReached
           /\ s = "scoped" => step[x] = "clear"
    BY DEF SeeBoundary, SeeScope, KillActivity, Prepared
  <1>3. Reconcile \/ UNCHANGED <<fence, lease>>
    BY DEF SeeBoundary, SeeScope, KillActivity, vars, fence
  <1>4. UNCHANGED <<mission, executions, request, cmd>>
    BY DEF SeeBoundary, SeeScope, KillActivity, vars, mission, executions
  <1>5. /\ step' \in [Activities -> {"idle", "clear", "scoped", "activated", "resuming", "over"}]
        /\ \A y \in Activities : step'[y] = IF y = x THEN s ELSE step[y]
    BY <1>1, <1>2
  <1>6. \A y \in Activities : step'[y] \in {"clear", "scoped"} =>
              request[Of[y]].stage \in Prepared /\ (step[y] \in {"clear", "scoped"} \/ BoundaryReached)
    BY <1>2, <1>5 DEF HandoffInv, StopsHold
  <1>7. \A y \in Activities : step'[y] \in {"activated", "resuming"} => step[y] \in {"activated", "resuming"}
    BY <1>2, <1>5
  <1> QED BY <1>1, <1>3, <1>4, <1>5, <1>6, <1>7, ActivitiesMove

LEMMA ResumesAreSent ==
    ASSUME IInv, HandoffInv, NEW x \in Activities, SendResume(x) PROVE IInv' /\ HandoffInv'
  <1> DEFINE h == Of[x]
             sent == [at |-> "sent", action |-> "RESUME", version |-> version,
                      token |-> token', epoch |-> request[h].result]
             new == IF cmd[ResumeOf[h]].at = "applied" THEN cmd[ResumeOf[h]] ELSE sent
  <1>1. /\ h \in Handoffs /\ ResumeOf[h] \in Commands /\ cmd \in [Commands -> Reports]
        /\ version \in Nat /\ request[h].result \in Nat /\ TypeOK
        /\ step \in [Activities -> {"idle", "clear", "scoped", "activated", "resuming", "over"}]
    BY HandoffTypes
  <1>2. /\ cmd' = [cmd EXCEPT ![ResumeOf[h]] = new] /\ Reconcile
        /\ step' = [step EXCEPT ![x] = "resuming"] /\ step[x] = "activated"
        /\ UNCHANGED <<mission, executions, request>>
    BY DEF SendResume, ResumeToken
  <1>3. token' \in Nat
    BY <1>1, <1>2, ReconcileFacts
  <1>4. sent \in Reports /\ sent.at = "sent" /\ sent.token <= token'
    BY <1>1, <1>3 DEF Reports, Actions
  <1> HIDE DEF sent
  <1>5. /\ cmd' \in [Commands -> Reports]
        /\ \A c \in Commands : cmd'[c] = cmd[c] \/ (c = ResumeOf[h] /\ cmd'[c] = sent)
    BY <1>1, <1>2, <1>4
  <1>6. \A i \in Handoffs : ResumeOf[h] # StopOf[i]
    BY <1>1, HandoffAssumption
  <1>7. /\ step' \in [Activities -> {"idle", "clear", "scoped", "activated", "resuming", "over"}]
        /\ \A y \in Activities : step'[y] = IF y = x THEN "resuming" ELSE step[y]
    BY <1>1, <1>2
  <1>8. \A y \in Activities : step'[y] \in {"clear", "scoped"} =>
              request[Of[y]].stage \in Prepared /\ (step[y] \in {"clear", "scoped"} \/ BoundaryReached)
    BY <1>7 DEF HandoffInv, StopsHold
  <1>9. \A y \in Activities : step'[y] \in {"activated", "resuming"} => step[y] \in {"activated", "resuming"}
    BY <1>2, <1>7
  <1> QED BY <1>2, <1>4, <1>5, <1>6, <1>7, <1>8, <1>9, ActivitiesMove

LEMMA ResultsAreRecorded ==
    ASSUME IInv, HandoffInv, NEW x \in Activities, Record(x) PROVE IInv' /\ HandoffInv'
  <1>1. /\ request \in [Handoffs -> Requests] /\ Of[x] \in Handoffs
        /\ request[Of[x]] \in Requests /\ token \in Nat
        /\ step \in [Activities -> {"idle", "clear", "scoped", "activated", "resuming", "over"}]
    BY HandoffTypes
  <1>2. UNCHANGED vars /\ step[x] = "resuming" /\ step' = [step EXCEPT ![x] = "over"]
    BY DEF Record
  <1>3. IInv' /\ UNCHANGED <<version, disposition, epoch, token, lease, cmd>>
    BY <1>2 DEF vars, IInv, TypeOK, Alone, EndsWithWork, WorkHoldsLease, StopReleasesAll,
           TokensSeen, TokenNamesScope, ResumeStillSafe, SafeToResume
  <1>4. /\ \A y \in Activities : step'[y] = IF y = x THEN "over" ELSE step[y]
        /\ step' \in [Activities -> {"idle", "clear", "scoped", "activated", "resuming", "over"}]
    BY <1>1, <1>2
  <1>5. Of[x] \in Replaced
    BY <1>2 DEF HandoffInv, ResultsKept
  <1>6. PICK s \in Requests :
           /\ request' = [request EXCEPT ![Of[x]] = s]
           /\ s.stage \in {"activated", "completed"} /\ s.result = request[Of[x]].result
           /\ s.epoch = request[Of[x]].epoch /\ s.token = request[Of[x]].token
           /\ s.stopped = request[Of[x]].stopped
    <2>1. CASE request' = [request EXCEPT ![Of[x]].stage = "completed"]
      <3> DEFINE s == [request[Of[x]] EXCEPT !.stage = "completed"]
      <3>1. request' = [request EXCEPT ![Of[x]] = s]
        BY <2>1
      <3>2. /\ s \in Requests /\ s.stage = "completed" /\ s.result = request[Of[x]].result
            /\ s.epoch = request[Of[x]].epoch /\ s.token = request[Of[x]].token
            /\ s.stopped = request[Of[x]].stopped
        BY <1>1 DEF Requests, Prepared
      <3> HIDE DEF s
      <3> QED BY <3>1, <3>2
    <2>2. CASE UNCHANGED request
      <3>1. request' = [request EXCEPT ![Of[x]] = request[Of[x]]]
        BY <1>1, <2>2
      <3> QED BY <1>1, <1>5, <3>1 DEF Replaced
    <2> QED BY <2>1, <2>2 DEF Record
  <1>7. /\ request' \in [Handoffs -> Requests]
        /\ \A i \in Handoffs : request'[i] = IF i = Of[x] THEN s ELSE request[i]
    BY <1>1, <1>6
  <1>8. HTypeOK'
    BY <1>3, <1>4, <1>7 DEF IInv, HandoffInv, HTypeOK
  <1>9. Replaced' = Replaced
    BY <1>5, <1>6, <1>7 DEF Replaced
  <1>10. OneEpochPerHandoff' /\ ResultsKept'
    <2>1. /\ \A i \in Handoffs : request'[i].result = request[i].result
          /\ \A i \in Handoffs : request'[i].epoch = request[i].epoch
          /\ Replaced \subseteq Handoffs
      BY <1>6, <1>7 DEF Replaced
    <2>2. \A y \in Activities : step'[y] \in {"activated", "resuming"} => Of[y] \in Replaced
      BY <1>4 DEF HandoffInv, ResultsKept
    <2> QED BY <1>3, <1>8, <1>9, <2>1, <2>2, ResultsStay
  <1>11. StopsHold'
    <2>1. \A i \in Handoffs :
             /\ cmd'[StopOf[i]].at # "unsent" => cmd'[StopOf[i]].action = "STOP"
             /\ request'[i].token <= token'
      BY <1>3, <1>6, <1>7 DEF HandoffInv, StopsHold
    <2>2. request[Of[x]].stage \in Prepared /\ s.stage \in Prepared
      BY <1>5, <1>6 DEF Replaced, Prepared
    <2>3. \A i \in Handoffs : request'[i].stage \in Prepared =>
             request[i].stage \in Prepared /\ request'[i].stopped = request[i].stopped
      BY <1>6, <1>7, <2>2
    <2>4. \A i \in Handoffs : request[i].stage \in Prepared =>
             request'[i].stage \in Prepared /\ request'[i].stopped = request[i].stopped
      BY <1>6, <1>7, <2>2
    <2>5. \A y \in Activities : step'[y] \in {"clear", "scoped"} =>
             request[Of[y]].stage \in Prepared /\ (step[y] \in {"clear", "scoped"} \/ BoundaryReached)
      BY <1>4 DEF HandoffInv, StopsHold
    <2> QED BY <1>1, <1>3, <1>8, <2>1, <2>3, <2>4, <2>5, StopsStay
  <1> QED BY <1>3, <1>8, <1>10, <1>11 DEF HandoffInv

\* What is true when an epoch is replaced: the mission is stopped and nothing is at work.
LEMMA AtTheBoundary ==
    ASSUME IInv, HandoffInv, NEW x \in Activities, Activate(x), epoch' # epoch
    PROVE  /\ request[Of[x]].result = 0 /\ Of[x] \notin Replaced /\ step[x] = "scoped"
           /\ epoch = request[Of[x]].epoch /\ epoch' = epoch + 1
           /\ disposition = "STOPPED"
           /\ \A op \in Ops : lease[op] \notin Open
           /\ \A r \in Runners : pc[r] # "running"
  <1>1. /\ request[Of[x]].result = 0 /\ Activates(Of[x]) /\ step[x] = "scoped"
        /\ epoch' = epoch + 1
    BY DEF Activate
  <1>2. Of[x] \in Handoffs /\ \A h \in Handoffs : request[h].epoch \in Nat
    BY HandoffTypes
  <1>3. Of[x] \notin Replaced
    BY <1>1, <1>2 DEF HandoffInv, OneEpochPerHandoff
  <1>4. version = request[Of[x]].stopped /\ epoch = request[Of[x]].epoch
    BY <1>1 DEF Activates
  <1>5. request[Of[x]].stage \in Prepared /\ BoundaryReached
    BY <1>1, <1>4 DEF HandoffInv, StopsHold
  <1>6. disposition = "STOPPED"
    BY <1>2, <1>4, <1>5 DEF HandoffInv, StopsHold
  <1>7. \A op \in Ops : lease[op] \notin Open
    BY <1>5 DEF BoundaryReached
  <1>8. \A r \in Runners : pc[r] # "running"
    BY <1>7 DEF IInv, WorkHoldsLease
  <1> QED BY <1>1, <1>3, <1>4, <1>6, <1>7, <1>8

LEMMA EpochsAreActivated ==
    ASSUME IInv, HandoffInv, NEW x \in Activities, Activate(x) PROVE IInv' /\ HandoffInv'
  <1>1. /\ request \in [Handoffs -> Requests] /\ Of[x] \in Handoffs
        /\ request[Of[x]] \in Requests /\ token \in Nat /\ version \in Nat /\ epoch \in Nat
        /\ cmd \in [Commands -> Reports]
        /\ step \in [Activities -> {"idle", "clear", "scoped", "activated", "resuming", "over"}]
    BY HandoffTypes
  <1>2. UNCHANGED <<disposition, fence, lease, executions, cmd>> /\ step[x] = "scoped"
    BY DEF Activate
  <1>3. UNCHANGED <<token, lease>>
    BY <1>2 DEF fence
  <1>4. CASE request[Of[x]].result = 0 /\ Activates(Of[x])
    <2>1. /\ version' = version + 1 /\ epoch' = epoch + 1
          /\ step' = [step EXCEPT ![x] = "activated"]
      BY <1>4 DEF Activate
    <2>2. PICK s \in Requests :
             /\ request' = [request EXCEPT ![Of[x]] = s]
             /\ s.stage = "activated" /\ s.result = epoch + 1
             /\ s.epoch = request[Of[x]].epoch /\ s.token = request[Of[x]].token
             /\ s.stopped = request[Of[x]].stopped
      <3> DEFINE e == epoch + 1
                 s == [request[Of[x]] EXCEPT !.stage = "activated", !.result = e]
      <3>1. request' = [request EXCEPT ![Of[x]] = s]
        BY <1>4 DEF Activate
      <3>2. e \in Nat
        BY <1>1
      <3> HIDE DEF e
      <3>3. /\ s \in Requests /\ s.stage = "activated" /\ s.result = e
            /\ s.epoch = request[Of[x]].epoch /\ s.token = request[Of[x]].token
            /\ s.stopped = request[Of[x]].stopped
        BY <1>1, <3>2 DEF Requests, Prepared
      <3> HIDE DEF s
      <3> QED BY <3>1, <3>3 DEF e
    <2>3. /\ request' \in [Handoffs -> Requests]
          /\ \A i \in Handoffs : request'[i] = IF i = Of[x] THEN s ELSE request[i]
          /\ step' \in [Activities -> {"idle", "clear", "scoped", "activated", "resuming", "over"}]
          /\ \A y \in Activities : step'[y] = IF y = x THEN "activated" ELSE step[y]
      BY <1>1, <2>1, <2>2
    <2>4. IInv'
      BY <1>1, <1>2, <2>1, FenceKept
    <2>5. HTypeOK'
      BY <2>3, <2>4 DEF IInv, HandoffInv, HTypeOK
    <2>6. Of[x] \notin Replaced /\ epoch = request[Of[x]].epoch
      BY <1>1, <2>1, AtTheBoundary
    <2>7. Replaced' = Replaced \cup {Of[x]} /\ Replaced \subseteq Handoffs
      BY <1>1, <2>2, <2>3 DEF Replaced
    <2>8. IsFiniteSet(Replaced') /\ Cardinality(Replaced') = Cardinality(Replaced) + 1
      BY <2>6, <2>7, FS_AddElement DEF HandoffInv, ResultsKept
    <2>9. Cardinality(Replaced) \in Nat
      BY FS_CardinalityType DEF HandoffInv, ResultsKept
    <2>10. \A i \in Replaced : /\ request'[i] = request[i] /\ request[i].result \in Nat
                               /\ request[i].result <= epoch /\ request[i].result # 0
                               /\ request[i].result = request[i].epoch + 1
      <3> SUFFICES ASSUME NEW i \in Replaced
                   PROVE  /\ request'[i] = request[i] /\ request[i].result \in Nat
                          /\ request[i].result <= epoch /\ request[i].result # 0
                          /\ request[i].result = request[i].epoch + 1
        OBVIOUS
      <3>1. i \in Handoffs /\ i # Of[x] /\ request[i].result \in Nat /\ request[i].epoch \in Nat
        BY <2>6, <2>7, HandoffTypes
      <3>2. request[i].result = request[i].epoch + 1
        BY DEF HandoffInv, OneEpochPerHandoff
      <3> QED BY <2>3, <3>1, <3>2 DEF HandoffInv, ResultsKept
    <2>11. request'[Of[x]].result = epoch + 1 /\ request'[Of[x]].epoch = epoch
      BY <1>1, <2>2, <2>3, <2>6
    <2>12. OneEpochPerHandoff'
      <3>1. epoch' = 1 + Cardinality(Replaced')
        BY <1>1, <2>1, <2>8, <2>9 DEF HandoffInv, OneEpochPerHandoff
      <3>2. \A i \in Replaced' : request'[i].result = request'[i].epoch + 1
        BY <2>7, <2>10, <2>11
      <3>3. \A h, i \in Replaced' : request'[h].result = request'[i].result => h = i
        <4>1. \A h, i \in Replaced : request[h].result = request[i].result => h = i
          BY DEF HandoffInv, OneEpochPerHandoff
        <4>2. \A i \in Replaced : request'[i].result # epoch + 1
          BY <1>1, <2>10
        <4> QED BY <2>7, <2>10, <2>11, <4>1, <4>2
      <3> QED BY <3>1, <3>2, <3>3 DEF OneEpochPerHandoff
    <2>13. ResultsKept'
      <3>1. \A i \in Handoffs : request'[i].result # 0 => i \in Replaced' /\ request'[i].result <= epoch'
        <4> SUFFICES ASSUME NEW i \in Handoffs, request'[i].result # 0
                     PROVE  i \in Replaced' /\ request'[i].result <= epoch'
          OBVIOUS
        <4>1. CASE i = Of[x]
          BY <1>1, <2>1, <2>7, <2>11, <4>1
        <4>2. CASE i # Of[x]
          <5>1. i \in Replaced /\ request[i].result <= epoch
            BY <2>3, <4>2 DEF HandoffInv, ResultsKept
          <5> QED BY <1>1, <2>1, <2>3, <2>7, <2>10, <4>2, <5>1
        <4> QED BY <4>1, <4>2
      <3>2. \A y \in Activities : step'[y] \in {"activated", "resuming"} => Of[y] \in Replaced'
        BY <2>3, <2>7 DEF HandoffInv, ResultsKept
      <3> QED BY <2>8, <3>1, <3>2 DEF ResultsKept
    <2>14. request[Of[x]].stage \in Prepared /\ s.stage \in Prepared
      BY <1>2, <2>2 DEF HandoffInv, StopsHold, Prepared
    <2>15. StopsHold'
      <3>1. \A i \in Handoffs :
               /\ cmd'[StopOf[i]].at # "unsent" => cmd'[StopOf[i]].action = "STOP"
               /\ request'[i].token <= token'
        BY <1>2, <1>3, <2>2, <2>3 DEF HandoffInv, StopsHold
      <3>2. /\ \A i \in Handoffs : request'[i].stage \in Prepared =>
                  request[i].stage \in Prepared /\ request'[i].stopped = request[i].stopped
            /\ \A i \in Handoffs : request[i].stage \in Prepared =>
                  request'[i].stage \in Prepared /\ request'[i].stopped = request[i].stopped
        BY <2>2, <2>3, <2>14
      <3>3. \A y \in Activities : step'[y] \in {"clear", "scoped"} =>
               request[Of[y]].stage \in Prepared /\ (step[y] \in {"clear", "scoped"} \/ BoundaryReached)
        BY <2>3 DEF HandoffInv, StopsHold
      <3> QED BY <1>1, <1>2, <1>3, <2>1, <2>5, <3>1, <3>2, <3>3, StopsStay
    <2> QED BY <2>4, <2>5, <2>12, <2>13, <2>15 DEF HandoffInv
  <1>5. CASE ~(request[Of[x]].result = 0 /\ Activates(Of[x]))
    <2>1. /\ UNCHANGED <<version, epoch, request>>
          /\ \/ request[Of[x]].result # 0 /\ step' = [step EXCEPT ![x] = "activated"]
             \/ step' = [step EXCEPT ![x] = "over"]
      BY <1>5 DEF Activate
    <2>2. PICK t \in {"activated", "over"} :
             step' = [step EXCEPT ![x] = t] /\ (t = "activated" => request[Of[x]].result # 0)
      BY <2>1
    <2>3. /\ step' \in [Activities -> {"idle", "clear", "scoped", "activated", "resuming", "over"}]
          /\ \A y \in Activities : step'[y] = IF y = x THEN t ELSE step[y]
      BY <1>1, <2>2
    <2>4. IInv'
      BY <1>1, <1>2, <2>1, FenceKept
    <2>5. HTypeOK'
      BY <2>1, <2>3, <2>4 DEF IInv, HandoffInv, HTypeOK
    <2>6. \A y \in Activities : step'[y] \in {"activated", "resuming"} => Of[y] \in Replaced
      BY <1>1, <2>2, <2>3 DEF HandoffInv, ResultsKept
    <2>7. OneEpochPerHandoff' /\ ResultsKept'
      BY <2>1, <2>6 DEF HandoffInv, OneEpochPerHandoff, ResultsKept, Replaced
    <2>8. StopsHold'
      BY <1>2, <1>3, <2>1, <2>2, <2>3 DEF HandoffInv, StopsHold, BoundaryReached
    <2> QED BY <2>4, <2>5, <2>7, <2>8 DEF HandoffInv
  <1> QED BY <1>4, <1>5

LEMMA HandoffStep ==
    ASSUME NoOverlap, IInv, HandoffInv, [HNext]_hvars PROVE IInv' /\ HandoffInv'
  <1>1. CASE FenceNext /\ UNCHANGED <<request, step>>
    BY <1>1, FenceMoves
  <1>2. ASSUME NEW h \in Handoffs, Authorize(h) \/ SendStop(h) \/ Prepare(h) PROVE IInv' /\ HandoffInv'
    BY <1>2, HandoffsBegin, StopsAreSent
  <1>3. ASSUME NEW x \in Activities,
               \/ SeeBoundary(x) \/ SeeScope(x) \/ Activate(x) \/ SendResume(x) \/ Record(x)
               \/ KillActivity(x)
        PROVE  IInv' /\ HandoffInv'
    BY <1>3, BoundariesAreSeen, EpochsAreActivated, ResumesAreSent, ResultsAreRecorded
  <1>4. CASE UNCHANGED hvars
    <2>1. UNCHANGED <<version, disposition, epoch, token, fenced, retried, lease, claim, pc, cmd,
                      request, step>>
      BY <1>4 DEF hvars, vars
    <2>2. IInv'
      BY <2>1 DEF IInv, TypeOK, Alone, EndsWithWork, WorkHoldsLease, StopReleasesAll,
                  TokensSeen, TokenNamesScope, ResumeStillSafe, SafeToResume
    <2>3. HandoffInv'
      BY <2>1, <2>2 DEF HandoffInv, HTypeOK, IInv, OneEpochPerHandoff, ResultsKept, Replaced,
                        StopsHold, BoundaryReached
    <2> QED BY <2>2, <2>3
  <1> QED BY <1>1, <1>2, <1>3, <1>4 DEF HNext

LEMMA HandoffsHold == ASSUME NoOverlap PROVE HSpec => [](IInv /\ HandoffInv)
  <1>1. IInv /\ HandoffInv /\ [HNext]_hvars => (IInv /\ HandoffInv)'
    BY HandoffStep, NoOverlap
  <1> QED BY <1>1, HandoffInit, PTL DEF HSpec

\* Handoffs leave the fence as it is without them: its inductive invariant holds, with
\* every property above (begin_epoch_handoff, complete_epoch_handoff).
THEOREM HandoffsKeepFence == ASSUME NoOverlap PROVE HSpec => []IInv
  BY HandoffsHold, NoOverlap, PTL

\* Exactly one replacement epoch exists for each handoff that was carried out, however
\* many activities complete it (create_epoch's comparison of the version).
THEOREM OneEpochEach == ASSUME NoOverlap PROVE HSpec => []OneEpochPerHandoff
  <1>1. HandoffInv => OneEpochPerHandoff
    BY DEF HandoffInv
  <1> QED BY <1>1, HandoffsHold, NoOverlap, PTL

\* Only an activation replaces the epoch.
LEMMA EpochMoves ==
    ASSUME IInv, HandoffInv, [HNext]_hvars, epoch' # epoch
    PROVE  \E x \in Activities : Activate(x)
  <1>1. FenceNext => UNCHANGED epoch
    BY FenceSteps DEF IInv
  <1> QED BY <1>1 DEF HNext, hvars, vars, mission, Authorize, SendStop, Prepare, SeeBoundary, SeeScope,
                      SendResume, Record, KillActivity

\* "Completion refuses to replace the epoch while any lease remains ACTIVE or RELEASING":
\* the leases are looked for outside the lock that replaces it, and it is still so.
THEOREM ReplacesAtBoundary == ASSUME NoOverlap PROVE HSpec => ReplacedAtBoundary
  <1> DEFINE Good == epoch' # epoch =>
                        /\ disposition = "STOPPED"
                        /\ \A op \in Ops : lease[op] \notin Open
                        /\ \A r \in Runners : pc[r] # "running"
  <1>1. IInv /\ HandoffInv /\ [HNext]_hvars => Good
    BY EpochMoves, AtTheBoundary
  <1> HIDE DEF Good
  <1>2. HSpec => [][Good]_hvars
    BY <1>1, HandoffsHold, NoOverlap, PTL DEF HSpec
  <1> QED BY <1>2 DEF Good, ReplacedAtBoundary

\* A mission on which handoffs are carried out still resumes at the boundary only.
THEOREM HandoffsResumeAtBoundary == ASSUME NoOverlap PROVE HSpec => ResumeAtBoundary
  <1> DEFINE Good == disposition # "RUNNING" /\ disposition' = "RUNNING" =>
                        \A r \in Runners : pc[r] = "running" =>
                            disposition = "PAUSED" /\ lease[Does[r]] = "ACTIVE"
  <1>1. ASSUME IInv, [HNext]_hvars PROVE [Good]_vars
    <2>1. CASE FenceNext
      <3>1. [Next]_vars
        BY <1>1, <2>1, FenceSteps DEF IInv
      <3> QED BY <1>1, <3>1, BoundaryStep
    <2>2. CASE UNCHANGED disposition
      BY <2>2
    <2> QED BY <1>1, <2>1, <2>2
            DEF HNext, hvars, vars, mission, Authorize, SendStop, Prepare, SeeBoundary, SeeScope,
                Activate, SendResume, Record, KillActivity
  <1> HIDE DEF Good
  <1>2. HSpec => [][Good]_vars
    BY <1>1, HandoffsHold, NoOverlap, PTL DEF HSpec
  <1> QED BY <1>2 DEF Good, ResumeAtBoundary

\* The fence with its handoffs implements the gate whose epoch is replaced only when it
\* is shut and nothing is inside.
THEOREM HandoffsRefineGate == ASSUME NoOverlap PROVE HSpec => RefinesGate
  <1>1. HInit => Gate!Init
    BY DEF HInit, Init, Gate!Init, Mode, AtWork
  <1>2. IInv /\ HandoffInv /\ [HNext]_hvars => [Gate!Next]_Gate!vars
    <2> SUFFICES ASSUME IInv, HandoffInv, [HNext]_hvars PROVE [Gate!Next]_Gate!vars
      OBVIOUS
    <2>1. CASE FenceNext
      BY <2>1, FenceSteps, GateStep DEF IInv
    <2>2. CASE epoch' # epoch
      <3>1. PICK x \in Activities : Activate(x)
        BY <2>2, EpochMoves
      <3>2. /\ disposition = "STOPPED" /\ epoch' = epoch + 1
            /\ \A r \in Runners : pc[r] # "running"
        BY <2>2, <3>1, AtTheBoundary
      <3>3. UNCHANGED <<disposition, pc>>
        BY <3>1 DEF Activate, executions
      <3>4. Gate!Replace
        BY <3>2, <3>3 DEF Gate!Replace, Mode, AtWork
      <3> QED BY <3>4 DEF Gate!Next
    <2>3. CASE UNCHANGED <<disposition, pc, epoch>>
      BY <2>3 DEF Gate!vars, Mode, AtWork
    <2>4. FenceNext \/ UNCHANGED <<disposition, pc>>
      BY DEF HNext, hvars, vars, mission, executions, Authorize, SendStop, Prepare, SeeBoundary, SeeScope,
             Activate, SendResume, Record, KillActivity
    <2> QED BY <2>1, <2>2, <2>3, <2>4
  <1> QED BY <1>1, <1>2, HandoffsHold, NoOverlap, PTL DEF HSpec, RefinesGate, Gate!Spec

------------------------------------------------------------------------------
(* What the schema holds by itself: the fence's token and the epoch (the     *)
(* triggers of storage.py).                                                  *)

EpochRowsT == [checkpoint : Nat, origin : {"INITIAL"} \cup Restarts]
WorkRowsT == [kind : {"job", "lease"}, token : Nat, epoch : Nat, child : Nat]
RequestRowsT == [origin : Restarts, checkpoint : Nat, job : Nat, epoch : Nat]

ControlTyped ==
    /\ missionRow \in [disposition : {"RUNNING", "STOPPED"}, epoch : Nat, checkpoint : Nat,
                       version : Nat]
    /\ fenceRow \in [token : Nat, disposition : {"RUNNING", "STOPPED"}, epoch : Nat, version : Nat]
    /\ epochRows \in Seq(EpochRowsT) /\ checkpointRows \in Seq(Nat)
    /\ workRows \in Seq(WorkRowsT) /\ requestRows \in Seq(RequestRowsT)
    /\ stopRows \subseteq DOMAIN requestRows /\ preparedRows \subseteq DOMAIN requestRows

\* Work is taken under the fence's token or an earlier one, later work never under an
\* earlier token; a job under the fence's token is of the fence's epoch.
WorkFenced ==
    \A w \in DOMAIN workRows :
        /\ workRows[w].token <= fenceRow.token
        /\ IsJob(w) /\ workRows[w].token = fenceRow.token => workRows[w].epoch = fenceRow.epoch
        /\ \A v \in DOMAIN workRows :
              /\ v < w => workRows[v].token <= workRows[w].token
              /\ IsJob(v) /\ IsJob(w) /\ workRows[v].token = workRows[w].token =>
                    workRows[v].epoch = workRows[w].epoch

\* A result leads to the epoch after its request's, and each epoch has one.
ResultsNext ==
    \A x \in resultRows :
        /\ x.request \in DOMAIN requestRows /\ x.epoch = requestRows[x.request].epoch + 1
        /\ \A y \in resultRows : x.epoch = y.epoch => x = y

ControlInv == ControlTyped /\ WorkFenced /\ ResultsNext

LEMMA ControlInit == CSInit => ControlInv
<1> SUFFICES ASSUME CSInit PROVE ControlInv
  OBVIOUS
<1> USE DEF CSInit
<1>1. ControlTyped
  <2>1. epochRows \in Seq(EpochRowsT)
    BY DEF EpochRowsT
  <2> QED
    BY <2>1 DEF ControlTyped
<1>2. WorkFenced /\ ResultsNext
  BY DEF WorkFenced, ResultsNext
<1> QED
  BY <1>1, <1>2 DEF ControlInv

\* Work that is inserted: appended under the fence's token.
LEMMA WorkIsFenced ==
    ASSUME ControlInv, NEW kind \in {"job", "lease"}, NEW child \in Nat,
           InsertWork(kind, child), kind = "job" => fenceRow.epoch = missionRow.epoch
    PROVE  ControlInv'
<1> DEFINE new == [kind |-> kind, token |-> fenceRow.token, epoch |-> missionRow.epoch,
                   child |-> child]
<1>1. new \in WorkRowsT
  BY DEF ControlInv, ControlTyped, WorkRowsT
<1>2. /\ workRows' = Append(workRows, new)
      /\ UNCHANGED <<missionRow, fenceRow, epochRows, checkpointRows, grantRows, settled, requestRows,
                     stopRows, preparedRows, resultRows>>
  BY DEF InsertWork, epochs, handoffs
<1> HIDE DEF new
<1>3. /\ workRows' \in Seq(WorkRowsT)
      /\ DOMAIN workRows' = 1..(Len(workRows) + 1) /\ DOMAIN workRows = 1..Len(workRows)
      /\ \A w \in DOMAIN workRows : workRows'[w] = workRows[w]
      /\ workRows'[Len(workRows) + 1] = new
      /\ Len(workRows) \in Nat
  BY <1>1, <1>2 DEF ControlInv, ControlTyped
<1>4. ControlTyped'
  BY <1>2, <1>3 DEF ControlInv, ControlTyped
<1>5. WorkFenced'
  <2>1. /\ new.token = fenceRow.token /\ new.kind = kind
        /\ kind = "job" => new.epoch = fenceRow.epoch
    BY DEF new
  <2> SUFFICES ASSUME NEW w \in DOMAIN workRows'
               PROVE  /\ workRows'[w].token <= fenceRow'.token
                      /\ IsJob(w)' /\ workRows'[w].token = fenceRow'.token =>
                            workRows'[w].epoch = fenceRow'.epoch
                      /\ \A v \in DOMAIN workRows' :
                            /\ v < w => workRows'[v].token <= workRows'[w].token
                            /\ IsJob(v)' /\ IsJob(w)' /\ workRows'[v].token = workRows'[w].token =>
                                  workRows'[v].epoch = workRows'[w].epoch
    BY DEF WorkFenced
  <2>2. \A v \in DOMAIN workRows' : v \in DOMAIN workRows \/ v = Len(workRows) + 1
    BY <1>3
  <2>3. fenceRow.token \in Nat
    BY DEF ControlInv, ControlTyped
  <2> QED
    BY <1>2, <1>3, <2>1, <2>2, <2>3 DEF ControlInv, WorkFenced, IsJob
<1>6. ResultsNext'
  BY <1>2 DEF ControlInv, ResultsNext
<1> QED
  BY <1>4, <1>5, <1>6 DEF ControlInv

\* A step that leaves the work and the fence alone.
LEMMA WorkStays ==
    ASSUME ControlInv, UNCHANGED <<fenceRow, workRows>> PROVE WorkFenced'
  BY DEF ControlInv, WorkFenced, IsJob

LEMMA OutcomesStay ==
    ASSUME ControlInv, UNCHANGED <<requestRows, resultRows>> PROVE ResultsNext'
  BY DEF ControlInv, ResultsNext

LEMMA MissionUpdates ==
    ASSUME ControlInv, NEW d \in {"RUNNING", "STOPPED"}, NEW e \in Epochs,
           NEW c \in {0} \cup DOMAIN checkpointRows, UpdateMission(d, e, c)
    PROVE  ControlInv'
<1> USE DEF UpdateMission, epochs, handoffs
<1>1. Epochs \subseteq Nat /\ {0} \cup DOMAIN checkpointRows \subseteq Nat
  <2>1. epochRows \in Seq(EpochRowsT) /\ checkpointRows \in Seq(Nat)
    BY DEF ControlInv, ControlTyped
  <2>2. DOMAIN epochRows \subseteq Nat /\ DOMAIN checkpointRows \subseteq Nat
    BY <2>1
  <2> QED
    BY <2>2 DEF Epochs
<1>2. missionRow' \in [disposition : {"RUNNING", "STOPPED"}, epoch : Nat, checkpoint : Nat,
                      version : Nat]
  <2>1. missionRow.version + 1 \in Nat /\ e \in Nat /\ c \in Nat
    BY <1>1 DEF ControlInv, ControlTyped
  <2> QED
    BY <2>1
<1>3. UNCHANGED <<fenceRow, epochRows, checkpointRows, workRows, requestRows, stopRows, preparedRows,
                  resultRows>>
  OBVIOUS
<1>4. ControlTyped'
  BY <1>2, <1>3 DEF ControlInv, ControlTyped
<1> QED
  BY <1>3, <1>4, WorkStays, OutcomesStay DEF ControlInv

LEMMA FenceUpdates ==
    ASSUME ControlInv, NEW t, UpdateFence(t)
    PROVE  ControlInv'
<1> USE DEF UpdateFence, FenceStep, epochs, handoffs
<1>1. ControlTyped'
  BY DEF ControlInv, ControlTyped
<1>2. fenceRow.token \in Nat
  BY DEF ControlInv, ControlTyped
<1>t. /\ \A w \in DOMAIN workRows : workRows[w].token \in Nat
      /\ DOMAIN workRows \subseteq Nat
  <2>1. workRows \in Seq(WorkRowsT)
    BY DEF ControlInv, ControlTyped
  <2>2. \A w \in DOMAIN workRows : workRows[w] \in WorkRowsT
    BY <2>1
  <2> QED
    BY <2>1, <2>2 DEF WorkRowsT
<1>u. /\ fenceRow'.token = t /\ fenceRow'.epoch = missionRow.epoch
      /\ workRows' = workRows
  OBVIOUS
<1>3. WorkFenced'
  <2>1. CASE t = fenceRow.token + 1
    BY <1>2, <1>t, <1>u, <2>1 DEF ControlInv, WorkFenced, IsJob
  <2>2. CASE t = fenceRow.token /\ missionRow.epoch = fenceRow.epoch
    BY <1>2, <1>t, <1>u, <2>2 DEF ControlInv, WorkFenced, IsJob
  <2> QED
    BY <2>1, <2>2
<1> QED
  BY <1>1, <1>3, OutcomesStay DEF ControlInv

LEMMA RecordsAppend ==
    ASSUME ControlInv,
           \/ \E e \in Epochs : InsertCheckpoint(e) \/ InsertRevocation(e)
           \/ \E c \in DOMAIN checkpointRows, origin \in Restarts : InsertEpoch(c, origin)
           \/ InsertGrant \/ \E w \in DOMAIN workRows : Settle(w)
    PROVE  ControlInv'
<1>1. UNCHANGED <<missionRow, fenceRow, workRows, requestRows, stopRows, preparedRows, resultRows>>
  BY DEF InsertCheckpoint, InsertRevocation, InsertEpoch, InsertGrant, Settle, epochs, handoffs
<1>2. epochRows' \in Seq(EpochRowsT) /\ checkpointRows' \in Seq(Nat)
  <2>1. CASE \E e \in Epochs : InsertCheckpoint(e)
    BY <2>1 DEF InsertCheckpoint, ControlInv, ControlTyped, Epochs
  <2>2. CASE \E c \in DOMAIN checkpointRows, origin \in Restarts : InsertEpoch(c, origin)
    <3>1. PICK c \in DOMAIN checkpointRows, origin \in Restarts : InsertEpoch(c, origin)
      BY <2>2
    <3>2. [checkpoint |-> c, origin |-> origin] \in EpochRowsT
      BY DEF EpochRowsT, ControlInv, ControlTyped
    <3> QED
      BY <3>1, <3>2 DEF InsertEpoch, ControlInv, ControlTyped
  <2>3. CASE \/ \E e \in Epochs : InsertRevocation(e)
             \/ InsertGrant \/ \E w \in DOMAIN workRows : Settle(w)
    BY <2>3 DEF InsertRevocation, InsertGrant, Settle, epochs, ControlInv, ControlTyped
  <2> QED
    BY <2>1, <2>2, <2>3
<1>3. ControlTyped'
  BY <1>1, <1>2 DEF ControlInv, ControlTyped
<1> QED
  BY <1>1, <1>3, WorkStays, OutcomesStay DEF ControlInv

LEMMA RequestsAppend ==
    ASSUME ControlInv, NEW origin \in Restarts, NEW c \in DOMAIN checkpointRows,
           NEW j \in {0} \cup DOMAIN workRows, InsertRequest(origin, c, j)
    PROVE  ControlInv'
<1> DEFINE new == [origin |-> origin, checkpoint |-> c, job |-> j, epoch |-> missionRow.epoch]
<1>1. new \in RequestRowsT
  BY DEF RequestRowsT, ControlInv, ControlTyped
<1>2. requestRows' = Append(requestRows, new)
  BY DEF InsertRequest
<1> HIDE DEF new
<1>3. /\ requestRows' \in Seq(RequestRowsT) /\ DOMAIN requestRows \subseteq DOMAIN requestRows'
      /\ \A r \in DOMAIN requestRows : requestRows'[r] = requestRows[r]
  <2>1. requestRows \in Seq(RequestRowsT)
    BY DEF ControlInv, ControlTyped
  <2> QED
    BY <1>1, <1>2, <2>1
<1>4. UNCHANGED <<missionRow, fenceRow, epochRows, checkpointRows, workRows, stopRows, preparedRows,
                  resultRows>>
  BY DEF InsertRequest, epochs
<1>5. ControlTyped'
  BY <1>3, <1>4 DEF ControlInv, ControlTyped
<1>6. ResultsNext'
  BY <1>3, <1>4 DEF ControlInv, ResultsNext
<1> QED
  BY <1>4, <1>5, <1>6, WorkStays DEF ControlInv

LEMMA HandoffRows ==
    ASSUME ControlInv, NEW r \in DOMAIN requestRows,
           InsertStop(r) \/ InsertPreparation(r) \/ InsertResult(r)
    PROVE  ControlInv'
<1>1. UNCHANGED <<missionRow, fenceRow, epochRows, checkpointRows, workRows, requestRows>>
  BY DEF InsertStop, InsertPreparation, InsertResult, epochs
<1>2. ControlTyped'
  BY <1>1 DEF InsertStop, InsertPreparation, InsertResult, ControlInv, ControlTyped
<1>3. ResultsNext'
  <2>1. CASE InsertStop(r) \/ InsertPreparation(r)
    BY <2>1, OutcomesStay DEF InsertStop, InsertPreparation
  <2>2. CASE InsertResult(r)
    <3> DEFINE new == [request |-> r, epoch |-> missionRow.epoch, token |-> fenceRow.token]
    <3>1. /\ resultRows' = resultRows \cup {new} /\ requestRows' = requestRows
          /\ Unclaimed(r, missionRow.epoch) /\ missionRow.epoch = requestRows[r].epoch + 1
      BY <2>2 DEF InsertResult
    <3>2. new.request = r /\ new.epoch = missionRow.epoch
      OBVIOUS
    <3> HIDE DEF new
    <3> QED
      BY <3>1, <3>2 DEF Unclaimed, ControlInv, ResultsNext
  <2> QED
    BY <2>1, <2>2
<1> QED
  BY <1>1, <1>2, <1>3, WorkStays DEF ControlInv

LEMMA ControlStep == ControlInv /\ [CSNext]_csvars => ControlInv'
<1> SUFFICES ASSUME ControlInv, [CSNext]_csvars PROVE ControlInv'
  OBVIOUS
<1>1. CASE \E d \in {"RUNNING", "STOPPED"}, e \in Epochs, c \in {0} \cup DOMAIN checkpointRows :
              UpdateMission(d, e, c)
  BY <1>1, MissionUpdates
<1>2. CASE \E t \in {fenceRow.token, fenceRow.token + 1} : UpdateFence(t)
  BY <1>2, FenceUpdates
<1>3. CASE \/ \E e \in Epochs : InsertCheckpoint(e) \/ InsertRevocation(e)
           \/ \E c \in DOMAIN checkpointRows, origin \in Restarts : InsertEpoch(c, origin)
           \/ InsertGrant \/ \E w \in DOMAIN workRows : Settle(w)
  BY <1>3, RecordsAppend
<1>4. CASE InsertJob
  BY <1>4, WorkIsFenced DEF InsertJob
<1>5. CASE InsertLease(0) \/ \E w \in DOMAIN workRows : InsertLease(w)
  <2>1. DOMAIN workRows \subseteq Nat
    BY DEF ControlInv, ControlTyped
  <2>2. PICK child \in {0} \cup DOMAIN workRows : InsertLease(child)
    BY <1>5
  <2> QED
    BY <2>1, <2>2, WorkIsFenced DEF InsertLease
<1>6. CASE \E origin \in Restarts, c \in DOMAIN checkpointRows, job \in {0} \cup DOMAIN workRows :
              InsertRequest(origin, c, job)
  BY <1>6, RequestsAppend
<1>7. CASE \E r \in DOMAIN requestRows : InsertStop(r) \/ InsertPreparation(r) \/ InsertResult(r)
  BY <1>7, HandoffRows
<1>8. CASE UNCHANGED csvars
  <2>1. UNCHANGED <<missionRow, fenceRow, epochRows, checkpointRows, workRows, requestRows, stopRows,
                    preparedRows, resultRows>>
    BY <1>8 DEF csvars
  <2>2. ControlTyped'
    BY <2>1 DEF ControlInv, ControlTyped
  <2> QED
    BY <2>1, <2>2, WorkStays, OutcomesStay DEF ControlInv
<1> QED
  BY <1>1, <1>2, <1>3, <1>4, <1>5, <1>6, <1>7, <1>8 DEF CSNext

\* TokensNameEpochs: whatever statements are sent, in whatever order, the schema lets
\* work be taken under tokens that never go back, child jobs under one token be of
\* one epoch, and an epoch be handed over once.
THEOREM SchemaNamesEpochs == CSSpec => []TokensNameEpochs
<1>1. ControlInv => TokensNameEpochs
  BY DEF ControlInv, WorkFenced, ResultsNext, TokensNameEpochs
<1> QED
  BY <1>1, ControlInit, ControlStep, PTL DEF CSSpec
=============================================================================
