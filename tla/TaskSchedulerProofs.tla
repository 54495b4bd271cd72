------------------------- MODULE TaskSchedulerProofs -------------------------
(***************************************************************************)
(* The scheduler's safety for any number of work items, claims, domains,   *)
(* clock readings and lease durations; and the line of versions of a       *)
(* blueprint, with its decisions and missions.                             *)
(***************************************************************************)
EXTENDS TaskScheduler, BlueprintLifecycle, SequenceTheorems, TLAPS

LEMMA OverlapSymmetric == \A d, e : Overlap(d, e) => Overlap(e, d)
  BY DEF Overlap

\* A claim's scope is a set of conflict domains.
LEMMA ScopesAreDomains == \A s \in Scopes : s \subseteq Domains
  BY DEF Domains

LEMMA NormalizeInScopes ==
    \A t \in Tasks, r \in Requests : Normalize(t, r) \in Scopes
  BY DEF Scopes

\* Rows that are live after an expiry were live, and unexpired, before it.
LEMMA ExpiryKeepsHolding ==
    ASSUME TypeOK, RowsMatch, NEW now \in Instants, NEW a \in Ids
    PROVE  /\ LeaseAt(now)[a] \in {lease[a], "expired"}
           /\ AsgAt(now)[a] \in {asg[a], "cancelled"}
           /\ (LeaseAt(now)[a] = "active") <=> (AsgAt(now)[a] = "active")
           /\ (LeaseAt(now)[a] = "none") <=> (AsgAt(now)[a] = "none")
           /\ (AsgAt(now)[a] = "none") <=> (asg[a] = "none")
           /\ (LeaseAt(now)[a] = "active") <=> (a \in Holding(now))
  BY SchedulerAssumption DEF TypeOK, RowsMatch, LeaseAt, AsgAt, Due, Holding, Live

LEMMA ExpiryTyped ==
    ASSUME TypeOK, NEW now \in Instants
    PROVE  /\ LeaseAt(now) \in [Ids -> {"none", "active", "expired", "released", "revoked"}]
           /\ AsgAt(now) \in [Ids -> {"none", "active", "cancelled", "succeeded", "failed"}]
  BY DEF TypeOK, LeaseAt, AsgAt

-----------------------------------------------------------------------------
LEMMA InitIInv == Init => IInv
<1> SUFFICES ASSUME Init PROVE IInv
  OBVIOUS
<1>1. TypeOK
  BY DEF Init, TypeOK
<1>2. RowsMatch
  BY DEF Init, RowsMatch
<1>3. \A a \in Ids : lease[a] # "active"
  BY DEF Init
<1>4. HighIssued
  BY DEF Init, HighIssued
<1> QED
  BY <1>1, <1>2, <1>3, <1>4 DEF IInv, StopRevokesLeases, DomainsExclusive, FencesHold, Live

-----------------------------------------------------------------------------
(* A step that only ends leases: the expiry every fenced operation begins    *)
(* with, a release, a stop.                                                  *)
Ending ==
    /\ lease' \in [Ids -> {"none", "active", "expired", "released", "revoked"}]
    /\ asg' \in [Ids -> {"none", "active", "cancelled", "succeeded", "failed"}]
    /\ \A a \in Ids :
          /\ (lease'[a] = "active") => (lease[a] = "active")
          /\ (asg'[a] = "active") <=> (lease'[a] = "active")
          /\ (asg'[a] = "none") <=> (lease'[a] = "none")
          /\ (asg'[a] = "none") <=> (asg[a] = "none")
    /\ expires' \in [Ids -> Nat]
    /\ UNCHANGED claim

\* Ending leases keeps what relates the live ones, if nothing is written.
LEMMA EndingKeeps ==
    ASSUME IInv, Ending
    PROVE  /\ RowsMatch'
           /\ DomainsExclusive'
           /\ \A a \in Ids : Live(a)' => Live(a)
           /\ UNCHANGED high => HighIssued' /\ FencesHold'
<1>1. RowsMatch'
  BY DEF IInv, Ending, RowsMatch
<1>2. \A a \in Ids : Live(a)' => Live(a)
  BY DEF IInv, Ending, RowsMatch, Live
<1>3. DomainsExclusive'
  BY <1>2 DEF IInv, Ending, DomainsExclusive
<1>4. UNCHANGED high => HighIssued'
  BY DEF IInv, Ending, HighIssued
<1>5. UNCHANGED high => FencesHold'
  BY <1>2 DEF IInv, Ending, FencesHold
<1> QED
  BY <1>1, <1>2, <1>3, <1>4, <1>5

LEMMA ExpireEnds ==
    ASSUME IInv, NEW now \in Instants, Expire(now), UNCHANGED claim,
           expires' \in [Ids -> Nat]
    PROVE  Ending
  BY ExpiryKeepsHolding, ExpiryTyped DEF IInv, Expire, Ending, Holding, Live

-----------------------------------------------------------------------------
LEMMA ClaimIInv ==
    ASSUME IInv, NEW t \in Tasks, NEW r \in Requests, NEW ttl \in Ttls,
           NEW now \in Instants, Claim(t, r, ttl, now)
    PROVE  IInv'
<1> DEFINE scope == Normalize(t, r)
<1>1. PICK a \in Ids, k \in NextTokens :
         /\ asg[a] = "none"
         /\ claim' = [claim EXCEPT ![a] = [task |-> t, scope |-> scope, token |-> k]]
         /\ asg' = [AsgAt(now) EXCEPT ![a] = "active"]
         /\ lease' = [LeaseAt(now) EXCEPT ![a] = "active"]
         /\ expires' = [expires EXCEPT ![a] = now + ttl]
  BY DEF Claim
<1>2. /\ UNCHANGED <<status, stop, clearing, high>>
      /\ ~stop
      /\ Conflicting(t, scope, now) = {}
  BY DEF Claim
<1>3. scope \in Scopes /\ scope \subseteq Domains
  BY NormalizeInScopes, ScopesAreDomains
<1>4. \A b \in Ids : claim[b].token \in Nat
  BY DEF IInv, TypeOK, Claims, NoClaim
<1>5. k \in Nat \ {0} /\ \A b \in Ids : claim[b].token < k
  BY <1>4 DEF NextTokens
<1>6. claim'[a] = [task |-> t, scope |-> scope, token |-> k]
  BY <1>1 DEF IInv, TypeOK
<1>7. \A b \in Ids \ {a} : /\ claim'[b] = claim[b]
                           /\ lease'[b] = LeaseAt(now)[b]
                           /\ asg'[b] = AsgAt(now)[b]
  BY <1>1, ExpiryTyped DEF IInv, TypeOK
<1>8. lease'[a] = "active" /\ asg'[a] = "active"
  BY <1>1, ExpiryTyped DEF IInv
<1>9. TypeOK'
  <2>1. claim' \in [Ids -> Claims \cup {NoClaim}]
    BY <1>1, <1>3, <1>5 DEF IInv, TypeOK, Claims
  <2>2. expires' \in [Ids -> Nat]
    BY <1>1, SchedulerAssumption DEF IInv, TypeOK
  <2> QED
    BY <1>1, <1>2, <2>1, <2>2, ExpiryTyped DEF IInv, TypeOK
<1>10. claim'[a] # NoClaim
  BY <1>5, <1>6 DEF NoClaim
<1>11. RowsMatch'
  BY <1>7, <1>8, <1>10, ExpiryKeepsHolding DEF IInv, RowsMatch
<1>12. \A b \in Ids \ {a} : Live(b)' => b \in Holding(now)
  BY <1>7, ExpiryKeepsHolding DEF IInv, Live
<1>13. \A b \in Ids \ {a} : Live(b)' =>
          /\ claim[b].task # t
          /\ \A d \in scope, e \in claim[b].scope : ~Overlap(d, e)
  BY <1>2, <1>12 DEF Conflicting
<1>14. DomainsExclusive'
  <2> SUFFICES ASSUME NEW b \in Ids, NEW c \in Ids, b # c, Live(b)', Live(c)'
               PROVE  /\ claim'[b].task # claim'[c].task
                      /\ \A d \in claim'[b].scope, e \in claim'[c].scope : ~Overlap(d, e)
    BY DEF DomainsExclusive
  <2>1. CASE b = a
    BY <2>1, <1>6, <1>7, <1>13
  <2>2. CASE c = a
    BY <2>2, <1>6, <1>7, <1>13, OverlapSymmetric
  <2>3. CASE b # a /\ c # a
    BY <2>3, <1>7, <1>12 DEF Holding, IInv, DomainsExclusive
  <2> QED
    BY <2>1, <2>2, <2>3
<1>15. \A d \in Domains : high[d] \in Nat /\ high[d] < k
  BY <1>4, <1>5 DEF IInv, TypeOK, HighIssued
<1>16. HighIssued'
  <2> SUFFICES ASSUME NEW d \in Domains, high[d] # 0
               PROVE  \E b \in Ids : high[d] = claim'[b].token
    BY <1>2 DEF HighIssued
  <2>1. PICK b \in Ids : high[d] = claim[b].token
    BY DEF IInv, HighIssued
  <2>2. b # a
    BY <1>1, <2>1 DEF IInv, RowsMatch, NoClaim
  <2> QED
    BY <1>7, <2>1, <2>2
<1>17. FencesHold'
  <2> SUFFICES ASSUME NEW b \in Ids, Live(b)', NEW d \in claim'[b].scope,
                      NEW e \in Domains, Overlap(d, e)
               PROVE  high[e] <= claim'[b].token
    BY <1>2 DEF FencesHold
  <2>1. CASE b = a
    BY <2>1, <1>5, <1>6, <1>15
  <2>2. CASE b # a
    BY <2>2, <1>7, <1>12 DEF Holding, IInv, FencesHold
  <2> QED
    BY <2>1, <2>2
<1>18. StopRevokesLeases'
  BY <1>2 DEF StopRevokesLeases
<1> QED
  BY <1>9, <1>11, <1>14, <1>16, <1>17, <1>18 DEF IInv

LEMMA ExpireOnlyIInv ==
    ASSUME IInv, NEW now \in Instants, Expire(now),
           UNCHANGED <<status, claim, stop, clearing, high>>, expires' \in [Ids -> Nat]
    PROVE  IInv'
<1>1. Ending
  BY ExpireEnds
<1>2. TypeOK'
  BY <1>1 DEF IInv, TypeOK, Ending
<1>3. StopRevokesLeases'
  BY <1>1 DEF IInv, StopRevokesLeases, Ending
<1> QED
  BY <1>1, <1>2, <1>3, EndingKeeps DEF IInv

LEMMA ReleaseEnds ==
    ASSUME IInv, NEW a \in Ids, NEW k \in Tokens, NEW now \in Instants,
           NEW outcome \in {"succeeded", "failed", "cancelled"},
           ReleaseLease(a, k, outcome, now)
    PROVE  Ending
<1>1. /\ lease' = [LeaseAt(now) EXCEPT ![a] = "released"]
      /\ asg' = [AsgAt(now) EXCEPT ![a] = outcome]
      /\ UNCHANGED <<claim, expires>>
      /\ Live(a)
  BY DEF ReleaseLease, Fenced, Holding
<1>2. asg[a] # "none"
  BY <1>1 DEF Live
<1> QED
  BY <1>1, <1>2, ExpiryTyped, ExpiryKeepsHolding DEF Ending, IInv, TypeOK, Holding, Live

LEMMA ReleaseIInv ==
    ASSUME IInv, NEW a \in Ids, NEW k \in Tokens, NEW now \in Instants,
           NEW outcome \in {"succeeded", "failed", "cancelled"},
           ReleaseLease(a, k, outcome, now)
    PROVE  IInv'
<1>1. Ending
  BY ReleaseEnds
<1>2. UNCHANGED <<status, stop, clearing, high>>
  BY DEF ReleaseLease
<1>3. TypeOK' /\ StopRevokesLeases'
  BY <1>1, <1>2 DEF IInv, TypeOK, StopRevokesLeases, Ending
<1> QED
  BY <1>1, <1>2, <1>3, EndingKeeps DEF IInv

\* A fenced write: other live leases reach none of the domains it writes.
LEMMA FencedMutationIInv ==
    ASSUME IInv, NEW a \in Ids, NEW k \in Tokens, NEW now \in Instants,
           FencedMutation(a, k, now)
    PROVE  IInv'
<1>1. /\ Live(a)
      /\ claim[a].token = k
      /\ Expire(now)
      /\ high' = [d \in Domains |-> IF d \in claim[a].scope THEN k ELSE high[d]]
      /\ UNCHANGED <<status, claim, expires, stop, clearing>>
  BY DEF FencedMutation, Fenced, Holding
<1>2. Ending
  BY <1>1, ExpireEnds DEF IInv, TypeOK
<1>3. claim[a] \in Claims /\ k \in Nat
  BY <1>1 DEF IInv, TypeOK, RowsMatch, Live, Claims
<1>4. TypeOK' /\ StopRevokesLeases'
  BY <1>1, <1>2, <1>3 DEF IInv, TypeOK, StopRevokesLeases, Ending
<1>5. HighIssued'
  BY <1>1 DEF IInv, HighIssued
<1>6. FencesHold'
  <2> SUFFICES ASSUME NEW b \in Ids, Live(b)', NEW d \in claim[b].scope,
                      NEW e \in Domains, Overlap(d, e)
               PROVE  high'[e] <= claim[b].token
    BY <1>1 DEF FencesHold
  <2>1. Live(b)
    BY <1>2, EndingKeeps
  <2>2. CASE b = a
    BY <1>1, <1>3, <2>1, <2>2 DEF IInv, FencesHold
  <2>3. CASE b # a
    <3>1. e \notin claim[a].scope
      BY <1>1, <2>1, <2>3 DEF IInv, DomainsExclusive
    <3> QED
      BY <1>1, <2>1, <3>1 DEF IInv, FencesHold
  <2> QED
    BY <2>2, <2>3
<1> QED
  BY <1>2, <1>4, <1>5, <1>6, EndingKeeps DEF IInv

LEMMA ActivateStopEnds ==
    ASSUME IInv, ActivateStop
    PROVE  Ending
  BY DEF ActivateStop, Ending, IInv, TypeOK, RowsMatch

LEMMA ActivateStopIInv ==
    ASSUME IInv, ActivateStop
    PROVE  IInv'
<1>1. Ending
  BY ActivateStopEnds
<1>2. TypeOK' /\ StopRevokesLeases' /\ UNCHANGED high
  BY <1>1 DEF ActivateStop, IInv, TypeOK, StopRevokesLeases, Ending
<1> QED
  BY <1>1, <1>2, EndingKeeps DEF IInv

\* Steps that touch no lease.
LEMMA OtherIInv ==
    ASSUME IInv, UNCHANGED <<leases, high>>,
           status' \in [Tasks -> {"absent", "pending", "running", "completed",
                                  "approved", "rejected", "failed"}],
           stop' \in BOOLEAN, stop' => stop, clearing' \in BOOLEAN
    PROVE  IInv'
<1>1. UNCHANGED <<claim, asg, lease, expires, high>>
  BY DEF leases
<1>2. TypeOK' /\ RowsMatch' /\ StopRevokesLeases'
  BY <1>1 DEF IInv, TypeOK, RowsMatch, StopRevokesLeases
<1>3. DomainsExclusive' /\ HighIssued' /\ FencesHold'
  BY <1>1 DEF IInv, DomainsExclusive, HighIssued, FencesHold, Live
<1> QED
  BY <1>2, <1>3 DEF IInv

LEMMA NextIInv == IInv /\ [Next]_vars => IInv'
<1> SUFFICES ASSUME IInv, [Next]_vars PROVE IInv'
  OBVIOUS
<1>1. ASSUME NEW t \in Tasks, CreateTask(t) PROVE IInv'
  BY <1>1, OtherIInv DEF CreateTask, IInv, TypeOK
<1>2. ASSUME NEW move \in TaskMoves, NEW t \in Tasks, TransitionTask(t, move[2])
      PROVE  IInv'
  BY <1>2, OtherIInv DEF TransitionTask, TaskMoves, IInv, TypeOK
<1>3. ASSUME NEW t \in Tasks, NEW r \in Requests, NEW now \in Instants,
             ClaimConflict(t, r, now)
      PROVE  IInv'
  BY <1>3, ExpireOnlyIInv DEF ClaimConflict, IInv, TypeOK
<1>4. ASSUME NEW now \in Instants, AssertFencedLease(now) PROVE IInv'
  BY <1>4, ExpireOnlyIInv DEF AssertFencedLease, IInv, TypeOK
<1>5. ASSUME NEW a \in Ids, NEW k \in Tokens, NEW now \in Instants,
             NEW ttl \in Ttls, RenewLease(a, k, ttl, now)
      PROVE  IInv'
  <2>1. expires' \in [Ids -> Nat]
    BY <1>5, SchedulerAssumption DEF RenewLease, IInv, TypeOK
  <2> QED
    BY <1>5, <2>1, ExpireOnlyIInv DEF RenewLease
<1>6. CASE ClearStopRead
  BY <1>6, OtherIInv DEF ClearStopRead, IInv, TypeOK
<1>7. CASE ClearStopWrite
  BY <1>7, OtherIInv DEF ClearStopWrite, IInv, TypeOK
<1>8. CASE UNCHANGED vars
  BY <1>8, OtherIInv DEF vars, leases, IInv, TypeOK
<1> QED
  BY <1>1, <1>2, <1>3, <1>4, <1>5, <1>6, <1>7, <1>8,
     ClaimIInv, ReleaseIInv, FencedMutationIInv, ActivateStopIInv DEF Next

\* The columns of every table keep their types in every reachable state.
THEOREM TypeCorrect == Spec => []TypeOK
<1>1. IInv => TypeOK
  BY DEF IInv
<1> QED
  BY <1>1, InitIInv, NextIInv, PTL DEF Spec

\* The inductive invariant holds in every reachable state.
THEOREM Inductive == Spec => []IInv
  BY InitIInv, NextIInv, PTL DEF Spec

\* No two live leases ever cover overlapping conflict domains or one work item.
THEOREM Exclusion == Spec => []DomainsExclusive
<1>1. IInv => DomainsExclusive
  BY DEF IInv
<1> QED
  BY <1>1, Inductive, PTL

\* No lease is active while the emergency stop is in force.
THEOREM StopIsEffective == Spec => []StopRevokesLeases
<1>1. IInv => StopRevokesLeases
  BY DEF IInv
<1> QED
  BY <1>1, Inductive, PTL

-----------------------------------------------------------------------------
\* Only a fenced mutation writes to a domain.
LEMMA HighChanges ==
    ASSUME [Next]_vars
    PROVE  \/ UNCHANGED high
           \/ \E a \in Ids, k \in Tokens, now \in Instants : FencedMutation(a, k, now)
  BY DEF Next, vars, leases, CreateTask, TransitionTask, Claim, ClaimConflict,
         AssertFencedLease, RenewLease, ReleaseLease, ActivateStop,
         ClearStopRead, ClearStopWrite

\* A late worker's write is never accepted behind that of its successor.
THEOREM Fencing == Spec => WritesFollowTokens
<1>1. ASSUME IInv, [Next]_vars
      PROVE  \A d \in Domains : high'[d] # high[d] =>
                \A e \in Domains : Overlap(d, e) => high[e] <= high'[d]
  <2> SUFFICES ASSUME NEW d \in Domains, high'[d] # high[d],
                      NEW e \in Domains, Overlap(d, e)
               PROVE  high[e] <= high'[d]
    OBVIOUS
  <2>1. PICK a \in Ids, k \in Tokens, now \in Instants : FencedMutation(a, k, now)
    BY <1>1, HighChanges
  <2>2. /\ Live(a)
        /\ claim[a].token = k
        /\ d \in claim[a].scope
        /\ high'[d] = k
    BY <2>1 DEF FencedMutation, Fenced, Holding
  <2> QED
    BY <1>1, <2>2 DEF IInv, FencesHold
<1>2. IInv /\ [Next]_vars =>
        [\A d \in Domains : high'[d] # high[d] =>
            \A e \in Domains : Overlap(d, e) => high[e] <= high'[d]]_vars
  BY <1>1
<1> QED
  BY <1>2, Inductive, PTL DEF Spec, WritesFollowTokens

\* An ended lease is never revived, extended or given another outcome.
THEOREM EndedLeasesStay == Spec => LeaseEndsOnce
<1> DEFINE Same(a) == lease'[a] = lease[a] /\ expires'[a] = expires[a] /\ asg'[a] = asg[a]
<1>1. ASSUME IInv, [Next]_vars, NEW a \in Ids, lease[a] \notin {"none", "active"}
      PROVE  Same(a)
  <2>1. asg[a] \notin {"none", "active"}
    BY <1>1 DEF IInv, RowsMatch
  <2>2. \A now : LeaseAt(now)[a] = lease[a] /\ AsgAt(now)[a] = asg[a]
    BY <1>1, <2>1 DEF LeaseAt, AsgAt, Due
  <2>3. \A now : a \notin Holding(now)
    BY <1>1 DEF Holding, Live
  <2>4. ASSUME NEW t \in Tasks, NEW r \in Requests, NEW ttl \in Ttls,
               NEW now \in Instants, Claim(t, r, ttl, now)
        PROVE  Same(a)
    BY <1>1, <2>1, <2>2, <2>4, ExpiryTyped DEF Claim, IInv, TypeOK
  <2>5. ASSUME NEW now \in Instants, Expire(now), UNCHANGED expires
        PROVE  Same(a)
    BY <2>2, <2>5 DEF Expire
  <2>6. ASSUME NEW b \in Ids, NEW k \in Tokens, NEW ttl \in Ttls,
               NEW now \in Instants, RenewLease(b, k, ttl, now)
        PROVE  Same(a)
    BY <1>1, <2>2, <2>3, <2>6 DEF RenewLease, Fenced, Expire, IInv, TypeOK
  <2>7. ASSUME NEW b \in Ids, NEW k \in Tokens, NEW now \in Instants,
               NEW outcome \in {"succeeded", "failed", "cancelled"},
               ReleaseLease(b, k, outcome, now)
        PROVE  Same(a)
    BY <1>1, <2>2, <2>3, <2>7, ExpiryTyped DEF ReleaseLease, Fenced, IInv, TypeOK
  <2>8. CASE ActivateStop
    BY <1>1, <2>1, <2>8 DEF ActivateStop
  <2>9. CASE UNCHANGED leases
    BY <2>9 DEF leases
  <2> QED
    BY <1>1, <2>4, <2>5, <2>6, <2>7, <2>8, <2>9
    DEF Next, vars, leases, CreateTask, TransitionTask, ClaimConflict,
        AssertFencedLease, FencedMutation, ClearStopRead, ClearStopWrite
<1>2. IInv /\ [Next]_vars =>
        [\A a \in Ids : lease[a] \notin {"none", "active"} => Same(a)]_vars
  BY <1>1
<1> QED
  BY <1>2, Inductive, PTL DEF Spec, LeaseEndsOnce

-----------------------------------------------------------------------------
\* The refinement: leases that end lose grants, a claim is a grant, a fenced
\* mutation a write.  What expires in the same transaction is lost with it.
Image(S) == {[token |-> claim[a].token, scope |-> claim[a].scope] : a \in S}

LEMMA EndingRefines ==
    ASSUME IInv, Ending, UNCHANGED high
    PROVE  Grants!Next
<1>1. LiveIds' \subseteq LiveIds
  BY DEF Ending, LiveIds
<1>2. Image(LiveIds)' \in SUBSET Image(LiveIds)
  BY <1>1 DEF Image, Ending
<1> QED
  BY <1>2 DEF Grants!Next, Grants!Lose, Image, Ending

LEMMA ClaimRefines ==
    ASSUME IInv, NEW t \in Tasks, NEW r \in Requests, NEW ttl \in Ttls,
           NEW now \in Instants, Claim(t, r, ttl, now)
    PROVE  Grants!Next
<1> DEFINE scope == Normalize(t, r)
           kept == Image(Holding(now))
<1>1. PICK a \in Ids, k \in NextTokens :
         /\ asg[a] = "none"
         /\ claim' = [claim EXCEPT ![a] = [task |-> t, scope |-> scope, token |-> k]]
         /\ lease' = [LeaseAt(now) EXCEPT ![a] = "active"]
  BY DEF Claim
<1> DEFINE new == [token |-> k, scope |-> scope]
<1>2. \A b \in Ids : claim[b].token \in Nat
  BY DEF IInv, TypeOK, Claims, NoClaim
<1>3. k \in Nat \ {0} /\ \A b \in Ids : claim[b].token < k
  BY <1>2 DEF NextTokens
<1>4. claim'[a] = [task |-> t, scope |-> scope, token |-> k]
  BY <1>1 DEF IInv, TypeOK
<1>5. \A b \in Ids \ {a} : claim'[b] = claim[b]
  BY <1>1 DEF IInv, TypeOK
<1>6. claim[a].token = 0 /\ a \notin Holding(now)
  BY <1>1 DEF IInv, RowsMatch, NoClaim, Holding, Live
<1>7. LiveIds' = Holding(now) \cup {a}
  BY <1>1, <1>6, ExpiryKeepsHolding, ExpiryTyped DEF LiveIds, Holding, IInv
<1>8. Image(LiveIds)' = kept \cup {new}
  <2>1. Image(LiveIds)' = {[token |-> claim'[b].token, scope |-> claim'[b].scope] :
                              b \in Holding(now) \cup {a}}
    BY <1>7 DEF Image
  <2>2. \A b \in Holding(now) : b \in Ids \ {a}
    BY <1>6 DEF Holding
  <2> QED
    BY <1>4, <1>5, <2>1, <2>2 DEF Image
<1>9. kept \in SUBSET Image(LiveIds)
  BY DEF Image, Holding, Live, LiveIds
<1>10. new \in [token : Nat, scope : Scopes]
  BY <1>3, NormalizeInScopes
<1>11. \A g \in kept : ~Grants!Contend(new.scope, g.scope)
  BY DEF Claim, Conflicting, Image, Grants!Contend
<1>12. {claim'[b].token : b \in Ids} \ {0} = ({claim[b].token : b \in Ids} \ {0}) \cup {k}
  <2>1. \A b \in Ids : claim'[b].token = IF b = a THEN k ELSE claim[b].token
    BY <1>4, <1>5
  <2> QED
    BY <1>3, <1>6, <2>1
<1>13. UNCHANGED high
  BY DEF Claim
<1> HIDE DEF new, kept, scope
<1>14. Grants!Grant(kept)
  <2>1. new \in Image(LiveIds)'
    BY <1>8
  <2>2. \A i \in {claim[b].token : b \in Ids} \ {0} : i < new.token
    BY <1>3 DEF new
  <2>3. new.token = k
    BY DEF new
  <2> QED
    BY <2>1, <2>2, <2>3, <1>8, <1>10, <1>11, <1>12, <1>13 DEF Grants!Grant, Image
<1>15. kept \in SUBSET {[token |-> claim[b].token, scope |-> claim[b].scope] : b \in LiveIds}
  BY <1>9 DEF Image
<1> QED
  BY <1>14, <1>15, Zenon DEF Grants!Next, Grants!Grant, Grants!Write, Grants!Lose

LEMMA FencedMutationRefines ==
    ASSUME IInv, NEW a \in Ids, NEW k \in Tokens, NEW now \in Instants,
           FencedMutation(a, k, now)
    PROVE  Grants!Next
<1> DEFINE g == [token |-> claim[a].token, scope |-> claim[a].scope]
           kept == Image(LiveIds)'
<1>1. /\ Live(a)
      /\ a \in Holding(now)
      /\ claim[a].token = k
      /\ Expire(now)
      /\ high' = [d \in Domains |-> IF d \in claim[a].scope THEN k ELSE high[d]]
      /\ UNCHANGED <<claim, expires>>
  BY DEF FencedMutation, Fenced, Holding
<1>2. Ending
  BY <1>1, ExpireEnds DEF IInv, TypeOK
<1>3. LiveIds' \subseteq LiveIds
  BY <1>2 DEF Ending, LiveIds
<1>4. kept \in SUBSET Image(LiveIds)
  BY <1>1, <1>3 DEF Image
<1>5. a \in LiveIds'
  BY <1>1, ExpiryKeepsHolding DEF LiveIds, Expire, IInv
<1>6. g \in kept
  BY <1>1, <1>5 DEF Image
<1>7. \A d \in g.scope, e \in Domains : Overlap(d, e) => high[e] <= g.token
  BY <1>1 DEF IInv, FencesHold
<1>8. high' = [d \in Domains |-> IF d \in g.scope THEN g.token ELSE high[d]]
  BY <1>1
<1> HIDE DEF g, kept
<1>9. Grants!Write(kept)
  BY <1>1, <1>6, <1>7, <1>8 DEF Grants!Write, Image, kept
<1>10. kept \in SUBSET {[token |-> claim[b].token, scope |-> claim[b].scope] : b \in LiveIds}
  BY <1>4 DEF Image
<1> QED
  BY <1>9, <1>10, Zenon DEF Grants!Next, Grants!Grant, Grants!Write, Grants!Lose

\* The scheduler implements exclusive, fenced grants of its conflict domains.
THEOREM Refinement == Spec => RefinesFencedExclusion
<1>1. Init => Grants!Init
  <2> SUFFICES ASSUME Init PROVE Grants!Init
    OBVIOUS
  <2>1. LiveIds = {}
    BY DEF Init, LiveIds
  <2>2. {claim[a].token : a \in Ids} \ {0} = {}
    BY DEF Init, NoClaim
  <2> QED
    BY <2>1, <2>2 DEF Init, Grants!Init
<1>2. ASSUME IInv, [Next]_vars
      PROVE  [Grants!Next]_Grants!vars
  <2>1. ASSUME Ending, UNCHANGED high PROVE Grants!Next
    BY <1>2, <2>1, EndingRefines
  <2>2. ASSUME NEW now \in Instants, Expire(now), UNCHANGED <<claim, high>>,
               expires' \in [Ids -> Nat]
        PROVE  Grants!Next
    BY <1>2, <2>1, <2>2, ExpireEnds
  <2>3. ASSUME NEW t \in Tasks, NEW r \in Requests, NEW now \in Instants,
               ClaimConflict(t, r, now)
        PROVE  Grants!Next
    BY <1>2, <2>2, <2>3 DEF ClaimConflict, IInv, TypeOK
  <2>4. ASSUME NEW now \in Instants, AssertFencedLease(now) PROVE Grants!Next
    BY <1>2, <2>2, <2>4 DEF AssertFencedLease, IInv, TypeOK
  <2>5. ASSUME NEW a \in Ids, NEW k \in Tokens, NEW now \in Instants,
               NEW ttl \in Ttls, RenewLease(a, k, ttl, now)
        PROVE  Grants!Next
    <3>1. expires' \in [Ids -> Nat]
      BY <1>2, <2>5, SchedulerAssumption DEF RenewLease, IInv, TypeOK
    <3> QED
      BY <2>2, <2>5, <3>1 DEF RenewLease
  <2>6. ASSUME NEW a \in Ids, NEW k \in Tokens, NEW now \in Instants,
               NEW outcome \in {"succeeded", "failed", "cancelled"},
               ReleaseLease(a, k, outcome, now)
        PROVE  Grants!Next
    BY <1>2, <2>1, <2>6, ReleaseEnds DEF ReleaseLease
  <2>7. CASE ActivateStop
    BY <1>2, <2>1, <2>7, ActivateStopEnds DEF ActivateStop
  <2>8. CASE UNCHANGED <<leases, high>>
    BY <2>8 DEF Grants!vars, leases, LiveIds
  <2> QED
    BY <1>2, <2>3, <2>4, <2>5, <2>6, <2>7, <2>8, ClaimRefines, FencedMutationRefines
    DEF Next, vars, leases, CreateTask, TransitionTask, ClearStopRead, ClearStopWrite
<1> QED
  BY <1>1, <1>2, Inductive, PTL DEF Spec, RefinesFencedExclusion, Grants!Spec

-----------------------------------------------------------------------------
(* The blueprint of a mission (blueprint.py, adr.py, mission_bootstrap.py).  *)

DecisionRows == [blueprint : Nat, status : {"proposed", "approved", "rejected", "applied"},
                 analyzed : BOOLEAN]
AttemptRows == [blueprint : Nat, outcome : {"none", "succeeded", "verified", "unverified"}]

BlueprintTyped ==
    /\ \E S : assessments \in Seq(S)
    /\ \E S : versions \in Seq(S)
    /\ \E S : contracts \in Seq(S)
    /\ decisions \in Seq(DecisionRows) /\ attempts \in Seq(AttemptRows)
    /\ called = [c \in Clerks |-> called[c]]

\* What an assessment does not say was answered.
GapsTold == \A n \in DOMAIN assessments : AllGaps \subseteq answers \cup assessments[n]

\* What a call may still rely on, of what it read before its transaction.
CallKnows(call) ==
    /\ call.op = "assess" => AllGaps \subseteq answers \cup call.gaps
    /\ call.op = "version" =>
          /\ call.assessment \in DOMAIN assessments /\ assessments[call.assessment] = {}
          /\ call.parent \in {0} \cup DOMAIN versions
          /\ call.adr # 0 => /\ call.adr \in DOMAIN decisions
                             /\ call.parent = decisions[call.adr].blueprint
    /\ call.op = "propose" => call.blueprint \in Nat /\ call.blueprint \in DOMAIN versions
    /\ call.op = "authorize" => Approved(call.blueprint) /\ call.blueprint \in Nat
    /\ call.op = "attempt" => call.blueprint \in authorized /\ call.blueprint \in Nat
    /\ call.op = "build" =>
          call.attempt \in DOMAIN attempts /\ attempts[call.attempt].blueprint \in authorized

CallsKnow == \A c \in Clerks : \A call : called[c] = call => CallKnows(call)

\* An attempt that is being built is open, and one caller's.
BuildsApart ==
    \A c \in Clerks : called[c].op = "build" =>
        /\ attempts[called[c].attempt].outcome = "none"
        /\ \A d \in Clerks \ {c} :
              called[d].op = "build" => called[d].attempt # called[c].attempt

\* Rows that name rows.
NamesKept ==
    /\ \A b \in DOMAIN versions : versions[b].adr = 0 \/ versions[b].adr \in DOMAIN decisions
    /\ \A b \in DOMAIN versions : versions[b].assessment \in DOMAIN assessments
    /\ \A adr \in DOMAIN decisions : decisions[adr].blueprint \in DOMAIN versions
    /\ \A b \in authorized : Approved(b) /\ b \in Nat
    /\ \A m \in missions : m.attempt \in DOMAIN attempts

BlueprintInv ==
    /\ BlueprintTyped /\ GapsTold /\ CallsKnow /\ BuildsApart /\ NamesKept /\ OneBlueprintLine

\* No row is lost, and what calls rely on stays as it was.
RowsGrow ==
    /\ answers \subseteq answers' /\ signatures \subseteq signatures' /\ authorized \subseteq authorized'
    /\ DOMAIN assessments \subseteq DOMAIN assessments'
    /\ \A n \in DOMAIN assessments : assessments'[n] = assessments[n]
    /\ DOMAIN versions \subseteq DOMAIN versions'
    /\ DOMAIN decisions \subseteq DOMAIN decisions'
    /\ \A adr \in DOMAIN decisions : decisions'[adr].blueprint = decisions[adr].blueprint
    /\ DOMAIN attempts \subseteq DOMAIN attempts'
    /\ \A a \in DOMAIN attempts : attempts'[a].blueprint = attempts[a].blueprint

\* A sequence that grows keeps its entries and is a sequence still.
LEMMA Grown ==
  ASSUME NEW S, NEW s \in Seq(S), NEW e
  PROVE  /\ Append(s, e) \in Seq(S \cup {e})
         /\ Len(s) \in Nat /\ DOMAIN s = 1..Len(s)
         /\ DOMAIN Append(s, e) = 1..(Len(s) + 1)
         /\ Append(s, e)[Len(s) + 1] = e
         /\ \A n \in DOMAIN s : Append(s, e)[n] = s[n]
<1>1. S \subseteq S \cup {e} /\ e \in S \cup {e}
  OBVIOUS
<1>2. s \in Seq(S \cup {e})
  BY <1>1, SeqMonotonic
<1>3. Append(s, e) \in Seq(S \cup {e}) /\ Len(Append(s, e)) = Len(s) + 1
  BY <1>1, <1>2, AppendProperties
<1>4. /\ Append(s, e)[Len(s) + 1] = e
      /\ \A n \in 1..Len(s) : Append(s, e)[n] = s[n]
  BY <1>1, <1>2, AppendProperties
<1>5. Len(s) \in Nat /\ DOMAIN s = 1..Len(s) /\ DOMAIN Append(s, e) = 1..(Len(s) + 1)
  BY <1>2, <1>3, LenProperties
<1> QED
  BY <1>3, <1>4, <1>5


LEMMA BlueprintStart == BLInit => BlueprintInv
<1> SUFFICES ASSUME BLInit PROVE BlueprintInv
  OBVIOUS
<1>1. /\ assessments = <<>> /\ versions = <<>> /\ decisions = <<>> /\ contracts = <<>> /\ attempts = <<>>
      /\ DOMAIN assessments = {} /\ DOMAIN versions = {} /\ DOMAIN decisions = {}
      /\ DOMAIN contracts = {} /\ DOMAIN attempts = {}
      /\ authorized = {} /\ missions = {}
  BY EmptySeq DEF BLInit
<1>2. BlueprintTyped
  BY <1>1, EmptySeq DEF BLInit, BlueprintTyped
<1>3. \A c \in Clerks : called[c].op = "none"
  BY DEF BLInit, NoCall
<1>4. GapsTold /\ NamesKept /\ BuildsApart
  BY <1>1, <1>3 DEF GapsTold, NamesKept, BuildsApart
<1>5. CallsKnow
  BY <1>3 DEF CallsKnow, CallKnows
<1>6. VersionsInLine /\ DecisionsApplied /\ MissionsApproved /\ AttemptsTell
  BY <1>1 DEF VersionsInLine, DecisionsApplied, MissionsApproved, AttemptsTell
<1>7. ContractsFollow
  BY <1>1 DEF ContractsFollow
<1> QED
  BY <1>2, <1>4, <1>5, <1>6, <1>7 DEF BlueprintInv, OneBlueprintLine

\* What a call relies on stays so.
LEMMA KnowledgeStays ==
  ASSUME RowsGrow, NEW call, CallKnows(call)
  PROVE  CallKnows(call)'
<1>1. /\ call.op = "assess" => AllGaps \subseteq answers' \cup call.gaps
      /\ call.op = "authorize" => Approved(call.blueprint)' /\ call.blueprint \in Nat
      /\ call.op = "attempt" => call.blueprint \in authorized' /\ call.blueprint \in Nat
      /\ call.op = "propose" => call.blueprint \in Nat /\ call.blueprint \in DOMAIN versions'
  BY DEF RowsGrow, CallKnows, Approved
<1>2. call.op = "version" =>
          /\ call.assessment \in DOMAIN assessments' /\ assessments'[call.assessment] = {}
          /\ call.parent \in {0} \cup DOMAIN versions'
          /\ call.adr # 0 => /\ call.adr \in DOMAIN decisions'
                             /\ call.parent = decisions'[call.adr].blueprint
  BY DEF RowsGrow, CallKnows
<1>3. call.op = "build" =>
          call.attempt \in DOMAIN attempts' /\ attempts'[call.attempt].blueprint \in authorized'
  BY DEF RowsGrow, CallKnows
<1> QED
  BY <1>1, <1>2, <1>3 DEF CallKnows, AllGaps, ConflictedSubjects

\* A call goes on with something else than a build, while rows are added.
LEMMA CallGoesOn ==
  ASSUME BlueprintInv, NEW c \in Clerks, NEW call, called' = [called EXCEPT ![c] = call],
         call.op # "build", RowsGrow, attempts' = attempts, CallKnows(call)'
  PROVE  /\ CallsKnow' /\ BuildsApart'
         /\ called' = [d \in Clerks |-> called'[d]]
<1>1. /\ called'[c] = call /\ \A d \in Clerks \ {c} : called'[d] = called[d]
      /\ called' = [d \in Clerks |-> called'[d]]
  BY DEF BlueprintInv, BlueprintTyped
<1>2. CallsKnow'
  <2>1. \A k : CallKnows(k) => CallKnows(k)'
    BY KnowledgeStays
  <2> QED
    BY <1>1, <2>1 DEF BlueprintInv, CallsKnow
<1>3. BuildsApart'
  BY <1>1 DEF BlueprintInv, BuildsApart
<1> QED
  BY <1>1, <1>2, <1>3

\* A call that reads, or ends without a trace.
LEMMA ReadingStays ==
  ASSUME BlueprintInv, NEW c \in Clerks, NEW call, called' = [called EXCEPT ![c] = call],
         call.op # "build", CallKnows(call),
         UNCHANGED <<intakeRows, blueprintRows, decisionRows, bootRows>>
  PROVE  BlueprintInv'
<1>1. RowsGrow /\ attempts' = attempts
  BY DEF RowsGrow, intakeRows, blueprintRows, decisionRows, bootRows
<1>2. CallKnows(call)'
  BY <1>1, KnowledgeStays
<1>3. CallsKnow' /\ BuildsApart' /\ called' = [d \in Clerks |-> called'[d]]
  BY <1>1, <1>2, CallGoesOn
<1>4. BlueprintTyped'
  BY <1>3 DEF BlueprintInv, BlueprintTyped, intakeRows, blueprintRows, decisionRows, bootRows
<1>5. GapsTold' /\ NamesKept'
  BY DEF BlueprintInv, GapsTold, NamesKept, Approved, AllGaps, ConflictedSubjects,
         intakeRows, blueprintRows, decisionRows, bootRows
<1>6. UNCHANGED <<answers, assessments, versions, signatures, authorized, decisions, contracts,
                  attempts, missions>>
  BY DEF intakeRows, blueprintRows, decisionRows, bootRows
<1>7. VersionsInLine'
  BY <1>6 DEF BlueprintInv, OneBlueprintLine, VersionsInLine
<1>8. DecisionsApplied'
  BY <1>6 DEF BlueprintInv, OneBlueprintLine, DecisionsApplied
<1>9. ContractsFollow'
  BY <1>6 DEF BlueprintInv, OneBlueprintLine, ContractsFollow
<1>10. MissionsApproved' /\ AttemptsTell'
  BY <1>6 DEF BlueprintInv, OneBlueprintLine, MissionsApproved, AttemptsTell, Approved
<1> QED
  BY <1>3, <1>4, <1>5, <1>7, <1>8, <1>9, <1>10 DEF BlueprintInv, OneBlueprintLine

\* The readings themselves.
LEMMA EveryReadingStays ==
  ASSUME BlueprintInv, NEW c \in Clerks,
         \/ AssessReads(c) \/ AnswerReads(c) \/ CreateReads(c) \/ AmendReads(c) \/ ApplyReads(c)
         \/ SignReads(c) \/ AuthorizeReads(c) \/ ProposeReads(c) \/ BootReads(c) \/ Fails(c)
  PROVE  BlueprintInv'
<1>0. ASSUME NEW call, Reads(c, call), call.op # "build", CallKnows(call) PROVE BlueprintInv'
  BY <1>0, ReadingStays DEF Reads
<1>1. DOMAIN versions \subseteq Nat
  <2>1. PICK S : versions \in Seq(S)
    BY DEF BlueprintInv, BlueprintTyped
  <2> QED
    BY <2>1, LenProperties
<1>2. CASE AssessReads(c)
  <2>1. PICK call : call = [op |-> "assess", gaps |-> AllGaps \ answers]
    OBVIOUS
  <2>2. call.op = "assess" /\ CallKnows(call)
    BY <2>1 DEF CallKnows
  <2> QED
    BY <1>0, <1>2, <2>1, <2>2 DEF AssessReads
<1>3. CASE AnswerReads(c)
  <2>1. PICK gap : Reads(c, [op |-> "answer", gap |-> gap])
    BY <1>3 DEF AnswerReads
  <2>2. PICK call : call = [op |-> "answer", gap |-> gap]
    OBVIOUS
  <2>3. call.op = "answer" /\ CallKnows(call)
    BY <2>2 DEF CallKnows
  <2> QED
    BY <1>0, <2>1, <2>2, <2>3
<1>4. ASSUME NEW parent \in {0} \cup DOMAIN versions, NEW adr,
             adr # 0 => adr \in DOMAIN decisions /\ parent = decisions[adr].blueprint,
             VersionReads(c, parent, adr)
      PROVE  BlueprintInv'
  <2>1. PICK call : call = [op |-> "version", parent |-> parent, adr |-> adr,
                            assessment |-> Len(assessments)]
    OBVIOUS
  <2>2. Reads(c, call) /\ IntakeReady
    BY <1>4, <2>1 DEF VersionReads
  <2>3. Len(assessments) \in DOMAIN assessments
    <3>1. PICK S : assessments \in Seq(S)
      BY DEF BlueprintInv, BlueprintTyped
    <3>2. assessments # <<>>
      BY <2>2 DEF IntakeReady
    <3> QED
      BY <3>1, <3>2, LenProperties, EmptySeq
  <2>4. assessments[Len(assessments)] = {}
    BY <2>2 DEF IntakeReady, NewestGaps, Verdict
  <2>5. call.op = "version" /\ CallKnows(call)
    BY <1>4, <2>1, <2>3, <2>4 DEF CallKnows
  <2> QED
    BY <1>0, <2>2, <2>5
<1>5. CASE CreateReads(c)
  BY <1>4, <1>5 DEF CreateReads
<1>6. CASE AmendReads(c)
  BY <1>4, <1>6 DEF AmendReads
<1>7. CASE ApplyReads(c)
  <2>1. PICK adr \in DOMAIN decisions :
           Latest(decisions[adr].blueprint) /\ VersionReads(c, decisions[adr].blueprint, adr)
    BY <1>7 DEF ApplyReads
  <2> QED
    BY <1>4, <2>1 DEF BlueprintInv, NamesKept
<1>8. CASE SignReads(c)
  <2>1. PICK b, decision : Reads(c, [op |-> "sign", blueprint |-> b, decision |-> decision])
    BY <1>8 DEF SignReads
  <2>2. PICK call : call = [op |-> "sign", blueprint |-> b, decision |-> decision]
    OBVIOUS
  <2>3. call.op = "sign" /\ CallKnows(call)
    BY <2>2 DEF CallKnows
  <2> QED
    BY <1>0, <2>1, <2>2, <2>3
<1>9. CASE AuthorizeReads(c)
  <2>1. PICK b \in DOMAIN versions : Approved(b) /\ Reads(c, [op |-> "authorize", blueprint |-> b])
    BY <1>9 DEF AuthorizeReads
  <2>2. PICK call : call = [op |-> "authorize", blueprint |-> b]
    OBVIOUS
  <2>3. call.op = "authorize" /\ CallKnows(call)
    BY <1>1, <2>1, <2>2 DEF CallKnows
  <2> QED
    BY <1>0, <2>1, <2>2, <2>3
<1>10. CASE ProposeReads(c)
  <2>1. PICK b \in DOMAIN versions : Reads(c, [op |-> "propose", blueprint |-> b])
    BY <1>10 DEF ProposeReads
  <2>2. PICK call : call = [op |-> "propose", blueprint |-> b]
    OBVIOUS
  <2>3. call.op = "propose" /\ CallKnows(call)
    BY <1>1, <2>2 DEF CallKnows
  <2> QED
    BY <1>0, <2>1, <2>2, <2>3
<1>11. CASE BootReads(c)
  <2>1. PICK b \in authorized :
           Latest(b) /\ Reads(c, [op |-> "attempt", blueprint |-> b, state |-> ResourceState])
    BY <1>11 DEF BootReads
  <2>2. PICK call : call = [op |-> "attempt", blueprint |-> b, state |-> ResourceState]
    OBVIOUS
  <2>3. b \in Nat
    BY DEF BlueprintInv, NamesKept
  <2>4. call.op = "attempt" /\ CallKnows(call)
    BY <2>2, <2>3 DEF CallKnows
  <2> QED
    BY <1>0, <2>1, <2>2, <2>4
<1>12. CASE Fails(c)
  <2>1. PICK call : call = NoCall
    OBVIOUS
  <2>2. call.op = "none" /\ CallKnows(call)
    BY <2>1 DEF NoCall, CallKnows
  <2>3. called' = [called EXCEPT ![c] = call]
    BY <1>12, <2>1 DEF Fails, Returns
  <2> QED
    BY <1>12, <2>2, <2>3, ReadingStays DEF Fails
<1> QED
  BY <1>2, <1>3, <1>5, <1>6, <1>7, <1>8, <1>9, <1>10, <1>11, <1>12

\* The call returns, while rows are added.
LEMMA CallReturns ==
  ASSUME BlueprintInv, NEW c \in Clerks, Returns(c), RowsGrow, attempts' = attempts
  PROVE  /\ CallsKnow' /\ BuildsApart'
         /\ called' = [d \in Clerks |-> called'[d]]
<1>1. PICK call : call = NoCall
  OBVIOUS
<1>2. call.op = "none" /\ CallKnows(call)
  BY <1>1 DEF NoCall, CallKnows
<1>3. CallKnows(call)'
  BY <1>2, KnowledgeStays
<1>4. called' = [called EXCEPT ![c] = call] /\ call.op # "build"
  BY <1>1, <1>2 DEF Returns
<1> QED
  BY <1>3, <1>4, CallGoesOn

\* The parts of the property, while the rows they speak of stay.
LEMMA LineStays ==
  ASSUME BlueprintInv, versions' = versions, RowsGrow
  PROVE  VersionsInLine'
  BY DEF BlueprintInv, OneBlueprintLine, VersionsInLine, NamesKept, RowsGrow

LEMMA DecisionsStay ==
  ASSUME BlueprintInv, UNCHANGED <<versions, decisions>>
  PROVE  DecisionsApplied'
  BY DEF BlueprintInv, OneBlueprintLine, DecisionsApplied

LEMMA ContractsStay ==
  ASSUME BlueprintInv, UNCHANGED <<versions, contracts>>
  PROVE  ContractsFollow'
  BY DEF BlueprintInv, OneBlueprintLine, ContractsFollow

LEMMA MissionsStay ==
  ASSUME BlueprintInv, UNCHANGED missions, RowsGrow
  PROVE  MissionsApproved'
  BY DEF BlueprintInv, OneBlueprintLine, MissionsApproved, Approved, RowsGrow

LEMMA AttemptsStay ==
  ASSUME BlueprintInv, UNCHANGED <<missions, attempts>>
  PROVE  AttemptsTell'
  BY DEF BlueprintInv, OneBlueprintLine, AttemptsTell

LEMMA AssessmentStays ==
  ASSUME BlueprintInv, NEW c \in Clerks, AssessWrites(c)
  PROVE  BlueprintInv'
<1>1. PICK gaps : gaps = called[c].gaps
  OBVIOUS
<1>2. /\ assessments' = assessments \/ assessments' = Append(assessments, gaps)
      /\ Returns(c) /\ AllGaps \subseteq answers \cup gaps
      /\ UNCHANGED <<answers, versions, signatures, authorized, decisions, contracts, attempts, missions>>
  BY <1>1 DEF AssessWrites, BlueprintInv, CallsKnow, CallKnows, blueprintRows, decisionRows, bootRows
<1>3. PICK S : assessments \in Seq(S)
  BY DEF BlueprintInv, BlueprintTyped
<1>4. /\ \E T : assessments' \in Seq(T)
      /\ DOMAIN assessments \subseteq DOMAIN assessments'
      /\ \A n \in DOMAIN assessments : assessments'[n] = assessments[n]
      /\ \A n \in DOMAIN assessments' \ DOMAIN assessments : assessments'[n] = gaps
  <2>1. CASE assessments' = assessments
    BY <1>3, <2>1
  <2>2. CASE assessments' = Append(assessments, gaps)
    <3>1. /\ assessments' \in Seq(S \cup {gaps}) /\ Len(assessments) \in Nat
          /\ DOMAIN assessments = 1..Len(assessments)
          /\ DOMAIN assessments' = 1..(Len(assessments) + 1)
          /\ assessments'[Len(assessments) + 1] = gaps
          /\ \A n \in DOMAIN assessments : assessments'[n] = assessments[n]
      BY <1>3, <2>2, Grown
    <3>2. \A n \in DOMAIN assessments' \ DOMAIN assessments : n = Len(assessments) + 1
      BY <3>1
    <3>3. DOMAIN assessments \subseteq DOMAIN assessments' /\ \E T : assessments' \in Seq(T)
      BY <3>1
    <3> QED
      BY <3>1, <3>2, <3>3
  <2> QED
    BY <1>2, <2>1, <2>2
<1>5. RowsGrow
  BY <1>2, <1>4 DEF RowsGrow
<1>6. CallsKnow' /\ BuildsApart' /\ called' = [d \in Clerks |-> called'[d]]
  BY <1>2, <1>5, CallReturns
<1>7. BlueprintTyped'
  BY <1>2, <1>4, <1>6 DEF BlueprintInv, BlueprintTyped
<1>8. GapsTold'
  BY <1>2, <1>4 DEF BlueprintInv, GapsTold
<1>9. NamesKept'
  BY <1>2, <1>4 DEF BlueprintInv, NamesKept, Approved
<1> QED
  BY <1>2, <1>5, <1>6, <1>7, <1>8, <1>9, LineStays, DecisionsStay, ContractsStay, MissionsStay,
     AttemptsStay DEF BlueprintInv, OneBlueprintLine

\* Rows that are sets: answers, signatures and authorizations.
LEMMA SetsStay ==
  ASSUME BlueprintInv, NEW c \in Clerks, AnswerWrites(c) \/ SignWrites(c) \/ AuthorizeWrites(c)
  PROVE  BlueprintInv'
<1>1. /\ answers \subseteq answers' /\ signatures \subseteq signatures' /\ authorized \subseteq authorized'
      /\ \A b \in authorized' \ authorized : Approved(b) /\ b \in Nat
      /\ Returns(c)
      /\ UNCHANGED <<assessments, versions, decisions, contracts, attempts, missions>>
  <2>1. CASE AnswerWrites(c)
    BY <2>1 DEF AnswerWrites, blueprintRows, decisionRows, bootRows
  <2>2. CASE SignWrites(c)
    BY <2>2 DEF SignWrites, intakeRows, decisionRows, bootRows
  <2>3. CASE AuthorizeWrites(c)
    <3>1. Approved(called[c].blueprint) /\ called[c].blueprint \in Nat
      BY <2>3 DEF AuthorizeWrites, BlueprintInv, CallsKnow, CallKnows
    <3> QED
      BY <2>3, <3>1 DEF AuthorizeWrites, intakeRows, decisionRows, bootRows
  <2> QED
    BY <2>1, <2>2, <2>3
<1>2. RowsGrow
  BY <1>1 DEF RowsGrow
<1>3. CallsKnow' /\ BuildsApart' /\ called' = [d \in Clerks |-> called'[d]]
  BY <1>1, <1>2, CallReturns
<1>4. BlueprintTyped'
  BY <1>1, <1>3 DEF BlueprintInv, BlueprintTyped
<1>5. GapsTold'
  BY <1>1 DEF BlueprintInv, GapsTold
<1>6. NamesKept'
  BY <1>1 DEF BlueprintInv, NamesKept, Approved
<1> QED
  BY <1>1, <1>2, <1>3, <1>4, <1>5, <1>6, LineStays, DecisionsStay, ContractsStay, MissionsStay,
     AttemptsStay DEF BlueprintInv, OneBlueprintLine

\* The types of rows that change.
LEMMA DecisionRow ==
  ASSUME NEW row \in DecisionRows
  PROVE  /\ row = [blueprint |-> row.blueprint, status |-> row.status, analyzed |-> row.analyzed]
         /\ \A s \in {"proposed", "approved", "rejected", "applied"} :
               /\ [row EXCEPT !.status = s] \in DecisionRows
               /\ [row EXCEPT !.status = s].status = s
               /\ [row EXCEPT !.status = s].blueprint = row.blueprint
         /\ [row EXCEPT !.analyzed = TRUE] \in DecisionRows
         /\ [row EXCEPT !.analyzed = TRUE].status = row.status
         /\ [row EXCEPT !.analyzed = TRUE].blueprint = row.blueprint
  BY DEF DecisionRows

\* An entry of a sequence is replaced.
LEMMA Replaced ==
  ASSUME NEW S, NEW s \in Seq(S), NEW n \in DOMAIN s, NEW e \in S
  PROVE  /\ [s EXCEPT ![n] = e] \in Seq(S) /\ DOMAIN [s EXCEPT ![n] = e] = DOMAIN s
         /\ [s EXCEPT ![n] = e][n] = e
         /\ \A k \in DOMAIN s \ {n} : [s EXCEPT ![n] = e][k] = s[k]
<1>1. s \in [1..Len(s) -> S] /\ Len(s) \in Nat /\ DOMAIN s = 1..Len(s)
  BY LenProperties
<1>2. [s EXCEPT ![n] = e] \in [1..Len(s) -> S]
  BY <1>1
<1>3. [s EXCEPT ![n] = e] \in Seq(S)
  BY <1>1, <1>2, IsASeq
<1> QED
  BY <1>1, <1>3

LEMMA ProposalStays ==
  ASSUME BlueprintInv, NEW c \in Clerks, ProposeWrites(c)
  PROVE  BlueprintInv'
<1>1. PICK new : new = [blueprint |-> called[c].blueprint, status |-> "proposed", analyzed |-> FALSE]
  OBVIOUS
<1>2. called[c].blueprint \in Nat /\ called[c].blueprint \in DOMAIN versions
  BY DEF ProposeWrites, BlueprintInv, CallsKnow, CallKnows
<1>3. new \in DecisionRows /\ new.blueprint \in DOMAIN versions /\ new.status = "proposed"
  BY <1>1, <1>2 DEF DecisionRows
<1>4. /\ decisions' = Append(decisions, new) /\ Returns(c)
      /\ UNCHANGED <<answers, assessments, versions, signatures, authorized, contracts, attempts, missions>>
  BY <1>1 DEF ProposeWrites, intakeRows, blueprintRows, bootRows
<1>5. /\ decisions' \in Seq(DecisionRows \cup {new}) /\ Len(decisions) \in Nat
      /\ DOMAIN decisions = 1..Len(decisions) /\ DOMAIN decisions' = 1..(Len(decisions) + 1)
      /\ decisions'[Len(decisions) + 1] = new
      /\ \A adr \in DOMAIN decisions : decisions'[adr] = decisions[adr]
  BY <1>4, Grown DEF BlueprintInv, BlueprintTyped
<1>6. /\ decisions' \in Seq(DecisionRows) /\ DOMAIN decisions \subseteq DOMAIN decisions'
      /\ \A adr \in DOMAIN decisions' \ DOMAIN decisions : adr = Len(decisions) + 1 /\ adr # 0
  <2>1. DecisionRows \cup {new} = DecisionRows
    BY <1>3
  <2> QED
    BY <1>5, <2>1
<1>7. RowsGrow
  BY <1>4, <1>5, <1>6 DEF RowsGrow
<1>8. CallsKnow' /\ BuildsApart' /\ called' = [d \in Clerks |-> called'[d]]
  BY <1>4, <1>7, CallReturns
<1>9. BlueprintTyped'
  BY <1>4, <1>6, <1>8 DEF BlueprintInv, BlueprintTyped
<1>10. GapsTold'
  BY <1>4 DEF BlueprintInv, GapsTold
<1>11. NamesKept'
  BY <1>3, <1>4, <1>5, <1>6 DEF BlueprintInv, NamesKept, Approved
<1>12. DecisionsApplied'
  <2> SUFFICES ASSUME NEW adr \in DOMAIN decisions'
               PROVE  IF decisions'[adr].status # "applied"
                      THEN {b \in DOMAIN versions : versions[b].adr = adr} = {}
                      ELSE \E b \in {d \in DOMAIN versions : versions[d].adr = adr} :
                              /\ {d \in DOMAIN versions : versions[d].adr = adr} = {b}
                              /\ versions[b].parent = decisions'[adr].blueprint
    BY <1>4 DEF DecisionsApplied
  <2>1. CASE adr \in DOMAIN decisions
    BY <1>5, <2>1 DEF BlueprintInv, OneBlueprintLine, DecisionsApplied
  <2>2. CASE adr \notin DOMAIN decisions
    <3>1. decisions'[adr].status = "proposed"
      BY <1>3, <1>5, <1>6, <2>2
    <3>2. \A b \in DOMAIN versions : versions[b].adr # adr
      BY <1>6, <2>2 DEF BlueprintInv, NamesKept
    <3> QED
      BY <3>1, <3>2
  <2> QED
    BY <2>1, <2>2
<1> QED
  BY <1>4, <1>7, <1>8, <1>9, <1>10, <1>11, <1>12, LineStays, ContractsStay, MissionsStay,
     AttemptsStay DEF BlueprintInv, OneBlueprintLine

LEMMA DecisionStays ==
  ASSUME BlueprintInv, NEW adr \in DOMAIN decisions, AnalyzeImpact(adr) \/ Decide(adr)
  PROVE  BlueprintInv'
<1>0. decisions \in Seq(DecisionRows)
  BY DEF BlueprintInv, BlueprintTyped
<1>1. decisions[adr] \in DecisionRows
  BY <1>0, ElementOfSeq, LenProperties
<1>2. PICK new \in DecisionRows :
         /\ Decides(adr, new) /\ new.blueprint = decisions[adr].blueprint
         /\ decisions[adr].status = "proposed" /\ new.status # "applied"
  <2>1. CASE AnalyzeImpact(adr)
    <3>1. PICK new : new = [decisions[adr] EXCEPT !.analyzed = TRUE]
      OBVIOUS
    <3>2. /\ new \in DecisionRows /\ new.status = decisions[adr].status
          /\ new.blueprint = decisions[adr].blueprint
      BY <1>1, <3>1, DecisionRow
    <3> QED
      BY <2>1, <3>1, <3>2 DEF AnalyzeImpact
  <2>2. CASE Decide(adr)
    <3>1. PICK chosen \in {"approved", "rejected"} :
             Decides(adr, [decisions[adr] EXCEPT !.status = chosen])
      BY <2>2 DEF Decide
    <3>2. PICK new : new = [decisions[adr] EXCEPT !.status = chosen]
      OBVIOUS
    <3>3. /\ new \in DecisionRows /\ new.status = chosen
          /\ new.blueprint = decisions[adr].blueprint
      BY <1>1, <3>2, DecisionRow
    <3> QED
      BY <2>2, <3>1, <3>2, <3>3 DEF Decide
  <2> QED
    BY <2>1, <2>2
<1>3. /\ decisions' = [decisions EXCEPT ![adr] = new]
      /\ UNCHANGED <<answers, assessments, versions, signatures, authorized, contracts, attempts,
                     missions, called>>
  BY <1>2 DEF Decides, intakeRows, blueprintRows, bootRows
<1>4. /\ decisions' \in Seq(DecisionRows) /\ DOMAIN decisions' = DOMAIN decisions
      /\ decisions'[adr] = new /\ \A k \in DOMAIN decisions \ {adr} : decisions'[k] = decisions[k]
  BY <1>0, <1>3, Replaced
<1>5. RowsGrow
  BY <1>2, <1>3, <1>4 DEF RowsGrow
<1>6. CallsKnow' /\ BuildsApart'
  <2>1. \A k : CallKnows(k) => CallKnows(k)'
    BY <1>5, KnowledgeStays
  <2> QED
    BY <1>3, <2>1 DEF BlueprintInv, CallsKnow, BuildsApart
<1>7. BlueprintTyped'
  BY <1>3, <1>4 DEF BlueprintInv, BlueprintTyped
<1>8. GapsTold'
  BY <1>3 DEF BlueprintInv, GapsTold
<1>9. NamesKept'
  BY <1>2, <1>3, <1>4 DEF BlueprintInv, NamesKept, Approved
<1>10. DecisionsApplied'
  BY <1>2, <1>3, <1>4 DEF BlueprintInv, OneBlueprintLine, DecisionsApplied
<1> QED
  BY <1>3, <1>5, <1>6, <1>7, <1>8, <1>9, <1>10, LineStays, ContractsStay, MissionsStay,
     AttemptsStay DEF BlueprintInv, OneBlueprintLine

\* What a version brings in: the next of the line, and with a decision its contract.
LEMMA VersionStays ==
  ASSUME BlueprintInv, NEW c \in Clerks, VersionWrites(c)
  PROVE  BlueprintInv'
<1>1. PICK call : call = called[c]
  OBVIOUS
<1>2. PICK new : new = [version |-> NextVersion(call.parent), parent |-> call.parent, adr |-> call.adr,
                        assessment |-> call.assessment]
  OBVIOUS
<1>3. PICK last : last = Len(versions) + 1
  OBVIOUS
<1>4. /\ call.op = "version" /\ CallKnows(call)
      /\ VersionFree(NextVersion(call.parent)) /\ versions' = Append(versions, new)
      /\ Applies(call.adr) /\ Returns(c)
      /\ UNCHANGED <<answers, assessments, signatures, authorized, attempts, missions>>
  BY <1>1, <1>2 DEF VersionWrites, intakeRows, bootRows, BlueprintInv, CallsKnow
<1>5. /\ new.version = NextVersion(call.parent) /\ new.parent = call.parent /\ new.adr = call.adr
      /\ new.assessment = call.assessment
  BY <1>2
<1>6. PICK S : versions \in Seq(S)
  BY DEF BlueprintInv, BlueprintTyped
<1>7. /\ versions' \in Seq(S \cup {new}) /\ Len(versions) \in Nat /\ last \in Nat \ {0}
      /\ DOMAIN versions = 1..(last - 1) /\ DOMAIN versions' = 1..last
      /\ versions'[last] = new /\ \A b \in DOMAIN versions : versions'[b] = versions[b]
  BY <1>3, <1>4, <1>6, Grown
<1>8. /\ DOMAIN versions' = DOMAIN versions \cup {last} /\ last \notin DOMAIN versions
      /\ \A b \in DOMAIN versions : b < last
  BY <1>7
<1>9. call.parent = last - 1 /\ NextVersion(call.parent) = last
  <2>1. \A b \in DOMAIN versions : versions[b].version = b
    BY DEF BlueprintInv, OneBlueprintLine, VersionsInLine
  <2>2. NextVersion(call.parent) = call.parent + 1
    BY <1>4, <1>7, <2>1 DEF NextVersion, CallKnows
  <2>3. call.parent \in 0..(last - 1)
    BY <1>4, <1>7 DEF CallKnows
  <2>4. call.parent + 1 \notin DOMAIN versions
    BY <1>4, <2>1, <2>2 DEF VersionFree
  <2> QED
    BY <1>7, <2>2, <2>3, <2>4
<1>10. /\ call.assessment \in DOMAIN assessments /\ assessments[call.assessment] = {}
       /\ AllGaps \subseteq answers
  BY <1>4 DEF CallKnows, BlueprintInv, GapsTold
<1>11. /\ decisions' \in Seq(DecisionRows) /\ DOMAIN decisions' = DOMAIN decisions
       /\ \A adr \in DOMAIN decisions : decisions'[adr].blueprint = decisions[adr].blueprint
       /\ \A adr \in DOMAIN decisions \ {call.adr} : decisions'[adr] = decisions[adr]
       /\ call.adr # 0 =>
             /\ call.adr \in DOMAIN decisions /\ decisions[call.adr].status = "approved"
             /\ decisions'[call.adr].status = "applied"
             /\ call.parent = decisions[call.adr].blueprint
             /\ contracts' = Append(contracts, call.adr)
       /\ call.adr = 0 => contracts' = contracts /\ decisions' = decisions
  <2>0. decisions \in Seq(DecisionRows)
    BY DEF BlueprintInv, BlueprintTyped
  <2>1. CASE call.adr = 0
    BY <1>4, <2>0, <2>1 DEF Applies, decisionRows
  <2>2. CASE call.adr # 0
    <3>1. /\ call.adr \in DOMAIN decisions /\ call.parent = decisions[call.adr].blueprint
          /\ decisions[call.adr].status = "approved" /\ contracts' = Append(contracts, call.adr)
          /\ decisions' = [decisions EXCEPT ![call.adr].status = "applied"]
      BY <1>4, <2>2 DEF Applies, CallKnows
    <3>2. decisions[call.adr] \in DecisionRows
      BY <2>0, <3>1, ElementOfSeq, LenProperties
    <3>3. PICK row : row = [decisions[call.adr] EXCEPT !.status = "applied"]
      OBVIOUS
    <3>4. /\ row \in DecisionRows /\ row.status = "applied"
          /\ row.blueprint = decisions[call.adr].blueprint
      BY <3>2, <3>3, DecisionRow
    <3>5. decisions' = [decisions EXCEPT ![call.adr] = row]
      BY <3>1, <3>3
    <3>6. /\ decisions' \in Seq(DecisionRows) /\ DOMAIN decisions' = DOMAIN decisions
          /\ decisions'[call.adr] = row
          /\ \A k \in DOMAIN decisions \ {call.adr} : decisions'[k] = decisions[k]
      BY <2>0, <3>1, <3>4, <3>5, Replaced
    <3> QED
      BY <2>2, <3>1, <3>4, <3>6
  <2> QED
    BY <2>1, <2>2
<1>12. RowsGrow
  BY <1>4, <1>8, <1>11 DEF RowsGrow
<1>13. CallsKnow' /\ BuildsApart' /\ called' = [d \in Clerks |-> called'[d]]
  BY <1>4, <1>12, CallReturns
<1>14. /\ \E T : contracts' \in Seq(T)
       /\ DOMAIN contracts \subseteq DOMAIN contracts'
       /\ \A n \in DOMAIN contracts : contracts'[n] = contracts[n]
       /\ call.adr = 0 => DOMAIN contracts' = DOMAIN contracts
       /\ call.adr # 0 => \E m \in DOMAIN contracts' \ DOMAIN contracts :
             /\ contracts'[m] = call.adr /\ DOMAIN contracts' = DOMAIN contracts \cup {m}
             /\ \A n \in DOMAIN contracts : n < m /\ ~(m < n)
             /\ ~(m < m)
  <2>1. PICK T : contracts \in Seq(T)
    BY DEF BlueprintInv, BlueprintTyped
  <2>2. CASE call.adr = 0
    BY <1>11, <2>1, <2>2
  <2>3. CASE call.adr # 0
    <3>1. contracts' = Append(contracts, call.adr)
      BY <1>11, <2>3
    <3>2. PICK m : m = Len(contracts) + 1
      OBVIOUS
    <3>3. /\ contracts' \in Seq(T \cup {call.adr}) /\ Len(contracts) \in Nat
          /\ DOMAIN contracts = 1..Len(contracts) /\ DOMAIN contracts' = 1..m
          /\ contracts'[m] = call.adr
          /\ \A n \in DOMAIN contracts : contracts'[n] = contracts[n]
      BY <2>1, <3>1, <3>2, Grown
    <3>4. /\ m \in Nat /\ m \notin DOMAIN contracts /\ DOMAIN contracts' = DOMAIN contracts \cup {m}
          /\ \A n \in DOMAIN contracts : n < m /\ ~(m < n)
          /\ ~(m < m)
      BY <3>2, <3>3
    <3> QED
      BY <2>3, <3>3, <3>4
  <2> QED
    BY <2>2, <2>3
<1>15. BlueprintTyped'
  <2>1. \E T : versions' \in Seq(T)
    BY <1>7
  <2> QED
    BY <1>4, <1>11, <1>13, <1>14, <2>1 DEF BlueprintInv, BlueprintTyped
<1>16. GapsTold'
  BY <1>4 DEF BlueprintInv, GapsTold
<1>17. NamesKept'
  BY <1>4, <1>5, <1>7, <1>8, <1>10, <1>11 DEF BlueprintInv, NamesKept, Approved
<1>18. VersionsInLine'
  <2> SUFFICES ASSUME NEW b \in DOMAIN versions'
               PROVE  /\ versions'[b].version = b /\ versions'[b].parent = b - 1
                      /\ assessments[versions'[b].assessment] = {}
    BY <1>4, <1>10 DEF VersionsInLine
  <2>1. CASE b = last
    BY <1>5, <1>7, <1>9, <1>10, <2>1
  <2>2. CASE b \in DOMAIN versions
    BY <1>7, <2>2 DEF BlueprintInv, OneBlueprintLine, VersionsInLine
  <2> QED
    BY <1>8, <2>1, <2>2
<1>19. \A b \in DOMAIN versions : call.adr # 0 => versions[b].adr # call.adr
  BY <1>11 DEF BlueprintInv, OneBlueprintLine, DecisionsApplied
<1>20. DOMAIN decisions \subseteq Nat \ {0}
  <2>1. Len(decisions) \in Nat /\ DOMAIN decisions = 1..Len(decisions)
    BY LenProperties DEF BlueprintInv, BlueprintTyped
  <2> QED
    BY <2>1
<1>21. DecisionsApplied'
  <2> SUFFICES ASSUME NEW adr \in DOMAIN decisions
               PROVE  IF decisions'[adr].status # "applied"
                      THEN {b \in DOMAIN versions' : versions'[b].adr = adr} = {}
                      ELSE \E b \in {d \in DOMAIN versions' : versions'[d].adr = adr} :
                              /\ {d \in DOMAIN versions' : versions'[d].adr = adr} = {b}
                              /\ versions'[b].parent = decisions'[adr].blueprint
    BY <1>11 DEF DecisionsApplied
  <2>1. CASE adr = call.adr
    <3>1. call.adr # 0 /\ decisions'[adr].status = "applied"
      BY <1>11, <1>20, <2>1
    <3>2. {d \in DOMAIN versions' : versions'[d].adr = adr} = {last}
      BY <1>5, <1>7, <1>8, <1>19, <2>1, <3>1
    <3>3. versions'[last].parent = decisions'[adr].blueprint
      BY <1>5, <1>7, <1>11, <2>1, <3>1
    <3> QED
      BY <3>1, <3>2, <3>3
  <2>2. CASE adr # call.adr
    <3>1. {d \in DOMAIN versions' : versions'[d].adr = adr} = {d \in DOMAIN versions : versions[d].adr = adr}
      BY <1>5, <1>7, <1>8, <2>2
    <3>2. decisions'[adr] = decisions[adr]
      BY <1>11, <2>2
    <3>3. IF decisions[adr].status # "applied"
          THEN {b \in DOMAIN versions : versions[b].adr = adr} = {}
          ELSE \E b \in {d \in DOMAIN versions : versions[d].adr = adr} :
                  /\ {d \in DOMAIN versions : versions[d].adr = adr} = {b}
                  /\ versions[b].parent = decisions[adr].blueprint
      BY DEF BlueprintInv, OneBlueprintLine, DecisionsApplied
    <3> QED
      BY <1>7, <3>1, <3>2, <3>3
  <2> QED
    BY <2>1, <2>2
<1>22. ContractsFollow'
  <2>0. /\ {contracts[n] : n \in DOMAIN contracts} = {versions[b].adr : b \in DOMAIN versions} \ {0}
        /\ \A n, k \in DOMAIN contracts, b, d \in DOMAIN versions :
              n < k /\ versions[b].adr = contracts[n] /\ versions[d].adr = contracts[k] => b < d
    BY DEF BlueprintInv, OneBlueprintLine, ContractsFollow
  <2>1. CASE call.adr = 0
    <3>1. {contracts'[n] : n \in DOMAIN contracts'} = {contracts[n] : n \in DOMAIN contracts}
      BY <1>14, <2>1
    <3>2. {versions'[b].adr : b \in DOMAIN versions'} \ {0} = {versions[b].adr : b \in DOMAIN versions} \ {0}
      BY <1>5, <1>7, <1>8, <2>1
    <3>3. \A n \in DOMAIN contracts' : contracts'[n] = contracts[n] /\ contracts[n] # 0
      BY <1>14, <2>0, <2>1
    <3>4. \A n, k \in DOMAIN contracts', b, d \in DOMAIN versions' :
             n < k /\ versions'[b].adr = contracts'[n] /\ versions'[d].adr = contracts'[k] => b < d
      BY <1>5, <1>7, <1>8, <1>14, <2>0, <2>1, <3>3
    <3> QED
      BY <2>0, <3>1, <3>2, <3>4 DEF ContractsFollow
  <2>2. CASE call.adr # 0
    <3>0. PICK m \in DOMAIN contracts' \ DOMAIN contracts :
             /\ contracts'[m] = call.adr /\ DOMAIN contracts' = DOMAIN contracts \cup {m}
             /\ \A n \in DOMAIN contracts : n < m /\ ~(m < n)
             /\ ~(m < m)
      BY <1>14, <2>2
    <3>1. {contracts'[n] : n \in DOMAIN contracts'} = {contracts[n] : n \in DOMAIN contracts} \cup {call.adr}
      BY <1>14, <3>0
    <3>2. {versions'[b].adr : b \in DOMAIN versions'} = {versions[b].adr : b \in DOMAIN versions} \cup {call.adr}
      BY <1>5, <1>7, <1>8
    <3>3. \A n \in DOMAIN contracts : contracts[n] # call.adr /\ contracts'[n] = contracts[n]
      <4>1. \A n \in DOMAIN contracts : \E b \in DOMAIN versions : contracts[n] = versions[b].adr
        BY <2>0
      <4> QED
        BY <1>14, <1>19, <2>2, <4>1
    <3>4. ASSUME NEW n \in DOMAIN contracts', NEW k \in DOMAIN contracts', NEW b \in DOMAIN versions',
                 NEW d \in DOMAIN versions', n < k, versions'[b].adr = contracts'[n],
                 versions'[d].adr = contracts'[k]
          PROVE  b < d
      <4>1. n \in DOMAIN contracts
        BY <3>0, <3>4
      <4>2. b \in DOMAIN versions /\ versions[b].adr = contracts[n]
        BY <1>5, <1>7, <1>8, <3>3, <3>4, <4>1
      <4>3. CASE k = m
        <5>1. d = last
          BY <1>7, <1>8, <1>19, <2>2, <3>0, <3>4, <4>3
        <5> QED
          BY <1>8, <4>2, <5>1
      <4>4. CASE k \in DOMAIN contracts
        <5>1. d \in DOMAIN versions /\ versions[d].adr = contracts[k]
          BY <1>5, <1>7, <1>8, <3>3, <3>4, <4>4
        <5> QED
          BY <2>0, <3>4, <4>1, <4>2, <4>4, <5>1
      <4> QED
        BY <3>0, <4>3, <4>4
    <3>5. {contracts'[n] : n \in DOMAIN contracts'} = {versions'[b].adr : b \in DOMAIN versions'} \ {0}
      BY <2>0, <2>2, <3>1, <3>2
    <3> QED
      BY <3>4, <3>5 DEF ContractsFollow
  <2> QED
    BY <2>1, <2>2
<1> QED
  BY <1>4, <1>12, <1>13, <1>15, <1>16, <1>17, <1>18, <1>21, <1>22, MissionsStay, AttemptsStay
     DEF BlueprintInv, OneBlueprintLine

\* An attempt is opened, and its caller goes on to build it.
LEMMA AttemptStays ==
  ASSUME BlueprintInv, NEW c \in Clerks, BootAttempts(c)
  PROVE  BlueprintInv'
<1>1. PICK new : new = [blueprint |-> called[c].blueprint, outcome |-> "none"]
  OBVIOUS
<1>2. PICK last : last = Len(attempts) + 1
  OBVIOUS
<1>3. PICK call : call = [op |-> "build", attempt |-> last, state |-> called[c].state]
  OBVIOUS
<1>4. call.op = "build" /\ call.attempt = last
  BY <1>3
<1>5. called[c].blueprint \in authorized /\ called[c].blueprint \in Nat
  BY DEF BootAttempts, BlueprintInv, CallsKnow, CallKnows
<1>6. new \in AttemptRows /\ new.blueprint \in authorized /\ new.outcome = "none"
  BY <1>1, <1>5 DEF AttemptRows
<1>7. /\ attempts' = Append(attempts, new) /\ called' = [called EXCEPT ![c] = call]
      /\ UNCHANGED <<answers, assessments, versions, signatures, authorized, decisions, contracts, missions>>
  BY <1>1, <1>2, <1>3 DEF BootAttempts, intakeRows, blueprintRows, decisionRows
<1>8. /\ attempts' \in Seq(AttemptRows \cup {new}) /\ Len(attempts) \in Nat
      /\ DOMAIN attempts = 1..Len(attempts) /\ DOMAIN attempts' = 1..(Len(attempts) + 1)
      /\ attempts'[Len(attempts) + 1] = new
      /\ \A a \in DOMAIN attempts : attempts'[a] = attempts[a]
  BY <1>7, Grown DEF BlueprintInv, BlueprintTyped
<1>9. /\ attempts' \in Seq(AttemptRows) /\ attempts'[last] = new
      /\ DOMAIN attempts' = DOMAIN attempts \cup {last} /\ last \notin DOMAIN attempts
  <2>1. AttemptRows \cup {new} = AttemptRows
    BY <1>6
  <2> QED
    BY <1>2, <1>8, <2>1
<1>10. RowsGrow
  BY <1>7, <1>8, <1>9 DEF RowsGrow
<1>11. /\ called'[c] = call /\ \A d \in Clerks \ {c} : called'[d] = called[d]
       /\ called' = [d \in Clerks |-> called'[d]]
  BY <1>7 DEF BlueprintInv, BlueprintTyped
<1>12. CallsKnow'
  <2>1. \A k : CallKnows(k) => CallKnows(k)'
    BY <1>10, KnowledgeStays
  <2>2. CallKnows(call)'
    BY <1>4, <1>6, <1>7, <1>9 DEF CallKnows
  <2> QED
    BY <1>11, <2>1, <2>2 DEF BlueprintInv, CallsKnow
<1>13. BuildsApart'
  <2>1. \A d \in Clerks : called[d].op = "build" => called[d].attempt \in DOMAIN attempts
    BY DEF BlueprintInv, CallsKnow, CallKnows
  <2>2. ASSUME NEW d \in Clerks, called'[d].op = "build"
        PROVE  /\ attempts'[called'[d].attempt].outcome = "none"
               /\ \A e \in Clerks \ {d} :
                     called'[e].op = "build" => called'[e].attempt # called'[d].attempt
    <3>1. CASE d = c
      BY <1>4, <1>6, <1>9, <1>11, <2>1, <3>1
    <3>2. CASE d # c
      BY <1>4, <1>8, <1>9, <1>11, <2>1, <2>2, <3>2 DEF BlueprintInv, BuildsApart
    <3> QED
      BY <3>1, <3>2
  <2> QED
    BY <2>2 DEF BuildsApart
<1>14. BlueprintTyped'
  BY <1>7, <1>9, <1>11 DEF BlueprintInv, BlueprintTyped
<1>15. GapsTold'
  BY <1>7 DEF BlueprintInv, GapsTold
<1>16. NamesKept'
  BY <1>7, <1>9 DEF BlueprintInv, NamesKept, Approved
<1>17. AttemptsTell'
  <2>1. \A m \in missions : m.attempt # last
    BY <1>9 DEF BlueprintInv, NamesKept
  <2> QED
    BY <1>6, <1>7, <1>8, <1>9, <2>1 DEF BlueprintInv, OneBlueprintLine, AttemptsTell
<1> QED
  BY <1>7, <1>10, <1>12, <1>13, <1>14, <1>15, <1>16, <1>17, LineStays, DecisionsStay,
     ContractsStay, MissionsStay DEF BlueprintInv, OneBlueprintLine

LEMMA AttemptRow ==
  ASSUME NEW row \in AttemptRows, NEW o \in {"none", "succeeded", "verified", "unverified"}
  PROVE  /\ [row EXCEPT !.outcome = o] \in AttemptRows
         /\ [row EXCEPT !.outcome = o].outcome = o
         /\ [row EXCEPT !.outcome = o].blueprint = row.blueprint
  BY DEF AttemptRows

\* The build of an attempt ends: it was its caller's, and no mission names it.
LEMMA BuildEnds ==
  ASSUME BlueprintInv, NEW c \in Clerks, called[c].op = "build", NEW a, a = called[c].attempt,
         NEW o \in {"succeeded", "verified", "unverified"},
         attempts' = [attempts EXCEPT ![a].outcome = o], Returns(c),
         UNCHANGED <<intakeRows, blueprintRows, decisionRows>>
  PROVE  /\ RowsGrow /\ CallsKnow' /\ BuildsApart' /\ BlueprintTyped' /\ GapsTold'
         /\ a \in DOMAIN attempts /\ attempts[a].blueprint \in authorized
         /\ DOMAIN attempts' = DOMAIN attempts /\ attempts'[a].outcome = o
         /\ \A k \in DOMAIN attempts \ {a} : attempts'[k] = attempts[k]
         /\ \A m \in missions : m.attempt # a
<1>0. attempts \in Seq(AttemptRows)
  BY DEF BlueprintInv, BlueprintTyped
<1>1. /\ a \in DOMAIN attempts /\ attempts[a].blueprint \in authorized
      /\ attempts[a].outcome = "none"
  BY DEF BlueprintInv, CallsKnow, CallKnows, BuildsApart
<1>2. attempts[a] \in AttemptRows
  BY <1>0, <1>1, ElementOfSeq, LenProperties
<1>3. PICK row : row = [attempts[a] EXCEPT !.outcome = o]
  OBVIOUS
<1>4. row \in AttemptRows /\ row.outcome = o /\ row.blueprint = attempts[a].blueprint
  <2>1. o \in {"none", "succeeded", "verified", "unverified"}
    OBVIOUS
  <2> QED
    BY <1>2, <1>3, <2>1, AttemptRow
<1>5. attempts' = [attempts EXCEPT ![a] = row]
  BY <1>3
<1>6. /\ attempts' \in Seq(AttemptRows) /\ DOMAIN attempts' = DOMAIN attempts
      /\ attempts'[a] = row /\ \A k \in DOMAIN attempts \ {a} : attempts'[k] = attempts[k]
  BY <1>0, <1>1, <1>4, <1>5, Replaced
<1>7. UNCHANGED <<answers, assessments, versions, signatures, authorized, decisions, contracts>>
  BY DEF intakeRows, blueprintRows, decisionRows
<1>8. RowsGrow
  BY <1>4, <1>6, <1>7 DEF RowsGrow
<1>9. /\ called'[c].op = "none" /\ \A d \in Clerks \ {c} : called'[d] = called[d]
      /\ called' = [d \in Clerks |-> called'[d]] /\ called'[c] = NoCall
  BY DEF BlueprintInv, BlueprintTyped, Returns, NoCall
<1>10. CallsKnow'
  <2>1. \A k : CallKnows(k) => CallKnows(k)'
    BY <1>8, KnowledgeStays
  <2>2. CallKnows(NoCall)'
    BY DEF CallKnows, NoCall
  <2>3. \A d \in Clerks : CallKnows(called[d])
    BY DEF BlueprintInv, CallsKnow
  <2>4. ASSUME NEW d \in Clerks, NEW k, called'[d] = k PROVE CallKnows(k)'
    <3>1. CASE d = c
      <4>1. k = NoCall
        BY <1>9, <2>4, <3>1
      <4>2. k.op = "none"
        BY <4>1 DEF NoCall
      <4> QED
        BY <4>2 DEF CallKnows
    <3>2. CASE d # c
      <4>1. called[d] = k
        BY <1>9, <2>4, <3>2
      <4>2. CallKnows(k)
        BY <4>1 DEF BlueprintInv, CallsKnow
      <4> QED
        BY <2>1, <4>2
    <3> QED
      BY <3>1, <3>2
  <2> QED
    BY <2>4 DEF CallsKnow
<1>11. BuildsApart'
  <2>1. \A d \in Clerks \ {c} : called[d].op = "build" =>
           called[d].attempt # a /\ called[d].attempt \in DOMAIN attempts
    BY DEF BlueprintInv, BuildsApart, CallsKnow, CallKnows
  <2> QED
    BY <1>6, <1>9, <2>1 DEF BlueprintInv, BuildsApart
<1>12. BlueprintTyped'
  BY <1>6, <1>7, <1>9 DEF BlueprintInv, BlueprintTyped
<1>13. GapsTold'
  BY <1>7 DEF BlueprintInv, GapsTold
<1>14. \A m \in missions : m.attempt # a
  BY <1>1 DEF BlueprintInv, OneBlueprintLine, AttemptsTell
<1> QED
  BY <1>1, <1>4, <1>6, <1>8, <1>10, <1>11, <1>12, <1>13, <1>14

LEMMA BuildStays ==
  ASSUME BlueprintInv, NEW c \in Clerks, BootBuilds(c)
  PROVE  BlueprintInv'
<1>1. PICK a : a = called[c].attempt
  OBVIOUS
<1>2. PICK b : b = attempts[a].blueprint
  OBVIOUS
<1>3. PICK new : new = [blueprint |-> b, attempt |-> a]
  OBVIOUS
<1>4. new.blueprint = b /\ new.attempt = a
  BY <1>3
<1>5. /\ called[c].op = "build" /\ \A m \in missions : m.blueprint # b
      /\ missions' = missions \cup {new}
      /\ attempts' = [attempts EXCEPT ![a].outcome = "succeeded"] /\ Returns(c)
      /\ UNCHANGED <<intakeRows, blueprintRows, decisionRows>>
  BY <1>1, <1>2, <1>3 DEF BootBuilds, Bootstrapped
<1>6. /\ RowsGrow /\ CallsKnow' /\ BuildsApart' /\ BlueprintTyped' /\ GapsTold'
      /\ a \in DOMAIN attempts /\ b \in authorized
      /\ DOMAIN attempts' = DOMAIN attempts /\ attempts'[a].outcome = "succeeded"
      /\ \A k \in DOMAIN attempts \ {a} : attempts'[k] = attempts[k]
      /\ \A m \in missions : m.attempt # a
  BY <1>1, <1>2, <1>5, BuildEnds
<1>7. UNCHANGED <<answers, assessments, versions, signatures, authorized, decisions, contracts>>
  BY <1>5 DEF intakeRows, blueprintRows, decisionRows
<1>8. NamesKept'
  BY <1>4, <1>5, <1>6, <1>7 DEF BlueprintInv, NamesKept, Approved
<1>9. MissionsApproved'
  <2>1. /\ authorized' = authorized /\ signatures' = signatures
        /\ \A m \in missions : m.blueprint \in authorized /\ Approved(m.blueprint)
        /\ \A m, other \in missions : other.blueprint = m.blueprint => other = m
    BY <1>7 DEF BlueprintInv, OneBlueprintLine, MissionsApproved
  <2>2. Approved(b)
    BY <1>6 DEF BlueprintInv, NamesKept
  <2>3. \A m \in missions' : m \in missions \/ m = new
    BY <1>5
  <2>4. \A m \in missions' : m.blueprint \in authorized' /\ [blueprint |-> m.blueprint, decision |-> "approved"] \in signatures'
    BY <1>4, <1>6, <2>1, <2>2, <2>3 DEF Approved
  <2>5. \A m, other \in missions' : other.blueprint = m.blueprint => other = m
    BY <1>4, <1>5, <2>1, <2>3
  <2> QED
    BY <2>4, <2>5 DEF MissionsApproved, Approved
<1>10. AttemptsTell'
  <2>1. \A k \in DOMAIN attempts : attempts[k].outcome = "succeeded" <=> \E m \in missions : m.attempt = k
    BY DEF BlueprintInv, OneBlueprintLine, AttemptsTell
  <2>2. ASSUME NEW k \in DOMAIN attempts
        PROVE  attempts'[k].outcome = "succeeded" <=> \E m \in missions' : m.attempt = k
    <3>1. CASE k = a
      BY <1>4, <1>5, <1>6, <3>1
    <3>2. CASE k # a
      <4>1. attempts'[k] = attempts[k]
        BY <1>6, <3>2
      <4>2. (\E m \in missions' : m.attempt = k) <=> (\E m \in missions : m.attempt = k)
        BY <1>4, <1>5, <3>2
      <4> QED
        BY <2>1, <4>1, <4>2
    <3> QED
      BY <3>1, <3>2
  <2> QED
    BY <1>6, <2>2 DEF AttemptsTell
<1> QED
  BY <1>6, <1>7, <1>8, <1>9, <1>10, LineStays, DecisionsStay, ContractsStay
     DEF BlueprintInv, OneBlueprintLine

LEMMA FailureStays ==
  ASSUME BlueprintInv, NEW c \in Clerks, BootFails(c)
  PROVE  BlueprintInv'
<1>1. PICK a : a = called[c].attempt
  OBVIOUS
<1>2. PICK o \in {"succeeded", "verified", "unverified"} :
         /\ o = IF ResourceState = called[c].state THEN "verified" ELSE "unverified"
         /\ o # "succeeded"
  OBVIOUS
<1>3. /\ called[c].op = "build" /\ attempts' = [attempts EXCEPT ![a].outcome = o] /\ Returns(c)
      /\ UNCHANGED <<intakeRows, blueprintRows, decisionRows, missions>>
  BY <1>1, <1>2 DEF BootFails
<1>4. /\ RowsGrow /\ CallsKnow' /\ BuildsApart' /\ BlueprintTyped' /\ GapsTold'
      /\ a \in DOMAIN attempts
      /\ DOMAIN attempts' = DOMAIN attempts /\ attempts'[a].outcome = o
      /\ \A k \in DOMAIN attempts \ {a} : attempts'[k] = attempts[k]
      /\ \A m \in missions : m.attempt # a
  BY <1>1, <1>3, BuildEnds
<1>5. UNCHANGED <<answers, assessments, versions, signatures, authorized, decisions, contracts, missions>>
  BY <1>3 DEF intakeRows, blueprintRows, decisionRows
<1>6. NamesKept'
  BY <1>4, <1>5 DEF BlueprintInv, NamesKept, Approved
<1>7. AttemptsTell'
  BY <1>2, <1>4, <1>5 DEF BlueprintInv, OneBlueprintLine, AttemptsTell
<1> QED
  BY <1>4, <1>5, <1>6, <1>7, LineStays, DecisionsStay, ContractsStay, MissionsStay
     DEF BlueprintInv, OneBlueprintLine

LEMMA BlueprintStep == BlueprintInv /\ [BLNext]_blvars => BlueprintInv'
<1> SUFFICES ASSUME BlueprintInv, [BLNext]_blvars PROVE BlueprintInv'
  OBVIOUS
<1>1. ASSUME NEW c \in Clerks, Assess(c) \/ Resolve(c) \/ Versions(c) PROVE BlueprintInv'
  BY <1>1, EveryReadingStays, AssessmentStays, SetsStay, VersionStays DEF Assess, Resolve, Versions
<1>2. ASSUME NEW c \in Clerks, Signs(c) \/ Proposes(c) PROVE BlueprintInv'
  BY <1>2, EveryReadingStays, SetsStay, ProposalStays DEF Signs, Proposes
<1>3. ASSUME NEW c \in Clerks, Bootstraps(c) \/ Fails(c) PROVE BlueprintInv'
  BY <1>3, EveryReadingStays, AttemptStays, BuildStays, FailureStays DEF Bootstraps
<1>4. ASSUME NEW adr \in DOMAIN decisions, AnalyzeImpact(adr) \/ Decide(adr) PROVE BlueprintInv'
  BY <1>4, DecisionStays
<1>5. CASE UNCHANGED blvars
  <2>1. UNCHANGED <<answers, assessments, versions, signatures, authorized, decisions, contracts,
                    attempts, missions, called>>
    BY <1>5 DEF blvars, intakeRows, blueprintRows, decisionRows, bootRows
  <2>2. RowsGrow
    BY <2>1 DEF RowsGrow
  <2>3. CallsKnow' /\ BuildsApart'
    <3>1. \A k : CallKnows(k) => CallKnows(k)'
      BY <2>2, KnowledgeStays
    <3> QED
      BY <2>1, <3>1 DEF BlueprintInv, CallsKnow, BuildsApart
  <2>4. BlueprintTyped' /\ GapsTold' /\ NamesKept'
    BY <2>1 DEF BlueprintInv, BlueprintTyped, GapsTold, NamesKept, Approved
  <2> QED
    BY <2>1, <2>2, <2>3, <2>4, LineStays, DecisionsStay, ContractsStay, MissionsStay, AttemptsStay
       DEF BlueprintInv, OneBlueprintLine
<1> QED
  BY <1>1, <1>2, <1>3, <1>4, <1>5 DEF BLNext

\* The versions of a blueprint are one line, each decision is in one of them and each
\* blueprint becomes one approved mission at most, for any number of processes, versions,
\* decisions and attempts (_create_version, ADRService.apply, MissionBootstrapService.bootstrap).
THEOREM BlueprintIsOneLine == BLSpec => []OneBlueprintLine
<1>1. BlueprintInv => OneBlueprintLine
  BY DEF BlueprintInv
<1> QED
  BY <1>1, BlueprintStart, BlueprintStep, PTL DEF BLSpec
=============================================================================
