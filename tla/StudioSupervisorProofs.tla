------------------------ MODULE StudioSupervisorProofs ------------------------
(***************************************************************************)
(* Proofs about StudioSupervisor, for any number of runners, requests,     *)
(* mandates, rows and events.                                              *)
(***************************************************************************)
EXTENDS StudioSupervisor, CandidateDelivery, SequenceTheorems, FiniteSetTheorems, TLAPS

-----------------------------------------------------------------------------
(* Types of what an advance keeps to itself. *)

LEMMA SilentType == Nothing \in Seen /\ Silent \in Notes
BY SMT DEF Nothing, Silent, Seen, Notes, Note, Phases, Outcomes, Summaries, Named

LEMMA NoteType ==
    ASSUME NEW a \in Named, NEW b \in Outcomes, NEW c \in Summaries
    PROVE  Note(a, b, c) \in Notes
BY SMT DEF Note, Notes

LEMMA NamedStep ==
    ASSUME LocalOK, NEW p \in Runners
    PROVE  NextStep(saw[p].phase) \in Named
BY SMT DEF LocalOK, Seen, NextStep, Named, Phases

LEMMA LeaveLocal ==
    ASSUME LocalOK, NEW p \in Runners, Leave(p)
    PROVE  LocalOK'
BY SilentType, SMT DEF LocalOK, Leave, Places

LEMMA SayLocal ==
    ASSUME LocalOK, NEW p \in Runners, NEW a \in Named, NEW b \in Outcomes,
           NEW c \in Summaries, Say(p, a, b, c)
    PROVE  LocalOK'
<1>1. CASE Leave(p)
  BY <1>1, LeaveLocal
<1>2. CASE ~Leave(p)
  BY <1>2, SilentType, NoteType, SMT DEF LocalOK, Say, To, Places
<1>. QED
  BY <1>1, <1>2

LEMMA GoLocal ==
    ASSUME LocalOK, NEW p \in Runners, NEW next \in Places, Go(p, next), lock' = lock
    PROVE  LocalOK'
BY SMT DEF Go, To, reading, LocalOK

\* What each action does to the place of its advance, without the words.
LEMMA LedgerDomain ==
    ASSUME BookOK
    PROVE  DOMAIN ledger = 1..Len(ledger) /\ Len(ledger) \in Nat
BY SMT DEF BookOK

LEMMA EnterLocal ==
    ASSUME LocalOK, BookOK, NEW p \in Runners, Enter(p)
    PROVE  LocalOK'
<1>1. InFlight \in SUBSET Nat
  BY LedgerDomain, SMT DEF InFlight
<1>2. CASE To(p, "reconcile") /\ left' = [left EXCEPT ![p] = InFlight] /\ UNCHANGED <<saw, row, note>>
  <2>1. lock' \in Runners \cup {None}
    BY DEF Enter
  <2>2. at' \in [Runners -> Places] /\ left' \in [Runners -> SUBSET Nat]
    BY <1>1, <1>2, SMT DEF To, LocalOK, Places
  <2>. QED
    BY <1>2, <2>1, <2>2 DEF LocalOK
<1>3. CASE Go(p, "mandate")
  <2>1. lock' \in Runners \cup {None}
    BY DEF Enter
  <2>2. at' \in [Runners -> Places]
    BY <1>3, SMT DEF Go, To, LocalOK, Places
  <2>. QED
    BY <1>3, <2>1, <2>2 DEF LocalOK, Go, reading
<1>. QED
  BY <1>2, <1>3, Zenon DEF Enter

LEMMA ReconcileLocal ==
    ASSUME LocalOK, NEW p \in Runners, Reconcile(p)
    PROVE  LocalOK'
<1>1. CASE Leave(p)
  BY <1>1, LeaveLocal
<1>2. CASE ~Leave(p)
  <2>1. PICK i \in left[p] : left' = [left EXCEPT ![p] = left[p] \ {i}]
                             /\ UNCHANGED <<lock, at, saw, row, note>>
    BY <1>2, Zenon DEF Reconcile
  <2>2. left' \in [Runners -> SUBSET Nat]
    BY <2>1, SMT DEF LocalOK
  <2>. QED
    BY <2>1, <2>2 DEF LocalOK
<1>. QED
  BY <1>1, <1>2

Passes(p, next) == To(p, next) /\ UNCHANGED <<left, row, note, lock, book>>

LEMMA MandateCases ==
    ASSUME RecordsOK, NEW p \in Runners, ReadMandate(p)
    PROVE  \/ Say(p, "", "refused", "no mandate")
           \/ Say(p, "", "waiting", "expired")
           \/ /\ Passes(p, "mission") /\ Mandated
              /\ \E i \in Nat : saw' = [saw EXCEPT ![p].mandate = i]
<1>1. PICK i \in Known :
         /\ IsNewest(i)
         /\ \/ Say(p, "", "refused", "no mandate")
            \/ Say(p, "", "waiting", "expired")
            \/ /\ i # 0 /\ ~mandates[i].expired
               /\ Passes(p, "mission") /\ saw' = [saw EXCEPT ![p].mandate = i]
  BY Zenon DEF ReadMandate, Passes
<1>2. i \in Nat
  BY SMT DEF Known, RecordsOK
<1>3. i # 0 => i \in Unrevoked
  BY <1>1 DEF IsNewest
<1>. QED
  BY <1>1, <1>2, <1>3, Zenon DEF Mandated

LEMMA MissionCases ==
    ASSUME NEW p \in Runners, ReadMission(p)
    PROVE  \/ Say(p, "", "waiting", "no source")
           \/ Say(p, "", "refused", "owner")
           \/ /\ Passes(p, "pause")
              /\ saw' = [saw EXCEPT ![p] = [mandate |-> saw[p].mandate, phase |-> mission.phase,
                                            running |-> mission.running]]
BY Zenon DEF ReadMission, Passes

LEMMA PauseCases ==
    ASSUME NEW p \in Runners, ReadPause(p)
    PROVE  \/ Say(p, "", "waiting", "paused")
           \/ Say(p, "", "waiting", "not running")
           \/ Go(p, "questions") /\ UNCHANGED <<lock, book>> /\ ~Paused /\ saw[p].running
BY Zenon DEF ReadPause, GamePaused

LEMMA QuestionCases ==
    ASSUME NEW p \in Runners, ReadQuestions(p)
    PROVE  \/ Say(p, "", "waiting", "question")
           \/ Say(p, "", "nothing_to_do", "phase")
           \/ Say(p, NextStep(saw[p].phase), "refused", "not covered")
           \/ Go(p, "money") /\ UNCHANGED <<lock, book>> /\ ~(questions > 0)
BY Zenon DEF ReadQuestions, Blocked

LEMMA MoneyCases ==
    ASSUME NEW p \in Runners, CheckMoney(p)
    PROVE  (Go(p, "ask") \/ Go(p, "open")) /\ UNCHANGED <<lock, book>>
BY Zenon DEF CheckMoney

\* Every answer an advance writes down.
Answered(p) == \E a \in Named, b \in Outcomes, c \in Summaries : Say(p, a, b, c)

LEMMA Words1 ==
    /\ "" \in Named /\ "plan" \in Named
    /\ {"refused", "waiting", "nothing_to_do", "asked"} \subseteq Outcomes
    /\ {"no mandate", "expired", "no source", "owner", "paused", "not running", "question",
        "phase", "not covered", "money", "queue"} \subseteq Summaries
BY SMT DEF Named, Outcomes, Summaries

\* The answers and passes of the reading steps.
Reads(p) == ReadMandate(p) \/ ReadMission(p) \/ ReadPause(p) \/ ReadQuestions(p) \/ CheckMoney(p)

LEMMA ReadsAnswer ==
    ASSUME LocalOK, RecordsOK, NEW p \in Runners,
           Reads(p) \/ AskPerson(p) \/ Complain(p)
    PROVE  \/ Answered(p)
           \/ /\ Passes(p, "mission") /\ at[p] = "mandate" /\ Mandated
              /\ \E i \in Nat : saw' = [saw EXCEPT ![p].mandate = i]
           \/ /\ Passes(p, "pause") /\ at[p] = "mission"
              /\ saw' = [saw EXCEPT ![p] = [mandate |-> saw[p].mandate, phase |-> mission.phase,
                                            running |-> mission.running]]
           \/ /\ Passes(p, "questions") /\ at[p] = "pause" /\ UNCHANGED saw
              /\ ~Paused /\ saw[p].running
           \/ /\ Passes(p, "money") /\ at[p] = "questions" /\ UNCHANGED saw /\ ~(questions > 0)
           \/ /\ Passes(p, "ask") \/ Passes(p, "open")
              /\ at[p] = "money" /\ UNCHANGED saw
<1>1. CASE ReadMandate(p)
  BY <1>1, MandateCases, Words1, Zenon DEF Answered, ReadMandate
<1>2. CASE ReadMission(p)
  BY <1>2, MissionCases, Words1, Zenon DEF Answered, ReadMission
<1>3. CASE ReadPause(p)
  BY <1>3, PauseCases, Words1, Zenon DEF Answered, ReadPause, Go, Passes, reading
<1>4. CASE ReadQuestions(p)
  BY <1>4, QuestionCases, NamedStep, Words1, Zenon DEF Answered, ReadQuestions, Go, Passes, reading
<1>5. CASE CheckMoney(p)
  BY <1>5, MoneyCases, Zenon DEF CheckMoney, Go, Passes, reading
<1>6. CASE AskPerson(p)
  BY <1>6, NamedStep, Words1, Zenon DEF Answered, AskPerson
<1>7. CASE Complain(p)
  BY <1>7, Words1, Zenon DEF Answered, Complain
<1>. QED
  BY <1>1, <1>2, <1>3, <1>4, <1>5, <1>6, <1>7 DEF Reads

LEMMA PassLocal ==
    ASSUME LocalOK, NEW p \in Runners, NEW next \in Places, Passes(p, next),
           saw' \in [Runners -> Seen]
    PROVE  LocalOK'
<1>1. at' \in [Runners -> Places]
  BY SMT DEF Passes, To, LocalOK
<1>. QED
  BY <1>1 DEF Passes, LocalOK

LEMMA AnsweredLocal ==
    ASSUME LocalOK, NEW p \in Runners, Answered(p)
    PROVE  LocalOK'
BY SayLocal, Zenon DEF Answered

LEMMA ReadsLocal ==
    ASSUME LocalOK, RecordsOK, NEW p \in Runners,
           Reads(p) \/ AskPerson(p) \/ Complain(p)
    PROVE  LocalOK'
<1>1. CASE Answered(p)
  BY <1>1, AnsweredLocal
<1>2. CASE Passes(p, "mission") /\ \E i \in Nat : saw' = [saw EXCEPT ![p].mandate = i]
  <2>1. saw' \in [Runners -> Seen]
    BY <1>2, SMT DEF LocalOK, Seen
  <2>. QED
    BY <1>2, <2>1, PassLocal DEF Places
<1>3. CASE /\ Passes(p, "pause")
           /\ saw' = [saw EXCEPT ![p] = [mandate |-> saw[p].mandate, phase |-> mission.phase,
                                         running |-> mission.running]]
  <2>1. saw' \in [Runners -> Seen]
    BY <1>3, SMT DEF LocalOK, RecordsOK, Seen
  <2>. QED
    BY <1>3, <2>1, PassLocal DEF Places
<1>4. CASE (\E next \in Places : Passes(p, next)) /\ UNCHANGED saw
  BY <1>4, PassLocal DEF LocalOK
<1>. QED
  BY <1>1, <1>2, <1>3, <1>4, ReadsAnswer DEF Places

LEMMA InsertLocal ==
    ASSUME LocalOK, BookOK, NEW p \in Runners, NEW next \in Places, NEW begun \in BOOLEAN,
           Insert(p, begun, next), UNCHANGED lock
    PROVE  LocalOK'
<1>1. at' \in [Runners -> Places] /\ row' \in [Runners -> Nat]
  BY LedgerDomain, SMT DEF Insert, To, LocalOK
<1>. QED
  BY <1>1 DEF Insert, LocalOK

LEMMA WorkCases ==
    ASSUME NEW p \in Runners, Work(p)
    PROVE  /\ at[p] = "work" /\ (To(p, "bill") \/ To(p, "close"))
           /\ \E b \in Outcomes, c \in Summaries :
                note' = [note EXCEPT ![p] = Note(NextStep(saw[p].phase), b, c)]
           /\ saw' = [saw EXCEPT ![p] = Nothing]
           /\ UNCHANGED <<left, row, lock, book>>
<1>. /\ {"refused", "waiting", "advanced"} \subseteq Outcomes
     /\ {"driver", "failed", "did not move", "planned"} \subseteq Summaries
  BY SMT DEF Outcomes, Summaries
<1>. QED
  BY Zenon DEF Work

LEMMA WorkLocal ==
    ASSUME LocalOK, NEW p \in Runners, Work(p)
    PROVE  LocalOK'
<1>1. PICK b \in Outcomes, c \in Summaries :
        note' = [note EXCEPT ![p] = Note(NextStep(saw[p].phase), b, c)]
  BY WorkCases
<1>2. note' \in [Runners -> Notes]
  BY <1>1, NamedStep, NoteType, SMT DEF LocalOK
<1>3. at' \in [Runners -> Places] /\ saw' \in [Runners -> Seen]
  BY WorkCases, SilentType, SMT DEF LocalOK, To, Places
<1>. QED
  BY <1>2, <1>3, WorkCases DEF LocalOK

LEMMA AdvanceLocal ==
    ASSUME LocalOK, BookOK, RecordsOK, NEW p \in Runners, Advance(p)
    PROVE  LocalOK'
<1>1. CASE Reads(p) \/ AskPerson(p) \/ Complain(p)
  BY <1>1, ReadsLocal
<1>2. CASE OpenStep(p) \/ WriteNote(p)
  BY <1>2, InsertLocal, Zenon DEF OpenStep, WriteNote, Places
<1>3. CASE Bill(p)
  BY <1>3, GoLocal, Zenon DEF Bill, Places
<1>4. CASE Close(p) \/ Kill(p)
  BY <1>4, LeaveLocal, Zenon DEF Close, Kill
<1>. QED
  BY <1>1, <1>2, <1>3, <1>4, EnterLocal, ReconcileLocal, WorkLocal DEF Advance, Reads

-----------------------------------------------------------------------------
(* What happens to the ledger. *)

LEMMA RowChange ==
    ASSUME NEW r \in Rows, NEW o \in Outcomes
    PROVE  /\ LET s == [r EXCEPT !.outcome = o] IN
                s \in Rows /\ s.begun = r.begun /\ s.lost = r.lost /\ s.outcome = o
           /\ LET s == [r EXCEPT !.lost = TRUE] IN
                s \in Rows /\ s.begun = r.begun /\ s.outcome = r.outcome /\ s.lost = TRUE
<1>. DEFINE s == [r EXCEPT !.outcome = o]
            t == [r EXCEPT !.lost = TRUE]
<1>1. s.begun = r.begun /\ s.lost = r.lost /\ s.outcome = o
  BY SMT DEF Rows
<1>2. t.begun = r.begun /\ t.outcome = r.outcome /\ t.lost = TRUE
  BY SMT DEF Rows
<1>3. s \in Rows
  BY Zenon DEF Rows
<1>4. t \in Rows
  BY Zenon DEF Rows
<1>. QED
  BY <1>1, <1>2, <1>3, <1>4

LEMMA RowsOf ==
    ASSUME BookOK, NEW j \in DOMAIN ledger
    PROVE  ledger[j] \in Rows
BY SMT DEF BookOK

LEMMA CloseEffect ==
    ASSUME BookOK, NEW i \in DOMAIN ledger, NEW n \in Notes, CloseRow(i, n)
    PROVE  /\ BookOK'
           /\ DOMAIN ledger' = DOMAIN ledger
           /\ \A j \in DOMAIN ledger :
                /\ ledger'[j].begun = ledger[j].begun /\ ledger'[j].lost = ledger[j].lost
                /\ ledger'[j].outcome = IF j = i THEN n.outcome ELSE ledger[j].outcome
                /\ j # i => ledger'[j] = ledger[j]
<1>1. n.outcome \in Outcomes /\ Words(n) \in [step : Named, why : Summaries]
  BY SMT DEF Notes, Words
<1>2. ledger' = [ledger EXCEPT ![i].outcome = n.outcome] /\ said' \in {said, Words(n)}
  BY DEF CloseRow
<1>3. ledger' \in Seq(Rows) /\ DOMAIN ledger' = DOMAIN ledger
  <2>1. [ledger[i] EXCEPT !.outcome = n.outcome] \in Rows
    BY <1>1, RowsOf, RowChange
  <2>2. [ledger EXCEPT ![i] = [ledger[i] EXCEPT !.outcome = n.outcome]] \in Seq(Rows)
    BY <2>1, LedgerDomain, ExceptSeq, Zenon DEF BookOK
  <2>3. ledger' = [ledger EXCEPT ![i] = [ledger[i] EXCEPT !.outcome = n.outcome]]
    BY <1>2
  <2>. QED
    BY <2>2, <2>3
<1>4. \A j \in DOMAIN ledger :
        /\ ledger'[j].begun = ledger[j].begun /\ ledger'[j].lost = ledger[j].lost
        /\ ledger'[j].outcome = IF j = i THEN n.outcome ELSE ledger[j].outcome
        /\ j # i => ledger'[j] = ledger[j]
  <2>. TAKE j \in DOMAIN ledger
  <2>1. CASE j = i
    <3>1. ledger'[j] = [ledger[j] EXCEPT !.outcome = n.outcome]
      BY <1>2, <2>1
    <3>. QED
      BY <1>1, <2>1, <3>1, RowsOf, RowChange
  <2>2. CASE j # i
    BY <1>2, <2>2
  <2>. QED
    BY <2>1, <2>2
<1>. QED
  BY <1>1, <1>2, <1>3, <1>4 DEF BookOK

LEMMA InsertEffect ==
    ASSUME BookOK, NEW begun \in BOOLEAN, NEW p, NEW next, Insert(p, begun, next)
    PROVE  /\ BookOK'
           /\ DOMAIN ledger' = DOMAIN ledger \cup {Len(ledger) + 1}
           /\ Len(ledger) + 1 \notin DOMAIN ledger
           /\ \A j \in DOMAIN ledger : ledger'[j] = ledger[j]
           /\ ledger'[Len(ledger) + 1] = Row(begun)
<1>1. Row(begun) \in Rows
  BY SMT DEF Row, Rows, Outcomes
<1>2. UnderWay \in [step : Named, why : Summaries]
  BY SMT DEF UnderWay, Named, Summaries
<1>3. ledger' = Append(ledger, Row(begun)) /\ said' = UnderWay
  BY DEF Insert
<1>. HIDE DEF Row, Rows, UnderWay
<1>4. ledger' \in Seq(Rows)
  BY <1>1, <1>3, SMT DEF BookOK
<1>5. /\ DOMAIN ledger' = DOMAIN ledger \cup {Len(ledger) + 1}
      /\ Len(ledger) + 1 \notin DOMAIN ledger
      /\ \A j \in DOMAIN ledger : ledger'[j] = ledger[j]
      /\ ledger'[Len(ledger) + 1] = Row(begun)
  BY <1>1, <1>3, SMT DEF BookOK
<1>. QED
  BY <1>2, <1>3, <1>4, <1>5 DEF BookOK

LEMMA KillEffect ==
    ASSUME BookOK, NEW i \in DOMAIN ledger,
           ledger' = [ledger EXCEPT ![i].lost = TRUE], UNCHANGED said
    PROVE  /\ BookOK'
           /\ DOMAIN ledger' = DOMAIN ledger
           /\ \A j \in DOMAIN ledger :
                /\ ledger'[j].begun = ledger[j].begun
                /\ ledger'[j].outcome = ledger[j].outcome
                /\ ledger'[j].lost = IF j = i THEN TRUE ELSE ledger[j].lost
                /\ j # i => ledger'[j] = ledger[j]
<1>1. ledger' \in Seq(Rows) /\ DOMAIN ledger' = DOMAIN ledger
  <2>1. [ledger[i] EXCEPT !.lost = TRUE] \in Rows
    BY RowsOf, RowChange DEF Outcomes
  <2>2. [ledger EXCEPT ![i] = [ledger[i] EXCEPT !.lost = TRUE]] \in Seq(Rows)
    BY <2>1, LedgerDomain, ExceptSeq, Zenon DEF BookOK
  <2>. QED
    BY <2>2
<1>2. \A j \in DOMAIN ledger :
        /\ ledger'[j].begun = ledger[j].begun
        /\ ledger'[j].outcome = ledger[j].outcome
        /\ ledger'[j].lost = IF j = i THEN TRUE ELSE ledger[j].lost
        /\ j # i => ledger'[j] = ledger[j]
  <2>. TAKE j \in DOMAIN ledger
  <2>1. CASE j = i
    <3>1. ledger'[j] = [ledger[j] EXCEPT !.lost = TRUE]
      BY <2>1
    <3>2. "in_flight" \in Outcomes
      BY DEF Outcomes
    <3>. QED
      BY <2>1, <3>1, <3>2, RowsOf, RowChange
  <2>2. CASE j # i
    BY <2>2
  <2>. QED
    BY <2>1, <2>2
<1>. QED
  BY <1>1, <1>2 DEF BookOK

-----------------------------------------------------------------------------
(* One step at work.  An advance does one of these to the lock, its place, *)
(* its rows and the ledger.                                                *)

WorkInv == LockInv /\ LedgerInv /\ OneAtWork
Base == LocalOK /\ BookOK /\ WorkInv

Leaves(p) == Leave(p) /\ UNCHANGED book
Notes1(p) == at[p] \in Asking \cup {"out"} /\ To(p, "note") /\ UNCHANGED <<lock, left, row, book>>
Moves(p) == /\ at[p] \in Asking
            /\ \E next \in Asking : To(p, next)
            /\ UNCHANGED <<lock, left, row, book>>
Ends1(p) == /\ at[p] \in {"work", "bill"} /\ (To(p, "bill") \/ To(p, "close"))
            /\ UNCHANGED <<lock, left, row, book>>

LEMMA AnsweredCases ==
    ASSUME NEW p \in Runners, Answered(p), at[p] \in Asking \cup {"out"}
    PROVE  Leaves(p) \/ Notes1(p)
BY Zenon DEF Answered, Say, Leaves, Notes1

LEMMA ReadsCases ==
    ASSUME LocalOK, RecordsOK, NEW p \in Runners,
           Reads(p) \/ AskPerson(p) \/ Complain(p)
    PROVE  Leaves(p) \/ Notes1(p) \/ Moves(p)
<1>1. at[p] \in Asking \cup {"out"}
  BY Zenon DEF Reads, ReadMandate, ReadMission, ReadPause, ReadQuestions, CheckMoney, AskPerson,
     Complain, Asking
<1>2. CASE Answered(p)
  BY <1>1, <1>2, AnsweredCases
<1>3. CASE ~Answered(p)
  <2>1. at[p] \in Asking /\ \E next \in Asking : Passes(p, next)
    BY <1>3, ReadsAnswer, Zenon DEF Asking
  <2>. QED
    BY <2>1, Zenon DEF Passes, Moves
<1>. QED
  BY <1>2, <1>3

LEMMA LeavesWork ==
    ASSUME Base, NEW p \in Runners, Leaves(p)
    PROVE  WorkInv'
<1>1. /\ at'[p] = "out" /\ row'[p] = 0 /\ left'[p] = {}
      /\ \A q \in Runners : q # p => at'[q] = at[q] /\ row'[q] = row[q] /\ left'[q] = left[q]
      /\ \A q \in Runners : q # p /\ lock = q => lock' = q
  BY StudioAssumption, SMT DEF Base, LocalOK, Leaves, Leave
<1>2. ledger' = ledger
  BY DEF Leaves, book
<1>3. ~Begun(p)' /\ \A q \in Runners : q # p => (Begun(q)' <=> Begun(q))
  BY <1>1, <1>2, Zenon DEF Begun
<1>4. InFlight' = InFlight
  BY <1>2 DEF InFlight
<1>5. LockInv'
  BY <1>1, <1>2, <1>3, SMT DEF Base, WorkInv, LockInv, LockOf, Asking
<1>6. LedgerInv'
  BY <1>1, <1>2, <1>3, SMT DEF Base, WorkInv, LedgerInv, Asking
<1>7. OneAtWork'
  BY <1>1, <1>2, <1>3, <1>4, Zenon DEF Base, WorkInv, OneAtWork
<1>. QED
  BY <1>5, <1>6, <1>7 DEF WorkInv

LEMMA MovesWork ==
    ASSUME Base, NEW p \in Runners, Notes1(p) \/ Moves(p) \/ Ends1(p)
    PROVE  WorkInv'
<1>1. /\ UNCHANGED <<lock, left, row, ledger>>
      /\ at'[p] \in Asking => at[p] \in Asking
      /\ at'[p] \in {"work", "bill"} => at[p] \in {"work", "bill"}
      /\ at'[p] \in {"work", "bill", "close"} <=> at[p] \in {"work", "bill", "close"}
      /\ at'[p] # "reconcile"
      /\ \A q \in Runners : q # p => at'[q] = at[q]
  BY SMT DEF Base, LocalOK, Notes1, Moves, Ends1, To, Asking, book
<1>2. \A q \in Runners : Begun(q)' <=> Begun(q)
  BY <1>1, Zenon DEF Begun
<1>3. InFlight' = InFlight
  BY <1>1 DEF InFlight
<1>4. LockInv'
  BY <1>1, <1>2, SMT DEF Base, WorkInv, LockInv, LockOf
<1>5. LedgerInv'
  BY <1>1, <1>2, SMT DEF Base, WorkInv, LedgerInv
<1>6. OneAtWork'
  BY <1>1, <1>2, <1>3, Zenon DEF Base, WorkInv, OneAtWork
<1>. QED
  BY <1>4, <1>5, <1>6 DEF WorkInv

\* Under a free lock nobody is at work, and a ledger without a step in flight
\* or unknown has lost none.
LEMMA EnterWork ==
    ASSUME Base, NEW p \in Runners, Enter(p)
    PROVE  WorkInv'
<1>1. lock = None /\ lock' = p /\ at[p] = "out" /\ ledger' = ledger /\ row' = row
  BY Zenon DEF Enter, Unlocked, Go, reading, book
<1>2. /\ at'[p] \in {"reconcile", "mandate"}
      /\ left'[p] \subseteq DOMAIN ledger
      /\ at'[p] = "mandate" => InFlight = {} /\ Unresolved = {}
      /\ \A q \in Runners : q # p => at'[q] = at[q] /\ left'[q] = left[q]
  <2>1. CASE To(p, "reconcile") /\ left' = [left EXCEPT ![p] = InFlight]
    BY <2>1, SMT DEF Base, LocalOK, To, InFlight
  <2>2. CASE Go(p, "mandate") /\ InFlight = {} /\ Unresolved = {}
    BY <2>2, SMT DEF Base, LocalOK, WorkInv, LockInv, LockOf, Go, To, reading
  <2>. QED
    BY <2>1, <2>2, Zenon DEF Enter
<1>3. \A q \in Runners : ~Begun(q) /\ lock # q /\ at[q] \notin Asking
  BY <1>1, StudioAssumption, SMT DEF Base, WorkInv, LockInv, LockOf
<1>4. \A q \in Runners : ~Begun(q)'
  BY <1>1, <1>3, Zenon DEF Begun
<1>5. ASSUME NEW q \in Runners
      PROVE  LockOf(q)'
  <2>1. CASE q = p
    BY <1>1, <1>2, <1>4, <2>1, SMT DEF Base, WorkInv, LockInv, LockOf, Asking
  <2>2. CASE q # p
    BY <1>1, <1>2, <1>3, <1>4, <2>2, SMT DEF Base, WorkInv, LockInv, LockOf, Asking
  <2>. QED
    BY <2>1, <2>2
<1>6. at'[p] = "mandate" =>
        \A i \in DOMAIN ledger : ledger[i].outcome \notin {"in_flight", "unknown"}
  BY <1>2, SMT DEF InFlight, Unresolved
<1>7. LedgerInv'
  BY <1>1, <1>2, <1>3, <1>4, <1>6, SMT DEF Base, WorkInv, LedgerInv, Asking
<1>. QED
  BY <1>4, <1>5, <1>7, Zenon DEF WorkInv, LockInv, OneAtWork

LEMMA InsertWork ==
    ASSUME Base, NEW p \in Runners, OpenStep(p) \/ WriteNote(p)
    PROVE  WorkInv'
<1>. DEFINE new == Len(ledger) + 1
<1>1. PICK begun \in BOOLEAN, next \in {"work", "close"} :
        /\ Insert(p, begun, next)
        /\ \/ begun /\ next = "work" /\ at[p] = "open"
           \/ ~begun /\ next = "close" /\ at[p] = "note"
  BY Zenon DEF OpenStep, WriteNote
<1>2. /\ DOMAIN ledger' = DOMAIN ledger \cup {new} /\ new \notin DOMAIN ledger
      /\ \A j \in DOMAIN ledger : ledger'[j] = ledger[j]
      /\ ledger'[new] = Row(begun)
  <2>1. BookOK /\ Insert(p, begun, next)
    BY <1>1 DEF Base
  <2>. QED
    BY <2>1, InsertEffect, Zenon
<1>3. /\ at'[p] = next /\ row'[p] = new /\ left' = left /\ lock' = lock
      /\ \A q \in Runners : q # p => at'[q] = at[q] /\ row'[q] = row[q]
  <2>1. lock' = lock
    BY Zenon DEF OpenStep, WriteNote
  <2>2. /\ at' = [at EXCEPT ![p] = next] /\ row' = [row EXCEPT ![p] = new] /\ left' = left
    BY <1>1, Zenon DEF Insert, To
  <2>. QED
    BY <2>1, <2>2, SMT DEF Base, LocalOK
<1>4. ledger'[new].begun = begun /\ ledger'[new].lost = FALSE /\ ledger'[new].outcome = "in_flight"
  BY <1>2, SMT DEF Row
<1>5. \A q \in Runners : row[q] # 0 => row[q] \in DOMAIN ledger
  BY DEF Base, WorkInv, LockInv, LockOf
<1>6. \A q \in Runners : q # p => (Begun(q)' <=> Begun(q))
  <2>1. ASSUME NEW q \in Runners, q # p
        PROVE  row'[q] = row[q] /\ (row[q] # 0 => ledger'[row[q]] = ledger[row[q]])
    BY <1>2, <1>3, <1>5, <2>1, SMT
  <2>. QED
    BY <2>1, Zenon DEF Begun
<1>7. new \in Nat /\ new # 0
  BY LedgerDomain, SMT DEF Base
<1>8. Begun(p)' <=> begun
  BY <1>3, <1>4, <1>7, Zenon DEF Begun
<1>9. begun =>
        /\ lock = p
        /\ \A q \in Runners : q # p => ~Begun(q) /\ at[q] \notin Asking
        /\ \A i \in DOMAIN ledger :
             ~ledger[i].lost /\ ~(ledger[i].begun /\ ledger[i].outcome = "in_flight")
  BY <1>1, SMT DEF Base, WorkInv, LockInv, LockOf, LedgerInv, Asking
<1>10. ASSUME NEW q \in Runners
      PROVE  LockOf(q)'
  <2>1. CASE q = p
    BY <1>1, <1>2, <1>3, <1>7, <1>8, <1>9, <2>1, SMT DEF Base, WorkInv, LockInv, LockOf, Asking
  <2>2. CASE q # p
    BY <1>2, <1>3, <1>6, <2>2, SMT DEF Base, WorkInv, LockInv, LockOf, Asking
  <2>. QED
    BY <2>1, <2>2
<1>11. LedgerInv'
  <2>1. \A i \in DOMAIN ledger' :
          ledger'[i].lost => ledger'[i].begun /\ ledger'[i].outcome \in {"in_flight", "unknown"}
    BY <1>2, <1>4, Zenon DEF Base, WorkInv, LedgerInv
  <2>2. ASSUME NEW q \in Runners, NEW i \in DOMAIN ledger'
        PROVE  /\ at'[q] \in Asking \/ Begun(q)' => ~ledger'[i].lost
               /\ at'[q] \in Asking => ~(ledger'[i].begun /\ ledger'[i].outcome = "in_flight")
    <3>1. CASE q = p
      BY <1>1, <1>2, <1>3, <1>4, <1>8, <1>9, <3>1, SMT DEF Asking
    <3>2. CASE q # p
      BY <1>2, <1>3, <1>4, <1>6, <1>9, <3>2, SMT DEF Base, WorkInv, LedgerInv
    <3>. QED
      BY <3>1, <3>2
  <2>. QED
    BY <2>1, <2>2 DEF LedgerInv
<1>12. OneAtWork'
  <2>. SUFFICES ASSUME NEW q \in Runners, Begun(q)'
                PROVE  {i \in InFlight' : ledger'[i].begun} = {row'[q]}
    BY DEF OneAtWork
  <2>1. CASE begun
    <3>1. q = p
      BY <1>6, <1>9, <2>1
    <3>2. {i \in InFlight' : ledger'[i].begun} = {new}
      <4>1. \A i \in DOMAIN ledger' :
              ledger'[i].begun /\ ledger'[i].outcome = "in_flight" <=> i = new
        BY <1>2, <1>4, <1>9, <2>1, Zenon
      <4>. QED
        BY <1>2, <4>1, SMT DEF InFlight
    <3>. QED
      BY <1>3, <3>1, <3>2
  <2>2. CASE ~begun
    <3>1. q # p /\ Begun(q) /\ row'[q] = row[q]
      BY <1>3, <1>6, <1>8, <2>2
    <3>2. {i \in InFlight : ledger[i].begun} = {row[q]}
      BY <3>1 DEF Base, WorkInv, OneAtWork
    <3>. QED
      BY <1>2, <1>4, <2>2, <3>1, <3>2, SMT DEF InFlight
  <2>. QED
    BY <2>1, <2>2
<1>. QED
  BY <1>10, <1>11, <1>12 DEF WorkInv, LockInv

\* The row a reconciliation closes is not that of a step at work: its runner
\* would hold the lock.
LEMMA ReconcileWork ==
    ASSUME Base, NEW p \in Runners, Reconcile(p)
    PROVE  BookOK' /\ WorkInv'
<1>1. CASE Leaves(p)
  BY <1>1, LeavesWork DEF Leaves, book, Base, BookOK
<1>2. CASE ~Leaves(p)
  <2>1. PICK i \in left[p] :
          /\ MayClose(i) /\ CloseRow(i, Note("", Verdict, "interrupted"))
          /\ Leave(p) \/ (left' = [left EXCEPT ![p] = left[p] \ {i}] /\ UNCHANGED <<lock, at, saw, row, note>>)
    BY <1>2, Zenon DEF Reconcile, Leaves
  <2>2. lock = p /\ at[p] = "reconcile" /\ i \in DOMAIN ledger
    <3>1. at[p] = "reconcile"
      BY DEF Reconcile
    <3>2. LockOf(p)
      BY DEF Base, WorkInv, LockInv
    <3>. QED
      BY <3>1, <3>2, SMT DEF LockOf
  <2>3. Note("", Verdict, "interrupted") \in Notes
    <3>1. "" \in Named /\ Verdict \in Outcomes /\ "interrupted" \in Summaries
      BY SMT DEF Named, Outcomes, Summaries, Verdict
    <3>. QED
      BY <3>1, NoteType
  <2>4. /\ BookOK' /\ DOMAIN ledger' = DOMAIN ledger
        /\ \A j \in DOMAIN ledger :
             /\ ledger'[j].begun = ledger[j].begun /\ ledger'[j].lost = ledger[j].lost
             /\ ledger'[j].outcome = IF j = i THEN "unknown" ELSE ledger[j].outcome
    <3>1. Note("", Verdict, "interrupted").outcome = "unknown"
      BY SMT DEF Note, Verdict
    <3>2. BookOK
      BY DEF Base
    <3>3. /\ BookOK' /\ DOMAIN ledger' = DOMAIN ledger
          /\ \A j \in DOMAIN ledger :
               /\ ledger'[j].begun = ledger[j].begun /\ ledger'[j].lost = ledger[j].lost
               /\ ledger'[j].outcome = IF j = i THEN Note("", Verdict, "interrupted").outcome
                                       ELSE ledger[j].outcome
      BY <2>1, <2>2, <2>3, <3>2, CloseEffect, Zenon
    <3>. QED
      BY <3>1, <3>3
  <2>5. /\ lock' \in {None, p} /\ at'[p] \in {"out", "reconcile"} /\ row'[p] = row[p]
        /\ at'[p] = "reconcile" => lock' = p
        /\ left'[p] \subseteq left[p]
        /\ \A q \in Runners : q # p => at'[q] = at[q] /\ row'[q] = row[q] /\ left'[q] = left[q]
    <3>1. CASE Leave(p)
      BY <2>2, <3>1, SMT DEF Leave, Base, LocalOK, WorkInv, LockInv, LockOf
    <3>2. CASE left' = [left EXCEPT ![p] = left[p] \ {i}] /\ UNCHANGED <<lock, at, saw, row, note>>
      BY <2>2, <3>2, SMT DEF Base, LocalOK
    <3>. QED
      BY <2>1, <3>1, <3>2
  <2>6. \A q \in Runners : ~Begun(q) /\ (q # p => at[q] \notin Asking)
    <3>. TAKE q \in Runners
    <3>1. LockOf(q)
      BY DEF Base, WorkInv, LockInv
    <3>2. row[p] = 0
      BY <2>2, SMT DEF Base, WorkInv, LockInv, LockOf
    <3>3. CASE q = p
      BY <3>2, <3>3, Zenon DEF Begun
    <3>4. CASE q # p
      BY <2>2, <3>1, <3>4, SMT DEF LockOf
    <3>. QED
      BY <3>3, <3>4
  <2>7. \A q \in Runners : ~Begun(q)'
    <3>1. \A q \in Runners : row'[q] = row[q] /\ (row[q] # 0 => row[q] \in DOMAIN ledger)
      BY <2>5 DEF Base, WorkInv, LockInv, LockOf
    <3>. QED
      BY <2>4, <2>6, <3>1, Zenon DEF Begun
  <2>8. ASSUME NEW q \in Runners
        PROVE  LockOf(q)'
    <3>1. CASE q = p
      BY <2>2, <2>4, <2>5, <2>7, <3>1, SMT DEF Base, WorkInv, LockInv, LockOf, Asking
    <3>2. CASE q # p
      BY <2>2, <2>4, <2>5, <2>6, <2>7, <3>2, SMT DEF Base, WorkInv, LockInv, LockOf, Asking
    <3>. QED
      BY <3>1, <3>2
  <2>9. LedgerInv'
    BY <2>4, <2>5, <2>6, <2>7, SMT DEF Base, WorkInv, LedgerInv, Asking
  <2>. QED
    BY <2>4, <2>7, <2>8, <2>9, Zenon DEF WorkInv, LockInv, OneAtWork
<1>. QED
  BY <1>1, <1>2

\* Whoever closes a row of its own takes no other runner's step out of the
\* ledger, and no lost one.
LEMMA CloseWork ==
    ASSUME Base, NEW p \in Runners, Close(p)
    PROVE  BookOK' /\ WorkInv'
<1>1. CASE Leaves(p)
  BY <1>1, LeavesWork DEF Leaves, book, Base, BookOK
<1>2. CASE ~Leaves(p)
  <2>. DEFINE i == row[p]
  <2>1. MayClose(i) /\ CloseRow(i, note[p]) /\ Leave(p) /\ at[p] = "close"
    BY <1>2, Zenon DEF Close, Leaves
  <2>2. i \in DOMAIN ledger /\ i # 0 /\ note[p] \in Notes
    BY <2>1, SMT DEF Base, LocalOK, WorkInv, LockInv, LockOf
  <2>3. /\ BookOK' /\ DOMAIN ledger' = DOMAIN ledger
        /\ \A j \in DOMAIN ledger :
             /\ ledger'[j].begun = ledger[j].begun /\ ledger'[j].lost = ledger[j].lost
             /\ j # i => ledger'[j] = ledger[j]
    BY <2>1, <2>2, CloseEffect, SMT DEF Base
  <2>4. /\ at'[p] = "out" /\ row'[p] = 0 /\ left'[p] = {}
        /\ \A q \in Runners : q # p => at'[q] = at[q] /\ row'[q] = row[q] /\ left'[q] = left[q]
        /\ \A q \in Runners : q # p /\ lock = q => lock' = q
    BY <2>1, StudioAssumption, SMT DEF Base, LocalOK, Leave
  <2>5. ~Begun(p)'
    BY <2>4, Zenon DEF Begun
  <2>6. \A q \in Runners : q # p => (Begun(q)' <=> Begun(q))
    <3>1. \A q \in Runners : row[q] # 0 => row[q] \in DOMAIN ledger
      BY DEF Base, WorkInv, LockInv, LockOf
    <3>. QED
      BY <2>3, <2>4, <3>1, Zenon DEF Begun
  <2>7. ASSUME NEW q \in Runners
        PROVE  LockOf(q)'
    <3>1. CASE q = p
      BY <2>4, <2>5, <3>1, SMT DEF LockOf, Asking
    <3>2. CASE q # p
      BY <2>3, <2>4, <2>6, <3>2, SMT DEF Base, WorkInv, LockInv, LockOf, Asking
    <3>. QED
      BY <3>1, <3>2
  <2>8. ledger[i].outcome = "in_flight" /\ ~ledger[i].lost
    BY <2>1, <2>2, Zenon DEF MayClose, Base, WorkInv, LedgerInv, Begun
  <2>9. LedgerInv'
    <3>1. \A j \in DOMAIN ledger' :
            ledger'[j].lost => ledger'[j].begun /\ ledger'[j].outcome \in {"in_flight", "unknown"}
      BY <2>3, <2>8, Zenon DEF Base, WorkInv, LedgerInv
    <3>2. ASSUME NEW q \in Runners, NEW j \in DOMAIN ledger'
          PROVE  /\ at'[q] \in Asking \/ Begun(q)' => ~ledger'[j].lost
                 /\ at'[q] \in Asking => ~(ledger'[j].begun /\ ledger'[j].outcome = "in_flight")
      <4>1. CASE q = p
        BY <2>4, <2>5, <4>1, SMT DEF Asking
      <4>2. CASE q # p
        <5>1. at'[q] = at[q] /\ (Begun(q)' <=> Begun(q)) /\ j \in DOMAIN ledger
          BY <2>3, <2>4, <2>6, <4>2
        <5>2. at[q] \in Asking => ~ledger[i].begun
          BY <2>2, <2>8, Zenon DEF Base, WorkInv, LedgerInv
        <5>. QED
          BY <2>3, <5>1, <5>2, SMT DEF Base, WorkInv, LedgerInv
      <4>. QED
        BY <4>1, <4>2
    <3>. QED
      BY <3>1, <3>2 DEF LedgerInv
  <2>10. OneAtWork'
    <3>. SUFFICES ASSUME NEW q \in Runners, Begun(q)'
                  PROVE  {j \in InFlight' : ledger'[j].begun} = {row'[q]}
      BY DEF OneAtWork
    <3>1. q # p /\ Begun(q) /\ row'[q] = row[q]
      BY <2>4, <2>5, <2>6
    <3>2. {j \in InFlight : ledger[j].begun} = {row[q]}
      BY <3>1 DEF Base, WorkInv, OneAtWork
    <3>3. ~ledger[i].begun
      <4>1. lock = q
        BY <3>1 DEF Base, WorkInv, LockInv, LockOf
      <4>2. ~Begun(p)
        BY <3>1, <4>1 DEF Base, WorkInv, LockInv, LockOf
      <4>. QED
        BY <2>2, <4>2 DEF Begun
    <3>. QED
      BY <2>2, <2>3, <3>1, <3>2, <3>3, SMT DEF InFlight
  <2>. QED
    BY <2>3, <2>7, <2>9, <2>10 DEF WorkInv, LockInv
<1>. QED
  BY <1>1, <1>2

\* A step at work when its process dies is in flight, so that it is found.
LEMMA KillWork ==
    ASSUME Base, NEW p \in Runners, Kill(p)
    PROVE  BookOK' /\ WorkInv'
<1>1. CASE ~Begun(p)
  BY <1>1, LeavesWork, Zenon DEF Kill, Leaves, book, Base, BookOK
<1>2. CASE Begun(p)
  <2>. DEFINE i == row[p]
  <2>1. /\ i \in DOMAIN ledger /\ i # 0 /\ lock = p
        /\ ledger[i].begun /\ ledger[i].outcome = "in_flight"
    <3>1. i \in DOMAIN ledger /\ lock = p /\ i # 0
      BY <1>2, Zenon DEF Base, WorkInv, LockInv, LockOf, Begun
    <3>2. i \in {j \in InFlight : ledger[j].begun}
      BY <1>2, Zenon DEF Base, WorkInv, OneAtWork
    <3>. QED
      BY <3>1, <3>2, SMT DEF InFlight
  <2>2. ledger' = [ledger EXCEPT ![i].lost = TRUE] /\ UNCHANGED said /\ Leave(p)
    BY <1>2, Zenon DEF Kill
  <2>3. /\ BookOK' /\ DOMAIN ledger' = DOMAIN ledger
        /\ \A j \in DOMAIN ledger :
             /\ ledger'[j].begun = ledger[j].begun /\ ledger'[j].outcome = ledger[j].outcome
             /\ j # i => ledger'[j] = ledger[j]
    <3>1. BookOK
      BY DEF Base
    <3>. QED
      BY <2>1, <2>2, <3>1, KillEffect
  <2>4. /\ at'[p] = "out" /\ row'[p] = 0 /\ left'[p] = {}
        /\ \A q \in Runners : q # p => at'[q] = at[q] /\ row'[q] = row[q] /\ left'[q] = left[q]
    BY <2>2, SMT DEF Base, LocalOK, Leave
  <2>5. \A q \in Runners : q # p => ~Begun(q) /\ at[q] \notin Asking \cup {"reconcile", "work", "bill"}
    <3>. TAKE q \in Runners
    <3>1. LockOf(q)
      BY DEF Base, WorkInv, LockInv
    <3>. QED
      BY <2>1, <3>1, SMT DEF LockOf
  <2>6. \A q \in Runners : row[q] # 0 => row[q] \in DOMAIN ledger
    BY DEF Base, WorkInv, LockInv, LockOf
  <2>7. \A q \in Runners : ~Begun(q)'
    BY <2>3, <2>4, <2>5, <2>6, Zenon DEF Begun
  <2>8. ASSUME NEW q \in Runners
        PROVE  LockOf(q)'
    <3>1. CASE q = p
      BY <2>4, <2>7, <3>1, SMT DEF LockOf, Asking
    <3>2. CASE q # p
      BY <2>3, <2>4, <2>5, <2>7, <3>2, SMT DEF Base, WorkInv, LockInv, LockOf, Asking
    <3>. QED
      BY <3>1, <3>2
  <2>9. LedgerInv'
    <3>1. \A j \in DOMAIN ledger' :
            ledger'[j].lost => ledger'[j].begun /\ ledger'[j].outcome \in {"in_flight", "unknown"}
      <4>. TAKE j \in DOMAIN ledger'
      <4>1. CASE j = i
        BY <2>1, <2>3, <4>1, Zenon
      <4>2. CASE j # i
        BY <2>3, <4>2, Zenon DEF Base, WorkInv, LedgerInv
      <4>. QED
        BY <4>1, <4>2
    <3>2. \A q \in Runners : at'[q] \notin Asking
      BY <2>4, <2>5, SMT DEF Asking
    <3>. QED
      BY <2>7, <3>1, <3>2, Zenon DEF LedgerInv
  <2>. QED
    BY <2>3, <2>7, <2>8, <2>9, Zenon DEF WorkInv, LockInv, OneAtWork
<1>. QED
  BY <1>1, <1>2

LEMMA AdvanceWork ==
    ASSUME Base, RecordsOK, NEW p \in Runners, Advance(p)
    PROVE  BookOK' /\ WorkInv'
<1>1. CASE Reads(p) \/ AskPerson(p) \/ Complain(p)
  <2>1. Leaves(p) \/ Notes1(p) \/ Moves(p)
    BY <1>1, ReadsCases DEF Base
  <2>. QED
    BY <2>1, LeavesWork, MovesWork DEF Leaves, Notes1, Moves, book, Base, BookOK
<1>2. CASE Enter(p)
  BY <1>2, EnterWork DEF Enter, book, Base, BookOK
<1>3. CASE OpenStep(p) \/ WriteNote(p)
  <2>1. \E begun \in BOOLEAN, next \in Places : Insert(p, begun, next)
    BY <1>3, Zenon DEF OpenStep, WriteNote, Places
  <2>2. BookOK'
    BY <2>1, InsertEffect DEF Base
  <2>. QED
    BY <1>3, <2>2, InsertWork
<1>4. CASE Work(p)
  BY <1>4, WorkCases, MovesWork, Zenon DEF Ends1, book, Base, BookOK
<1>5. CASE Bill(p)
  <2>1. Ends1(p)
    BY <1>5, Zenon DEF Bill, Go, Ends1, reading
  <2>. QED
    BY <2>1, MovesWork DEF Ends1, book, Base, BookOK
<1>. QED
  BY <1>1, <1>2, <1>3, <1>4, <1>5, ReconcileWork, CloseWork, KillWork DEF Advance, Reads

\* People and time change no advance and no row.
LEMMA AsideWork ==
    ASSUME Base, UNCHANGED <<runners, book>>
    PROVE  Base'
<1>1. \A q \in Runners : Begun(q)' <=> Begun(q)
  BY Zenon DEF Begun, runners, reading, book
<1>. QED
  BY <1>1 DEF Base, LocalOK, BookOK, WorkInv, LockInv, LockOf, LedgerInv, OneAtWork, InFlight,
     runners, reading, book

LEMMA Aside ==
    ASSUME Elsewhere \/ \E q \in Requests : Request(q)
    PROVE  UNCHANGED <<runners, book>>
BY Zenon DEF Elsewhere, Request, ReadRequest, Grant, Revoke, Late, Pause, Resume, Done

-----------------------------------------------------------------------------
(* Types of what people and the rest of the program keep.                  *)

LEMMA AdvanceRecords ==
    ASSUME RecordsOK, NEW p \in Runners, Advance(p)
    PROVE  RecordsOK'
<1>1. UNCHANGED <<mandates, cycles, ask>>
  BY Zenon DEF Advance, Enter, Reconcile, ReadMandate, ReadMission, ReadPause, ReadQuestions,
     CheckMoney, AskPerson, OpenStep, Work, Bill, WriteNote, Close, Complain, Kill, records
<1>2. /\ events' \in {events, events + 1} /\ questions' \in {questions, questions + 1}
      /\ money' = money \/ \E cost \in Costs : money' = [money EXCEPT !.committed = money.committed + cost]
      /\ mission' = mission \/ mission' = [mission EXCEPT !.phase = "approving"]
  BY Zenon DEF Advance, Enter, Reconcile, ReadMandate, ReadMission, ReadPause, ReadQuestions,
     CheckMoney, AskPerson, OpenStep, Work, Bill, WriteNote, Close, Complain, Kill, records
<1>3. events' \in Nat /\ questions' \in Nat
  BY <1>2, SMT DEF RecordsOK
<1>4. money' \in [committed : Nat, limit : Limits]
  BY <1>2, StudioAssumption, SMT DEF RecordsOK
<1>5. mission' \in [phase : Phases, running : BOOLEAN]
  BY <1>2, SMT DEF RecordsOK, Phases
<1>. QED
  BY <1>1, <1>3, <1>4, <1>5 DEF RecordsOK

LEMMA MandateType ==
    ASSUME NEW terms \in Terms
    PROVE  Mandate(terms) \in Mandates
<1>1. terms \in [steps : SUBSET {"plan", "approve_plan"}, ceiling : Nat \cup {-1}, owner : BOOLEAN]
  BY StudioAssumption
<1>2. terms.steps \in SUBSET Steps /\ terms.ceiling \in Nat \cup {-1} /\ terms.owner \in BOOLEAN
  BY <1>1, Zenon DEF Steps
<1>. QED
  BY <1>2, Zenon DEF Mandate, Mandates

LEMMA MandateChange ==
    ASSUME NEW m \in Mandates
    PROVE  [m EXCEPT !.revoked = TRUE] \in Mandates /\ [m EXCEPT !.expired = TRUE] \in Mandates
<1>1. [m EXCEPT !.revoked = TRUE] \in Mandates
  BY Zenon DEF Mandates
<1>2. [m EXCEPT !.expired = TRUE] \in Mandates
  BY Zenon DEF Mandates
<1>. QED
  BY <1>1, <1>2

LEMMA EndedType ==
    ASSUME RecordsOK, NEW i \in Nat
    PROVE  Ended(i) \in Seq(Mandates)
<1>1. CASE i \in DOMAIN mandates
  <2>1. i \in 1..Len(mandates) /\ mandates \in Seq(Mandates) /\ mandates[i] \in Mandates
    BY <1>1, SMT DEF RecordsOK
  <2>2. [mandates EXCEPT ![i] = [mandates[i] EXCEPT !.revoked = TRUE]] \in Seq(Mandates)
    BY <2>1, MandateChange, ExceptSeq, Zenon
  <2>. QED
    BY <2>1, <2>2, Zenon DEF Ended
<1>2. CASE i \notin DOMAIN mandates
  <2>1. [mandates EXCEPT ![i].revoked = TRUE] = mandates
    BY <1>2, SMT DEF RecordsOK
  <2>. QED
    BY <2>1, Zenon DEF Ended, RecordsOK
<1>. QED
  BY <1>1, <1>2

LEMMA SeenType ==
    ASSUME RecordsOK, NEW q \in Requests
    PROVE  ask[q].seen \in Nat
BY SMT DEF RecordsOK, Asks

LEMMA DoneType ==
    ASSUME RecordsOK, NEW q \in Requests, NEW kind, Done(q, kind)
    PROVE  ask' \in [Requests -> Asks] /\ events' \in Nat
<1>1. [ask[q] EXCEPT !.is = "done"] \in Asks
  BY Zenon DEF RecordsOK, Asks
<1>2. ask' = [ask EXCEPT ![q] = [ask[q] EXCEPT !.is = "done"]] /\ events' = events
  BY Zenon DEF Done
<1>. QED
  BY <1>1, <1>2, Zenon DEF RecordsOK

LEMMA CycleNames == "running" \in Cycle /\ "paused" \in Cycle
BY DEF Cycle

LEMMA CyclesType ==
    ASSUME RecordsOK, NEW i \in Nat, NEW s \in Cycle
    PROVE  /\ [cycles EXCEPT ![i] = s] \in Seq(Cycle)
           /\ [cycles EXCEPT ![i] = s] # <<>>
<1>. /\ cycles \in Seq(Cycle) /\ cycles # <<>>
     /\ DOMAIN cycles = 1..Len(cycles) /\ Len(cycles) \in Nat
  BY SMT DEF RecordsOK
<1>1. CASE i \in DOMAIN cycles
  <2>1. /\ [cycles EXCEPT ![i] = s] \in Seq(Cycle)
        /\ Len([cycles EXCEPT ![i] = s]) = Len(cycles)
    BY <1>1, ExceptSeq, Zenon
  <2>2. Len(cycles) # 0
    BY SMT
  <2>. QED
    BY <2>1, <2>2, SMT
<1>2. CASE i \notin DOMAIN cycles
  <2>1. [cycles EXCEPT ![i] = s] = cycles
    BY <1>2, SMT
  <2>. QED
    BY <2>1
<1>. QED
  BY <1>1, <1>2

LEMMA RequestRecords ==
    ASSUME RecordsOK, NEW q \in Requests, Request(q)
    PROVE  RecordsOK'
<1>1. CASE ReadRequest(q)
  <2>1. PICK kind \in {"grant", "revoke", "pause", "resume"}, seen \in Known \cup {Len(cycles)} :
          ask' = [ask EXCEPT ![q] = [is |-> "read", kind |-> kind, seen |-> seen]]
    BY <1>1, Zenon DEF ReadRequest
  <2>2. seen \in Nat
    BY SMT DEF Known, RecordsOK
  <2>3. [is |-> "read", kind |-> kind, seen |-> seen] \in Asks
    BY <2>2, SMT DEF Asks
  <2>4. ask' \in [Requests -> Asks]
    BY <2>1, <2>3, SMT DEF RecordsOK
  <2>. QED
    BY <1>1, <2>4 DEF ReadRequest, records, RecordsOK
<1>2. CASE Grant(q)
  <2>1. PICK terms \in Terms : mandates' = Append(Ended(ask[q].seen), Mandate(terms))
    BY <1>2 DEF Grant
  <2>2. Ended(ask[q].seen) \in Seq(Mandates) /\ Mandate(terms) \in Mandates
    BY EndedType, SeenType, MandateType
  <2>3. mandates' \in Seq(Mandates)
    BY <2>1, <2>2, AppendProperties, Zenon
  <2>4. ask' \in [Requests -> Asks] /\ events' \in Nat
    BY <1>2, DoneType, Zenon DEF Grant
  <2>. QED
    BY <1>2, <2>3, <2>4 DEF Grant, RecordsOK
<1>3. CASE Revoke(q)
  <2>1. mandates' \in Seq(Mandates)
    BY <1>3, EndedType, SeenType DEF Revoke
  <2>2. ask' \in [Requests -> Asks] /\ events' \in Nat
    BY <1>3, DoneType, Zenon DEF Revoke
  <2>. QED
    BY <1>3, <2>1, <2>2 DEF Revoke, RecordsOK
<1>4. CASE Late(q)
  <2>1. ask' \in [Requests -> Asks] /\ events' \in Nat
    BY <1>4, DoneType, Zenon DEF Late
  <2>. QED
    BY <1>4, <2>1 DEF Late, RecordsOK, records
<1>5. CASE Pause(q)
  <2>1. cycles' \in Seq(Cycle) /\ cycles' # <<>>
    BY <1>5, CyclesType, SeenType, CycleNames, Zenon DEF Pause
  <2>2. ask' \in [Requests -> Asks] /\ events' \in Nat
    BY <1>5, DoneType, Zenon DEF Pause
  <2>. QED
    BY <1>5, <2>1, <2>2 DEF Pause, RecordsOK
<1>6. CASE Resume(q)
  <2>1. cycles' \in Seq(Cycle) /\ cycles' # <<>>
    <3>. DEFINE closed == [cycles EXCEPT ![ask[q].seen] = "running"]
    <3>1. closed \in Seq(Cycle)
      BY CyclesType, SeenType, CycleNames, Zenon
    <3>2. cycles' = Append(closed, "running") \/ cycles' = cycles
      BY <1>6, Zenon DEF Resume
    <3>. HIDE DEF closed
    <3>3. Append(closed, "running") \in Seq(Cycle) /\ Append(closed, "running") # <<>>
      BY <3>1, CycleNames, SMT
    <3>. QED
      BY <3>2, <3>3, Zenon DEF RecordsOK
  <2>2. ask' \in [Requests -> Asks] /\ events' \in Nat
    BY <1>6, DoneType, Zenon DEF Resume
  <2>. QED
    BY <1>6, <2>1, <2>2 DEF Resume, RecordsOK
<1>. QED
  BY <1>1, <1>2, <1>3, <1>4, <1>5, <1>6 DEF Request

LEMMA ElsewhereRecords ==
    ASSUME RecordsOK, Elsewhere
    PROVE  RecordsOK'
<1>1. events' \in Nat /\ ask' = ask
  BY SMT DEF Elsewhere, RecordsOK
<1>2. CASE Expires
  <2>1. PICK i \in DOMAIN mandates : mandates' = [mandates EXCEPT ![i].expired = TRUE]
    BY <1>2 DEF Expires
  <2>2. i \in 1..Len(mandates) /\ mandates \in Seq(Mandates) /\ mandates[i] \in Mandates
    BY SMT DEF RecordsOK
  <2>3. [mandates EXCEPT ![i] = [mandates[i] EXCEPT !.expired = TRUE]] \in Seq(Mandates)
    BY <2>2, MandateChange, ExceptSeq, Zenon
  <2>4. mandates' \in Seq(Mandates)
    BY <2>1, <2>3
  <2>. QED
    BY <1>1, <1>2, <2>4 DEF Expires, RecordsOK
<1>3. CASE Controls \/ Decides
  <2>1. mission' \in [phase : Phases, running : BOOLEAN]
    <3>1. (~mission.running) \in BOOLEAN /\ {"planning", "approved"} \subseteq Phases
      BY SMT DEF Phases
    <3>. QED
      BY <1>3, <3>1, Zenon DEF Controls, Decides, RecordsOK
  <2>. QED
    BY <1>1, <1>3, <2>1 DEF Controls, Decides, RecordsOK
<1>4. CASE Spends
  <2>1. money' \in [committed : Nat, limit : Limits]
    BY <1>4, StudioAssumption, SMT DEF Spends, RecordsOK
  <2>. QED
    BY <1>1, <1>4, <2>1 DEF Spends, RecordsOK
<1>5. CASE Answers
  <2>1. questions' \in Nat
    BY <1>5, SMT DEF Answers, RecordsOK
  <2>. QED
    BY <1>1, <1>5, <2>1 DEF Answers, RecordsOK
<1>. QED
  BY <1>2, <1>3, <1>4, <1>5 DEF Elsewhere

-----------------------------------------------------------------------------
(* What a passed check saw.                                                *)

LateOK == late \in [Stops -> Nat]

LEMMA LateRule ==
    ASSUME LateInv, Counts, ~Opens,
           \A s \in Stops, q \in Runners : Passed(s, q)' => Passed(s, q) \/ ~Holds(s)'
    PROVE  LateInv' /\ LateOK'
<1>1. \A s \in Stops : late'[s] = IF ~Holds(s)' THEN 0 ELSE late[s] + 0
  BY Zenon DEF Counts
<1>2. \A s \in Stops : late[s] \in {0, 1} /\ late'[s] \in {0, late[s]}
  BY <1>1, SMT DEF LateInv
<1>3. LateOK'
  BY <1>1, <1>2, SMT DEF Counts, LateOK
<1>4. ASSUME NEW s \in Stops
      PROVE  /\ late'[s] \in {0, 1}
             /\ ~Holds(s)' => late'[s] = 0
             /\ \A q \in Runners : Passed(s, q)' => late'[s] = 0
  <2>1. \A q \in Runners : Passed(s, q) => late[s] = 0
    BY DEF LateInv
  <2>. QED
    BY <1>1, <1>2, <2>1, SMT
<1>. QED
  BY <1>3, <1>4 DEF LateInv

\* The one that begins a step had passed every check, so none was counted
\* yet; and nobody else is past a check, for it holds the lock.
LEMMA OpenLate ==
    ASSUME Base, LateInv, Counts, NEW p \in Runners, OpenStep(p)
    PROVE  LateInv' /\ LateOK'
<1>1. at[p] = "open" /\ at' = [at EXCEPT ![p] = "work"] /\ saw' = saw
  BY Zenon DEF OpenStep, Insert, To
<1>2. \A s \in Stops : late[s] = 0
  BY <1>1, SMT DEF LateInv, Passed
<1>3. \A q \in Runners : at'[q] \notin Asking
  <2>. TAKE q \in Runners
  <2>1. CASE q = p
    BY <1>1, <2>1, SMT DEF Base, LocalOK, Asking
  <2>2. CASE q # p
    <3>1. LockOf(p) /\ LockOf(q)
      BY DEF Base, WorkInv, LockInv
    <3>2. at'[q] = at[q]
      BY <1>1, <2>2
    <3>. QED
      BY <1>1, <2>2, <3>1, <3>2, SMT DEF LockOf, Asking
  <2>. QED
    BY <2>1, <2>2
<1>4. \A s \in Stops, q \in Runners : ~Passed(s, q)'
  BY <1>3, SMT DEF Passed, Asking
<1>5. \A s \in Stops : late'[s] = 0 \/ (late'[s] = late[s] + (IF Opens THEN 1 ELSE 0) /\ Holds(s)')
  BY Zenon DEF Counts
<1>6. \A s \in Stops : late'[s] \in {0, 1} /\ (~Holds(s)' => late'[s] = 0)
  BY <1>2, <1>5, SMT
<1>7. LateOK'
  BY <1>6, SMT DEF Counts, LateOK
<1>. QED
  BY <1>4, <1>6, <1>7, Zenon DEF LateInv

\* Where an advance is after it did something else.
LEMMA Elsewheres ==
    ASSUME LocalOK, RecordsOK, NEW p \in Runners, Advance(p), ~OpenStep(p)
    PROVE  /\ at'[p] = "work" => at[p] = "work"
           /\ \A q \in Runners : q # p => at'[q] = at[q] /\ saw'[q] = saw[q]
           /\ UNCHANGED <<mandates, cycles>>
           /\ at'[p] \in {"mission", "pause", "questions", "money", "ask", "open"} =>
                /\ UNCHANGED <<mission, questions>>
                /\ \/ at'[p] = "mission" /\ at[p] = "mandate" /\ Mandated
                   \/ at'[p] = "pause" /\ at[p] = "mission" /\ saw'[p].running = mission.running
                   \/ at'[p] = "questions" /\ at[p] = "pause" /\ ~Paused /\ saw[p].running
                   \/ at'[p] = "money" /\ at[p] = "questions" /\ ~(questions > 0)
                   \/ at'[p] \in {"ask", "open"} /\ at[p] = "money"
<1>. at \in [Runners -> Places] /\ saw \in [Runners -> Seen]
  BY DEF LocalOK
<1>1. UNCHANGED <<mandates, cycles>>
  BY Zenon DEF Advance, Enter, Reconcile, ReadMandate, ReadMission, ReadPause, ReadQuestions,
     CheckMoney, AskPerson, OpenStep, Work, Bill, WriteNote, Close, Complain, Kill, records
<1>2. CASE Leave(p)
  BY <1>1, <1>2, SMT DEF Leave
<1>3. CASE Answered(p)
  <2>1. \/ Leave(p)
        \/ at' = [at EXCEPT ![p] = "note"] /\ saw' = [saw EXCEPT ![p] = Nothing]
    BY <1>3, Zenon DEF Answered, Say, To
  <2>. QED
    BY <1>1, <1>2, <2>1, SMT
<1>4. CASE (Reads(p) \/ AskPerson(p) \/ Complain(p)) /\ ~Answered(p)
  <2>1. UNCHANGED <<mission, questions>>
    <3>1. ~AskPerson(p)
      BY <1>4, NamedStep, Words1, Zenon DEF AskPerson, Answered
    <3>. QED
      BY <1>4, <3>1, Zenon DEF Reads, ReadMandate, ReadMission, ReadPause, ReadQuestions,
         CheckMoney, Complain, records
  <2>2. \/ /\ at' = [at EXCEPT ![p] = "mission"] /\ at[p] = "mandate" /\ Mandated
           /\ \E i \in Nat : saw' = [saw EXCEPT ![p].mandate = i]
        \/ /\ at' = [at EXCEPT ![p] = "pause"] /\ at[p] = "mission"
           /\ saw' = [saw EXCEPT ![p] = [mandate |-> saw[p].mandate, phase |-> mission.phase,
                                         running |-> mission.running]]
        \/ /\ at' = [at EXCEPT ![p] = "questions"] /\ at[p] = "pause" /\ saw' = saw
           /\ ~Paused /\ saw[p].running
        \/ /\ at' = [at EXCEPT ![p] = "money"] /\ at[p] = "questions" /\ saw' = saw
           /\ ~(questions > 0)
        \/ /\ at' = [at EXCEPT ![p] = "ask"] \/ at' = [at EXCEPT ![p] = "open"]
           /\ at[p] = "money" /\ saw' = saw
    BY <1>4, ReadsAnswer, Zenon DEF Passes, To
  <2>. QED
    BY <1>1, <2>1, <2>2, SMT
<1>5. CASE Enter(p) \/ Bill(p) \/ Work(p) \/ WriteNote(p) \/ (Reconcile(p) /\ ~Leave(p))
  <2>1. /\ \/ at' = at /\ at[p] = "reconcile"
           \/ \E next \in {"reconcile", "mandate", "bill", "close"} : at' = [at EXCEPT ![p] = next]
        /\ saw' = saw \/ saw' = [saw EXCEPT ![p] = Nothing]
    BY <1>5, WorkCases, Zenon DEF Enter, Bill, WriteNote, Reconcile, Go, To, Insert, reading
  <2>. QED
    BY <1>1, <2>1, SMT
<1>. QED
  BY <1>2, <1>3, <1>4, <1>5, Zenon DEF Advance, Reads, Reconcile, Close, Kill

LEMMA AdvanceLate ==
    ASSUME Base, RecordsOK, LateInv, Counts, NEW p \in Runners, Advance(p)
    PROVE  LateInv' /\ LateOK'
<1>1. CASE OpenStep(p)
  BY <1>1, OpenLate
<1>2. CASE ~OpenStep(p)
  <2>. DEFINE Checked == {"mission", "pause", "questions", "money", "ask", "open"}
  <2>1. /\ at'[p] = "work" => at[p] = "work"
        /\ \A q \in Runners : q # p => at'[q] = at[q] /\ saw'[q] = saw[q]
        /\ UNCHANGED <<mandates, cycles>>
        /\ at'[p] \in Checked =>
             /\ UNCHANGED <<mission, questions>>
             /\ \/ at'[p] = "mission" /\ at[p] = "mandate" /\ Mandated
                \/ at'[p] = "pause" /\ at[p] = "mission" /\ saw'[p].running = mission.running
                \/ at'[p] = "questions" /\ at[p] = "pause" /\ ~Paused /\ saw[p].running
                \/ at'[p] = "money" /\ at[p] = "questions" /\ ~(questions > 0)
                \/ at'[p] \in {"ask", "open"} /\ at[p] = "money"
    BY <1>2, Elsewheres DEF Base
  <2>2. ~Opens
    <3>. SUFFICES ASSUME NEW q \in Runners, at[q] = "open", at'[q] = "work"
                  PROVE  FALSE
      BY DEF Opens
    <3>. QED
      BY <2>1, Zenon
  <2>3. ASSUME NEW s \in Stops, NEW q \in Runners, Passed(s, q)', ~Passed(s, q)
        PROVE  ~Holds(s)'
    <3>1. q = p
      BY <2>1, <2>3, Zenon DEF Passed
    <3>2. at'[p] \in Checked
      BY <2>3, <3>1, Zenon DEF Passed
    <3>3. (Mandated' <=> Mandated) /\ (Paused' <=> Paused) /\ mission' = mission
      BY <2>1, <3>2, Zenon DEF Mandated, Unrevoked, IsNewest, Paused
    <3>4. CASE at'[p] = "mission" /\ Mandated
      BY <2>3, <3>1, <3>3, <3>4, SMT DEF Passed, Holds
    <3>5. CASE at'[p] = "pause" /\ at[p] = "mission" /\ saw'[p].running = mission.running
      BY <2>3, <3>1, <3>3, <3>5, SMT DEF Passed, Holds
    <3>6. CASE at'[p] = "questions" /\ at[p] = "pause" /\ ~Paused /\ saw[p].running
      BY <2>3, <3>1, <3>3, <3>6, SMT DEF Passed, Holds, Stops
    <3>7. CASE at'[p] \in {"money", "ask", "open"} /\ at[p] \in {"questions", "money"}
      BY <2>3, <3>1, <3>7, SMT DEF Passed
    <3>. QED
      BY <2>1, <3>2, <3>4, <3>5, <3>6, <3>7, Zenon
  <2>. QED
    BY <2>2, <2>3, LateRule
<1>. QED
  BY <1>1, <1>2

\* Answers and changes of other people can end a reason to stop or begin one;
\* nobody passes a check by them.
LEMMA AsideLate ==
    ASSUME LateInv, Counts, UNCHANGED <<runners, book>>
    PROVE  LateInv' /\ LateOK'
<1>1. at' = at /\ saw' = saw
  BY DEF runners, reading
<1>2. ~Opens
  BY <1>1, SMT DEF Opens
<1>3. \A s \in Stops, q \in Runners : Passed(s, q)' => Passed(s, q)
  BY <1>1 DEF Passed
<1>. QED
  BY <1>2, <1>3, LateRule

LEMMA AdvanceQuestion ==
    ASSUME Base, RecordsOK, QuestionInv, NEW p \in Runners, Advance(p)
    PROVE  QuestionInv'
<1>1. CASE AskPerson(p)
  <2>1. at[p] = "ask" /\ questions = 0 /\ questions' = 1
    BY <1>1, SMT DEF AskPerson, QuestionInv
  <2>2. at'[p] \notin {"money", "ask"}
    <3>1. at' = [at EXCEPT ![p] = "out"] \/ at' = [at EXCEPT ![p] = "note"]
      BY <1>1, Zenon DEF AskPerson, Say, Leave, To
    <3>. QED
      BY <3>1, SMT DEF Base, LocalOK
  <2>3. \A q \in Runners : q # p => at'[q] \notin {"money", "ask"}
    <3>. TAKE q \in Runners
    <3>1. LockOf(p) /\ LockOf(q)
      BY DEF Base, WorkInv, LockInv
    <3>2. ~OpenStep(p)
      BY <2>1 DEF OpenStep
    <3>3. q # p => at'[q] = at[q]
      BY <3>2, Elsewheres, Zenon DEF Base
    <3>. QED
      BY <2>1, <3>1, <3>3, SMT DEF LockOf, Asking
  <2>. QED
    BY <2>1, <2>2, <2>3, SMT DEF QuestionInv
<1>2. CASE ~AskPerson(p)
  <2>1. questions' = questions
    BY <1>2, Zenon DEF Advance, Enter, Reconcile, ReadMandate, ReadMission, ReadPause,
       ReadQuestions, CheckMoney, OpenStep, Work, Bill, WriteNote, Close, Complain, Kill, records
  <2>2. at'[p] \in {"money", "ask"} => questions = 0
    <3>1. CASE OpenStep(p)
      BY <3>1, SMT DEF OpenStep, Insert, To, Base, LocalOK
    <3>2. CASE ~OpenStep(p)
      <4>1. /\ at'[p] = "money" => ~(questions > 0)
            /\ at'[p] = "ask" => at[p] = "money"
        BY <3>2, Elsewheres, Zenon DEF Base
      <4>. QED
        BY <4>1, SMT DEF QuestionInv
    <3>. QED
      BY <3>1, <3>2
  <2>3. \A q \in Runners : q # p => at'[q] = at[q]
    <3>1. CASE OpenStep(p)
      BY <3>1, SMT DEF OpenStep, Insert, To, Base, LocalOK
    <3>2. CASE ~OpenStep(p)
      BY <3>2, Elsewheres, Zenon DEF Base
    <3>. QED
      BY <3>1, <3>2
  <2>. QED
    BY <2>1, <2>2, <2>3, SMT DEF QuestionInv
<1>. QED
  BY <1>1, <1>2

LEMMA AsideQuestion ==
    ASSUME QuestionInv, Elsewhere \/ \E q \in Requests : Request(q)
    PROVE  QuestionInv'
<1>1. at' = at
  BY Aside DEF runners
<1>2. questions' = questions \/ (questions > 0 /\ questions' = questions - 1)
  BY Zenon DEF Elsewhere, Expires, Controls, Decides, Spends, Answers, Request, ReadRequest,
     Grant, Revoke, Late, Pause, Resume, records
<1>. QED
  BY <1>1, <1>2, SMT DEF QuestionInv

-----------------------------------------------------------------------------
(* The invariant and what follows from it.                                 *)

LEMMA InitInv == Init => IInv
<1>. SUFFICES ASSUME Init PROVE IInv
  OBVIOUS
<1>1. LocalOK
  BY SilentType, Zenon DEF Init, LocalOK, Places
<1>2. BookOK
  <2>1. UnderWay \in [step : Named, why : Summaries]
    BY SMT DEF UnderWay, Named, Summaries
  <2>2. <<>> \in Seq(Rows)
    BY SMT
  <2>. QED
    BY <2>1, <2>2 DEF Init, BookOK
<1>3. RecordsOK
  <2>. DEFINE terms == [steps |-> {"plan"}, ceiling |-> 0, owner |-> TRUE]
  <2>1. Mandate(terms) \in Mandates
    BY SMT DEF Mandate, Mandates, Steps
  <2>. HIDE DEF terms
  <2>2. <<Mandate(terms)>> \in Seq(Mandates)
    BY <2>1, SMT
  <2>3. <<"running">> \in Seq(Cycle) /\ <<"running">> # <<>>
    BY CycleNames, SMT
  <2>4. Quiet \in Asks
    BY SMT DEF Quiet, Asks
  <2>5. [committed |-> 0, limit |-> -1] \in [committed : Nat, limit : Limits]
    BY SMT DEF Limits
  <2>6. [phase |-> "planning", running |-> TRUE] \in [phase : Phases, running : BOOLEAN]
    BY SMT DEF Phases
  <2>7. mandates \in Seq(Mandates)
    BY <2>2 DEF Init, terms
  <2>8. ask \in [Requests -> Asks]
    BY <2>4, Zenon DEF Init
  <2>9. events \in Nat /\ questions \in Nat
    BY SMT DEF Init
  <2>. QED
    BY <2>3, <2>5, <2>6, <2>7, <2>8, <2>9, Zenon DEF Init, RecordsOK
<1>4. ledger = <<>> /\ DOMAIN ledger = {}
  BY SMT DEF Init
<1>5. \A q \in Runners : at[q] = "out" /\ row[q] = 0 /\ left[q] = {} /\ ~Begun(q)
  BY SMT DEF Init, Begun
<1>6. LockInv
  BY <1>5, SMT DEF LockInv, LockOf, Asking
<1>7. LedgerInv /\ OneAtWork
  BY <1>4, <1>5, SMT DEF LedgerInv, OneAtWork
<1>8. LateInv /\ late \in [Stops -> Nat]
  BY <1>5, SMT DEF Init, LateInv, Passed, Stops
<1>9. QuestionInv
  BY <1>5, SMT DEF Init, QuestionInv
<1>. QED
  BY <1>1, <1>2, <1>3, <1>6, <1>7, <1>8, <1>9 DEF IInv, TypeOK

LEMMA StepInv ==
    ASSUME IInv, [Next]_vars
    PROVE  IInv'
<1>0. Base /\ RecordsOK /\ LateInv /\ QuestionInv
  BY DEF IInv, TypeOK, Base, WorkInv
<1>1. CASE Next /\ \E p \in Runners : Advance(p)
  <2>1. PICK p \in Runners : Advance(p)
    BY <1>1
  <2>2. Counts
    BY <1>1 DEF Next
  <2>3. LocalOK' /\ RecordsOK'
    BY <1>0, <2>1, AdvanceLocal, AdvanceRecords DEF Base
  <2>4. BookOK' /\ WorkInv'
    BY <1>0, <2>1, AdvanceWork
  <2>5. LateInv' /\ LateOK'
    BY <1>0, <2>1, <2>2, AdvanceLate
  <2>6. QuestionInv'
    BY <1>0, <2>1, AdvanceQuestion
  <2>. QED
    BY <2>3, <2>4, <2>5, <2>6 DEF IInv, TypeOK, WorkInv, LateOK
<1>2. CASE Next /\ (Elsewhere \/ \E q \in Requests : Request(q))
  <2>1. UNCHANGED <<runners, book>> /\ Counts
    BY <1>2, Aside DEF Next
  <2>2. Base'
    BY <1>0, <2>1, AsideWork
  <2>3. RecordsOK'
    BY <1>0, <1>2, RequestRecords, ElsewhereRecords
  <2>4. LateInv' /\ LateOK'
    BY <1>0, <2>1, AsideLate
  <2>5. QuestionInv'
    BY <1>0, <1>2, AsideQuestion
  <2>. QED
    BY <2>2, <2>3, <2>4, <2>5 DEF IInv, TypeOK, Base, WorkInv, LateOK
<1>3. CASE UNCHANGED vars
  <2>1. UNCHANGED <<runners, book>> /\ UNCHANGED <<mandates, cycles, money, questions, mission, ask, events, late>>
    BY <1>3 DEF vars, runners, reading, book
  <2>2. Base'
    BY <1>0, <2>1, AsideWork
  <2>3. at' = at /\ saw' = saw
    BY <2>1 DEF runners, reading
  <2>4. RecordsOK' /\ LateInv' /\ QuestionInv'
    BY <1>0, <2>1, <2>3, Zenon DEF RecordsOK, LateInv, QuestionInv, Passed, Holds, Mandated,
       Unrevoked, IsNewest, Paused
  <2>. QED
    BY <2>1, <2>2, <2>4 DEF IInv, TypeOK, Base, WorkInv
<1>. QED
  BY <1>1, <1>2, <1>3 DEF Next

\* Every reachable state satisfies the inductive invariant: the columns keep
\* their types, the lock and the ledger agree, and what a passed check saw
\* has been counted since.
THEOREM Inductive == Spec => []IInv
<1>1. Init => IInv
  BY InitInv
<1>2. IInv /\ [Next]_vars => IInv'
  BY StepInv
<1>. QED
  BY <1>1, <1>2, PTL DEF Spec

\* The tables and the runners' notes keep their types.
THEOREM TypeCorrect == Spec => []TypeOK
<1>1. IInv => TypeOK
  BY DEF IInv
<1>. QED
  BY <1>1, Inductive, PTL

\* One step at a time is at work on a game, whatever processes advance it, and
\* the ledger shows that one in flight.
THEOREM OneStepAtWork == Spec => []OneAtWork
<1>1. IInv => OneAtWork
  BY DEF IInv
<1>. QED
  BY <1>1, Inductive, PTL

\* Nothing is begun on a game after a step whose runner was killed.
THEOREM NothingBegunAfter == Spec => []NothingAfterInterruption
<1>1. IInv => NothingAfterInterruption
  BY Zenon DEF IInv, LedgerInv, NothingAfterInterruption
<1>. QED
  BY <1>1, Inductive, PTL

\* After the mandate is gone, the game paused or its mission stopped, at most
\* one more step is begun.
THEOREM OneLateStep == Spec => []AtMostOneLate
<1>1. IInv => AtMostOneLate
  BY SMT DEF IInv, LateInv, AtMostOneLate
<1>. QED
  BY <1>1, Inductive, PTL

\* People are asked one question at a time.
THEOREM AskedOnce == Spec => []OneQuestion
<1>1. IInv => OneQuestion
  BY SMT DEF IInv, QuestionInv, OneQuestion
<1>. QED
  BY <1>1, Inductive, PTL

Kept == \A i \in DOMAIN ledger : ledger[i].outcome # "in_flight" => ledger'[i] = ledger[i]

LEMMA StepKeeps ==
    ASSUME IInv, Next
    PROVE  Kept
<1>0. Base /\ RecordsOK
  BY DEF IInv, TypeOK, Base, WorkInv
<1>1. CASE UNCHANGED book
  BY <1>1 DEF Kept, book
<1>2. ASSUME NEW p \in Runners, Reconcile(p), ~UNCHANGED book
      PROVE  Kept
  <2>1. PICK i \in left[p] : MayClose(i) /\ CloseRow(i, Note("", Verdict, "interrupted"))
    BY <1>2, Zenon DEF Reconcile
  <2>2. LockOf(p)
    BY <1>0 DEF Base, WorkInv, LockInv
  <2>3. i \in DOMAIN ledger
    BY <2>2, Zenon DEF LockOf
  <2>4. \A j \in DOMAIN ledger : j # i => ledger'[j] = ledger[j]
    <3>1. PICK x : ledger' = [ledger EXCEPT ![i].outcome = x]
      BY <2>1, Zenon DEF CloseRow
    <3>. QED
      BY <1>0, <2>3, <3>1, SMT DEF Base, BookOK
  <2>. QED
    BY <2>1, <2>4, Zenon DEF MayClose, Kept
<1>3. ASSUME NEW p \in Runners, Close(p), ~UNCHANGED book
      PROVE  Kept
  <2>1. MayClose(row[p]) /\ CloseRow(row[p], note[p])
    BY <1>3, Zenon DEF Close
  <2>2. ledger' = [ledger EXCEPT ![row[p]].outcome = note[p].outcome]
    BY <2>1, Zenon DEF CloseRow
  <2>3. \A j \in DOMAIN ledger : j # row[p] => ledger'[j] = ledger[j]
    BY <1>0, <2>2, SMT DEF Base, BookOK
  <2>. QED
    BY <2>1, <2>3, Zenon DEF MayClose, Kept
<1>4. ASSUME NEW p \in Runners, Kill(p), ~UNCHANGED book
      PROVE  Kept
  <2>1. Begun(p) /\ ledger' = [ledger EXCEPT ![row[p]].lost = TRUE]
    BY <1>4, Zenon DEF Kill, book
  <2>2. row[p] \in {j \in InFlight : ledger[j].begun}
    BY <1>0, <2>1, Zenon DEF Base, WorkInv, OneAtWork
  <2>3. ledger[row[p]].outcome = "in_flight"
    BY <2>2 DEF InFlight
  <2>4. \A j \in DOMAIN ledger : j # row[p] => ledger'[j] = ledger[j]
    BY <1>0, <2>1, SMT DEF Base, BookOK
  <2>. QED
    BY <2>3, <2>4, Zenon DEF Kept
<1>5. ASSUME NEW p \in Runners, OpenStep(p) \/ WriteNote(p)
      PROVE  Kept
  <2>1. \E begun \in BOOLEAN, next \in Places : Insert(p, begun, next)
    BY <1>5, Zenon DEF OpenStep, WriteNote, Places
  <2>. QED
    BY <1>0, <2>1, InsertEffect DEF Base, Kept
<1>6. ASSUME NEW p \in Runners, Advance(p), ~Reconcile(p), ~Close(p), ~Kill(p),
             ~OpenStep(p), ~WriteNote(p)
      PROVE  UNCHANGED book
  BY <1>6, Zenon DEF Advance, Enter, ReadMandate, ReadMission, ReadPause, ReadQuestions,
     CheckMoney, AskPerson, Work, Bill, Complain, Say
<1>7. CASE Elsewhere \/ \E q \in Requests : Request(q)
  BY <1>1, <1>7, Aside
<1>. QED
  BY <1>1, <1>2, <1>3, <1>4, <1>5, <1>6, <1>7, Zenon DEF Next

\* A row that has an outcome keeps it.
THEOREM OutcomesStay == Spec => FinishedOnce
<1>1. IInv /\ [Next]_vars => [Kept]_vars
  BY StepKeeps
<1>2. FinishedOnce <=> [][Kept]_vars
  BY PTL DEF FinishedOnce, Kept
<1>. HIDE DEF Kept
<1>. QED
  BY <1>1, <1>2, Inductive, PTL DEF Spec

-----------------------------------------------------------------------------
(* The delivery of a task (coding_delivery.py).                              *)

USE DeliveryAssumption

CallPlaces == {"commit", "candidate", "review", "verdict", "loop", "iteration", "gate", "turn"}
CallRows == [at : CallPlaces, result : Results, number : Nat, repairs : Nat, accept : BOOLEAN,
             read : Nat, gate : Nat]

LoopRows == [status : {"none", "active", "paused", "escalated", "accepted"},
             number : Nat, max : Nat]

\* Types of what a delivery keeps, its calls among them.
DeliveryTyped ==
    /\ checks \in [Results -> Seq({"succeeded", "failed"})]
    /\ committed \subseteq Results /\ candidates \subseteq committed
    /\ evaluated \in [Results -> {NoVerdict, "accepted", "rejected"}]
    /\ loop \in LoopRows
    /\ delivery \in [status : {"none", "active", "awaiting_founder", "pr_ready", "rejected", "failed"},
                     repairs : Nat, of : Results \cup {"none"}, gate : Nat]
    /\ turns \in Seq([result : Results, accepted : BOOLEAN])
    /\ call \in [Calls -> {NoCall} \cup CallRows]
    /\ increase \in Nat /\ released \in BOOLEAN

\* The run of a delivery has one gate, which it follows, and the founder decides
\* it once: who repeats a decision finds it.
GateFollowed ==
    /\ \/ flow = "running" /\ gates = <<>>
       \/ flow \in {"awaiting_approval", "approved", "rejected"}
          /\ gates = <<IF flow = "awaiting_approval" THEN "pending" ELSE flow>>
    /\ founder \in {"idle", "approved", "rejected"}
    /\ founder # "idle" => flow = founder

\* What is committed passed its whole suite, and what is evaluated is a candidate.
WorkEarned ==
    /\ \A r \in committed : SuitePassed(r)
    /\ \A r \in Results : evaluated[r] # NoVerdict => r \in candidates

\* What a call still knows of its result, from the transactions it made.
CallEarned(c) ==
    call[c] # NoCall =>
        /\ call[c].at = "candidate" => call[c].result \in committed
        /\ call[c].at \in {"review", "verdict"} => call[c].result \in candidates
        /\ (call[c].at \in {"loop", "iteration", "gate", "turn"} /\ call[c].accept) =>
              evaluated[call[c].result] = "accepted"
        /\ (call[c].at = "turn" /\ call[c].accept) => call[c].gate = 1 /\ flow # "running"

\* A delivery before the founder has a candidate that was accepted, and its gate.
DeliveryEarned ==
    /\ delivery.status \in {"awaiting_founder", "pr_ready"} =>
          /\ delivery.of \in Results /\ evaluated[delivery.of] = "accepted"
          /\ delivery.gate = 1 /\ flow # "running"
    /\ delivery.status = "pr_ready" => flow = "approved"
    /\ released => delivery.status = "pr_ready"

FailedTurns == {n \in DOMAIN turns : ~turns[n].accepted}

\* The count of the repairs, and what it says of the delivery.
CountKept ==
    /\ delivery.repairs = Cardinality(FailedTurns)
    /\ delivery.repairs <= MaxRepairs
    /\ delivery.status = "failed" <=> delivery.repairs = MaxRepairs

\* The call that may still record its turn read the delivery as it is: no turn
\* was recorded since, so it is active and has the repairs that the call read.
CallCurrent(c) ==
    call[c] # NoCall =>
        /\ call[c].number <= Len(turns) + 1
        /\ call[c].number = Len(turns) + 1 =>
              delivery.status = "active" /\ call[c].repairs = delivery.repairs

DeliveryInv ==
    /\ DeliveryTyped /\ GateFollowed /\ WorkEarned
    /\ \A c \in Calls : CallEarned(c) /\ CallCurrent(c)
    /\ DeliveryEarned /\ CountKept

LEMMA DeliveryStart == CDInit => DeliveryInv
<1> SUFFICES ASSUME CDInit PROVE DeliveryInv
  OBVIOUS
<1>1. DeliveryTyped
  <2>1. loop \in LoopRows
    BY DEF CDInit, NoLoop, LoopRows
  <2>2. /\ checks \in [Results -> Seq({"succeeded", "failed"})]
        /\ turns \in Seq([result : Results, accepted : BOOLEAN])
    BY DEF CDInit
  <2>3. call \in [Calls -> {NoCall} \cup CallRows]
    BY DEF CDInit
  <2>4. delivery \in [status : {"none", "active", "awaiting_founder", "pr_ready", "rejected", "failed"},
                     repairs : Nat, of : Results \cup {"none"}, gate : Nat]
    BY DEF CDInit, NoDelivery
  <2> QED
    BY <2>1, <2>2, <2>3, <2>4 DEF CDInit, DeliveryTyped
<1>2. GateFollowed /\ WorkEarned /\ DeliveryEarned
  BY DEF CDInit, GateFollowed, WorkEarned, DeliveryEarned, NoDelivery, NoVerdict
<1>3. \A c \in Calls : CallEarned(c) /\ CallCurrent(c)
  BY DEF CDInit, CallEarned, CallCurrent
<1>4. CountKept
  <2>1. FailedTurns = {}
    BY DEF CDInit, FailedTurns
  <2> QED
    BY <2>1, FS_EmptySet DEF CDInit, CountKept, NoDelivery
<1> QED
  BY <1>1, <1>2, <1>3, <1>4 DEF DeliveryInv

\* Of a call that stands somewhere, what its entry is.
LEMMA CallIsRow ==
  ASSUME DeliveryTyped, NEW c \in Calls, call[c].at # "idle" \/ call[c] # NoCall
  PROVE  call[c] \in CallRows /\ call[c] # NoCall /\ call[c].result \in Results
  BY DEF DeliveryTyped, NoCall, CallRows, CallPlaces

\* Steps that touch neither the calls nor what they remember.
LEMMA DeliveryApart ==
  ASSUME DeliveryInv, UNCHANGED <<committed, candidates, evaluated, turns, delivery, call, released>>,
         checks' \in [Results -> Seq({"succeeded", "failed"})],
         \A r \in Results : SuitePassed(r) => SuitePassed(r)',
         loop' \in LoopRows,
         increase' \in Nat, GateFollowed', flow = "running" <=> flow' = "running",
         flow = "approved" => flow' = "approved"
  PROVE  DeliveryInv'
<1>1. DeliveryTyped'
  BY DEF DeliveryInv, DeliveryTyped
<1>2. WorkEarned'
  BY DEF DeliveryInv, DeliveryTyped, WorkEarned
<1>3. (\A c \in Calls : CallEarned(c) /\ CallCurrent(c))'
  BY DEF DeliveryInv, CallEarned, CallCurrent
<1>4. DeliveryEarned'
  BY DEF DeliveryInv, DeliveryEarned
<1>5. CountKept'
  BY DEF DeliveryInv, CountKept, FailedTurns
<1> QED
  BY <1>1, <1>2, <1>3, <1>4, <1>5 DEF DeliveryInv

LEMMA ValidateKeeps ==
  ASSUME DeliveryInv, NEW r \in Results, Validate(r)
  PROVE  DeliveryInv'
<1>1. checks \in [Results -> Seq({"succeeded", "failed"})]
  BY DEF DeliveryInv, DeliveryTyped
<1>2. PICK outcome \in {"succeeded", "failed"} : checks' = [checks EXCEPT ![r] = Append(@, outcome)]
  BY DEF Validate
<1>3. checks' \in [Results -> Seq({"succeeded", "failed"})]
  BY <1>1, <1>2
<1>4. \A s \in Results : SuitePassed(s) => SuitePassed(s)'
  <2> SUFFICES ASSUME NEW s \in Results, SuitePassed(s) PROVE SuitePassed(s)'
    OBVIOUS
  <2>1. s # r
    BY DEF SuitePassed, Validate
  <2>2. checks'[s] = checks[s]
    BY <1>1, <1>2, <2>1
  <2> QED
    BY <2>2 DEF SuitePassed, AllSucceeded
<1> QED
  BY <1>3, <1>4, DeliveryApart DEF Validate, DeliveryInv, GateFollowed, DeliveryTyped

LEMMA LoopKeeps ==
  ASSUME DeliveryInv, StartLoop \/ Escalate \/ ApproveLimit \/ ResumeLoop
  PROVE  DeliveryInv'
<1>1. \A r \in Results : SuitePassed(r) => SuitePassed(r)'
  BY DEF StartLoop, Escalate, ApproveLimit, ResumeLoop, work, SuitePassed, AllSucceeded
<1>2. /\ increase' \in Nat
      /\ loop' \in LoopRows
  <2>1. /\ increase \in Nat
        /\ loop \in LoopRows
    BY DEF DeliveryInv, DeliveryTyped
  <2>2. CASE StartLoop
    BY <2>1, <2>2 DEF StartLoop, LoopRows
  <2>4. CASE Escalate
    BY <2>1, <2>4 DEF Escalate, LoopRows
  <2>5. CASE ResumeLoop
    BY <2>1, <2>5 DEF ResumeLoop, LoopRows
  <2>3. CASE ApproveLimit
    <3>1. PICK limit \in (loop.max + 1)..MaxLimit : increase' = limit
      BY <2>3 DEF ApproveLimit
    <3> QED
      BY <2>1, <2>3, <3>1 DEF ApproveLimit, LoopRows
  <2> QED
    BY <2>2, <2>3, <2>4, <2>5
<1>3. /\ UNCHANGED <<checks, committed, candidates, evaluated, turns, delivery, call, released>>
      /\ UNCHANGED <<flow, gates, founder>>
  BY DEF StartLoop, Escalate, ApproveLimit, ResumeLoop, work
<1>4. GateFollowed' /\ checks' \in [Results -> Seq({"succeeded", "failed"})]
  BY <1>3 DEF DeliveryInv, GateFollowed, DeliveryTyped
<1> QED
  BY <1>1, <1>2, <1>3, <1>4, DeliveryApart

LEMMA StartDeliveryKeeps ==
  ASSUME DeliveryInv, StartDelivery
  PROVE  DeliveryInv'
<1>1. delivery' = [delivery EXCEPT !.status = "active"] /\ delivery.status = "none"
  BY DEF StartDelivery
<1>2. DeliveryTyped'
  BY <1>1 DEF StartDelivery, work, DeliveryInv, DeliveryTyped
<1>3. GateFollowed' /\ WorkEarned'
  BY DEF StartDelivery, work, DeliveryInv, GateFollowed, WorkEarned, SuitePassed, AllSucceeded
<1>4. delivery' = [delivery' EXCEPT !.status = "active"] /\ delivery'.status = "active"
      /\ delivery'.repairs = delivery.repairs
  BY <1>1 DEF DeliveryInv, DeliveryTyped
<1>5. (\A c \in Calls : CallEarned(c) /\ CallCurrent(c))'
  BY <1>4 DEF StartDelivery, work, DeliveryInv, CallEarned, CallCurrent
<1>6. DeliveryEarned'
  BY <1>1, <1>4 DEF StartDelivery, DeliveryInv, DeliveryEarned
<1>7. CountKept'
  BY <1>1, <1>4 DEF StartDelivery, DeliveryInv, CountKept, FailedTurns
<1> QED
  BY <1>2, <1>3, <1>5, <1>6, <1>7 DEF DeliveryInv

\* A step of one call that changes neither the delivery, its turns nor its run.
LEMMA CallApart ==
  ASSUME DeliveryInv, NEW c \in Calls,
         UNCHANGED <<checks, delivery, turns, increase, released>>, loop' \in LoopRows,
         call' \in [Calls -> {NoCall} \cup CallRows],
         \A d \in Calls \ {c} : call'[d] = call[d],
         committed \subseteq committed', candidates \subseteq candidates',
         committed' \subseteq Results, candidates' \subseteq committed',
         \A r \in committed' : SuitePassed(r),
         evaluated' \in [Results -> {NoVerdict, "accepted", "rejected"}],
         \A r \in Results : evaluated[r] = "accepted" => evaluated'[r] = "accepted",
         \A r \in Results : evaluated'[r] # NoVerdict => r \in candidates',
         GateFollowed', flow # "running" => flow' = flow,
         CallEarned(c)', CallCurrent(c)'
  PROVE  DeliveryInv'
<1>1. DeliveryTyped'
  BY DEF DeliveryInv, DeliveryTyped
<1>2. WorkEarned'
  BY DEF DeliveryInv, WorkEarned, SuitePassed, AllSucceeded
<1>3. ASSUME NEW d \in Calls PROVE (CallEarned(d) /\ CallCurrent(d))'
  <2>1. CASE d = c
    BY <2>1
  <2>2. CASE d # c
    <3>1. call'[d] = call[d] /\ CallEarned(d) /\ CallCurrent(d)
      BY <2>2 DEF DeliveryInv
    <3>2. call[d] # NoCall => call[d].result \in Results
      BY CallIsRow DEF DeliveryInv
    <3>3. CallCurrent(d)'
      BY <3>1 DEF CallCurrent
    <3>4. CallEarned(d)'
      BY <3>1, <3>2 DEF CallEarned
    <3> QED
      BY <3>3, <3>4
  <2> QED
    BY <2>1, <2>2
<1>4. DeliveryEarned'
  BY DEF DeliveryInv, DeliveryEarned
<1>5. CountKept'
  BY DEF DeliveryInv, CountKept, FailedTurns
<1> QED
  BY <1>1, <1>2, <1>3, <1>4, <1>5 DEF DeliveryInv

LEMMA ProcessKeeps ==
  ASSUME DeliveryInv, NEW c \in Calls, NEW r \in Results, Process(c, r)
  PROVE  DeliveryInv'
<1>0. DeliveryTyped /\ GateFollowed /\ WorkEarned
  BY DEF DeliveryInv
<1> DEFINE new == [at |-> IF SuitePassed(r) THEN "commit" ELSE "loop", result |-> r,
                   number |-> Len(turns) + 1, repairs |-> delivery.repairs,
                   accept |-> FALSE, read |-> 0, gate |-> 0]
<1>1. call' = [call EXCEPT ![c] = new] /\ delivery.status = "active"
  BY DEF Process
<1>2. new \in CallRows
  BY <1>0 DEF DeliveryTyped, CallRows, CallPlaces
<1>3. /\ call'[c] = new
      /\ call' \in [Calls -> {NoCall} \cup CallRows]
      /\ \A d \in Calls \ {c} : call'[d] = call[d]
  BY <1>0, <1>1, <1>2 DEF DeliveryTyped
<1>4. UNCHANGED <<checks, committed, candidates, evaluated, loop, delivery, turns, increase,
                  released, flow, gates, founder>>
  BY DEF Process, work
<1>5. CallEarned(c)'
  BY <1>3 DEF CallEarned
<1>6. CallCurrent(c)'
  BY <1>0, <1>1, <1>3, <1>4 DEF CallCurrent, DeliveryTyped
<1>7. GateFollowed' /\ \A s \in committed' : SuitePassed(s)
  BY <1>0, <1>4 DEF GateFollowed, WorkEarned
<1> HIDE DEF new
<1> QED
  BY <1>0, <1>3, <1>4, <1>5, <1>6, <1>7, CallApart DEF DeliveryTyped, WorkEarned

\* A call that only moves on, or ends, with what it has.
LEMMA CallEnds ==
  ASSUME DeliveryInv, NEW c \in Calls, call' = [call EXCEPT ![c] = NoCall]
  PROVE  /\ call' \in [Calls -> {NoCall} \cup CallRows]
         /\ \A d \in Calls \ {c} : call'[d] = call[d]
         /\ CallEarned(c)' /\ CallCurrent(c)'
<1>1. call'[c] = NoCall
  BY DEF DeliveryInv, DeliveryTyped
<1> QED
  BY <1>1 DEF DeliveryInv, DeliveryTyped, CallEarned, CallCurrent

LEMMA CallMoves ==
  ASSUME DeliveryInv, NEW c \in Calls, call[c] # NoCall, UNCHANGED <<delivery, turns>>,
         NEW entry, entry \in CallRows, call' = [call EXCEPT ![c] = entry],
         entry.result = call[c].result, entry.number = call[c].number, entry.repairs = call[c].repairs
  PROVE  /\ call'[c] = entry /\ call' \in [Calls -> {NoCall} \cup CallRows]
         /\ \A d \in Calls \ {c} : call'[d] = call[d]
         /\ CallCurrent(c)'
<1>1. /\ call'[c] = entry /\ call' \in [Calls -> {NoCall} \cup CallRows]
      /\ \A d \in Calls \ {c} : call'[d] = call[d]
  BY DEF DeliveryInv, DeliveryTyped
<1>2. CallCurrent(c)
  BY DEF DeliveryInv
<1> QED
  BY <1>1, <1>2 DEF CallCurrent

LEMMA CommitKeeps ==
  ASSUME DeliveryInv, NEW c \in Calls, CommitCandidate(c)
  PROVE  DeliveryInv'
<1>0. DeliveryTyped /\ GateFollowed /\ WorkEarned
  BY DEF DeliveryInv
<1>1. call[c] \in CallRows /\ call[c] # NoCall /\ call[c].result \in Results
  BY <1>0, CallIsRow DEF CommitCandidate
<1>2. UNCHANGED <<checks, candidates, evaluated, loop, delivery, turns, increase,
                  released, flow, gates, founder>>
  BY DEF CommitCandidate
<1>3. PICK place \in {"review", "candidate"} :
         /\ call' = [call EXCEPT ![c] = [call[c] EXCEPT !.at = place]]
         /\ \/ place = "review" /\ call[c].result \in candidates /\ committed' = committed
            \/ /\ place = "candidate" /\ SuitePassed(call[c].result)
               /\ committed' = committed \cup {call[c].result}
  BY DEF CommitCandidate, CallTo
<1> DEFINE entry == [call[c] EXCEPT !.at = place]
<1>4. /\ entry \in CallRows /\ entry.result = call[c].result /\ entry.number = call[c].number
      /\ entry.repairs = call[c].repairs /\ entry.at = place
  BY <1>1, <1>3 DEF CallRows, CallPlaces
<1> HIDE DEF entry
<1>5. /\ call'[c] = entry /\ call' \in [Calls -> {NoCall} \cup CallRows]
      /\ \A d \in Calls \ {c} : call'[d] = call[d]
      /\ CallCurrent(c)'
  BY <1>1, <1>2, <1>3, <1>4, CallMoves DEF entry
<1>6. CallEarned(c)'
  BY <1>2, <1>3, <1>4, <1>5 DEF CallEarned
<1>7. /\ \A s \in committed' : SuitePassed(s)
      /\ committed \subseteq committed' /\ committed' \subseteq Results
  BY <1>0, <1>1, <1>3 DEF WorkEarned, DeliveryTyped
<1>8. GateFollowed'
  BY <1>0, <1>2 DEF GateFollowed
<1> QED
  BY <1>0, <1>2, <1>5, <1>6, <1>7, <1>8, CallApart DEF DeliveryTyped, WorkEarned

LEMMA InsertCandidateKeeps ==
  ASSUME DeliveryInv, NEW c \in Calls, InsertCandidate(c)
  PROVE  DeliveryInv'
<1>0. DeliveryTyped /\ GateFollowed /\ WorkEarned /\ CallEarned(c)
  BY DEF DeliveryInv
<1>1. call[c] \in CallRows /\ call[c] # NoCall /\ call[c].result \in Results
  BY <1>0, CallIsRow DEF InsertCandidate
<1>2. /\ UNCHANGED <<checks, committed, evaluated, loop, delivery, turns, increase,
                  released, flow, gates, founder>>
      /\ candidates' = candidates \cup {call[c].result}
  BY DEF InsertCandidate
<1>3. call[c].result \in committed
  BY <1>0, <1>1 DEF CallEarned, InsertCandidate
<1>4. GateFollowed' /\ \A s \in committed' : SuitePassed(s)
  BY <1>0, <1>2 DEF GateFollowed, WorkEarned
<1>5. /\ candidates \subseteq candidates' /\ candidates' \subseteq committed'
      /\ \A s \in Results : evaluated'[s] # NoVerdict => s \in candidates'
  BY <1>0, <1>2, <1>3 DEF DeliveryTyped, WorkEarned
<1>6. CASE call[c].result \in candidates
  <2>1. call' = [call EXCEPT ![c] = NoCall]
    BY <1>6 DEF InsertCandidate
  <2> QED
    BY <1>0, <1>2, <1>4, <1>5, <2>1, CallEnds, CallApart DEF DeliveryTyped
<1>7. CASE call[c].result \notin candidates
  <2> DEFINE entry == [call[c] EXCEPT !.at = "review"]
  <2>1. call' = [call EXCEPT ![c] = entry]
    BY <1>7 DEF InsertCandidate, CallTo
  <2>2. /\ entry \in CallRows /\ entry.result = call[c].result /\ entry.number = call[c].number
        /\ entry.repairs = call[c].repairs /\ entry.at = "review"
    BY <1>1 DEF CallRows, CallPlaces
  <2> HIDE DEF entry
  <2>3. /\ call'[c] = entry /\ call' \in [Calls -> {NoCall} \cup CallRows]
        /\ \A d \in Calls \ {c} : call'[d] = call[d]
        /\ CallCurrent(c)'
    BY <1>1, <1>2, <2>1, <2>2, CallMoves
  <2>4. CallEarned(c)'
    BY <1>2, <2>2, <2>3 DEF CallEarned
  <2> QED
    BY <1>0, <1>2, <1>4, <1>5, <2>3, <2>4, CallApart DEF DeliveryTyped
<1> QED
  BY <1>6, <1>7

LEMMA ReviewKeeps ==
  ASSUME DeliveryInv, NEW c \in Calls, Review(c)
  PROVE  DeliveryInv'
<1>0. DeliveryTyped /\ GateFollowed /\ WorkEarned /\ CallEarned(c)
  BY DEF DeliveryInv
<1>1. call[c] \in CallRows /\ call[c] # NoCall /\ call[c].result \in Results
  BY <1>0, CallIsRow DEF Review
<1>2. UNCHANGED <<checks, committed, candidates, evaluated, loop, delivery, turns, increase,
                  released, flow, gates, founder>>
  BY DEF Review, work
<1>3. PICK place \in {"loop", "verdict"}, accept \in BOOLEAN :
         /\ call' = [call EXCEPT ![c] = [call[c] EXCEPT !.at = place, !.accept = accept]]
         /\ place = "loop" => accept = (evaluated[call[c].result] = "accepted")
  BY DEF Review
<1> DEFINE entry == [call[c] EXCEPT !.at = place, !.accept = accept]
<1>4. /\ entry \in CallRows /\ entry.result = call[c].result /\ entry.number = call[c].number
      /\ entry.repairs = call[c].repairs /\ entry.at = place /\ entry.accept = accept
  BY <1>1, <1>3 DEF CallRows, CallPlaces
<1> HIDE DEF entry
<1>5. /\ call'[c] = entry /\ call' \in [Calls -> {NoCall} \cup CallRows]
      /\ \A d \in Calls \ {c} : call'[d] = call[d]
      /\ CallCurrent(c)'
  BY <1>1, <1>2, <1>3, <1>4, CallMoves DEF entry
<1>6. call[c].result \in candidates
  BY <1>0, <1>1 DEF CallEarned, Review
<1>7. CallEarned(c)'
  BY <1>2, <1>3, <1>4, <1>5, <1>6 DEF CallEarned
<1>8. GateFollowed' /\ \A s \in committed' : SuitePassed(s)
  BY <1>0, <1>2 DEF GateFollowed, WorkEarned
<1> QED
  BY <1>0, <1>2, <1>5, <1>7, <1>8, CallApart DEF DeliveryTyped, WorkEarned

LEMMA InsertEvaluationKeeps ==
  ASSUME DeliveryInv, NEW c \in Calls, InsertEvaluation(c)
  PROVE  DeliveryInv'
<1>0. DeliveryTyped /\ GateFollowed /\ WorkEarned /\ CallEarned(c)
  BY DEF DeliveryInv
<1>1. call[c] \in CallRows /\ call[c] # NoCall /\ call[c].result \in Results
  BY <1>0, CallIsRow DEF InsertEvaluation
<1>2. UNCHANGED <<checks, committed, candidates, loop, delivery, turns, increase,
                  released, flow, gates, founder>>
  BY DEF InsertEvaluation
<1>3. GateFollowed' /\ \A s \in committed' : SuitePassed(s)
  BY <1>0, <1>2 DEF GateFollowed, WorkEarned
<1>4. CASE evaluated[call[c].result] # NoVerdict
  <2>1. call' = [call EXCEPT ![c] = NoCall] /\ evaluated' = evaluated
    BY <1>4 DEF InsertEvaluation
  <2> QED
    BY <1>0, <1>2, <1>3, <2>1, CallEnds, CallApart DEF DeliveryTyped, WorkEarned
<1>5. CASE evaluated[call[c].result] = NoVerdict
  <2> DEFINE entry == [call[c] EXCEPT !.at = "loop"]
             verdict == IF call[c].accept THEN "accepted" ELSE "rejected"
  <2>1. call' = [call EXCEPT ![c] = entry] /\ evaluated' = [evaluated EXCEPT ![call[c].result] = verdict]
    BY <1>5 DEF InsertEvaluation, CallTo
  <2>2. /\ entry \in CallRows /\ entry.result = call[c].result /\ entry.number = call[c].number
        /\ entry.repairs = call[c].repairs /\ entry.at = "loop" /\ entry.accept = call[c].accept
    BY <1>1 DEF CallRows, CallPlaces
  <2> HIDE DEF entry
  <2>3. /\ call'[c] = entry /\ call' \in [Calls -> {NoCall} \cup CallRows]
        /\ \A d \in Calls \ {c} : call'[d] = call[d]
        /\ CallCurrent(c)'
    BY <1>1, <1>2, <2>1, <2>2, CallMoves
  <2>4. call[c].result \in candidates
    BY <1>0, <1>1 DEF CallEarned, InsertEvaluation
  <2>5. /\ evaluated' \in [Results -> {NoVerdict, "accepted", "rejected"}]
        /\ evaluated'[call[c].result] = verdict
        /\ \A s \in Results \ {call[c].result} : evaluated'[s] = evaluated[s]
    BY <1>0, <1>1, <2>1 DEF DeliveryTyped
  <2>6. CallEarned(c)'
    BY <1>2, <2>2, <2>3, <2>5 DEF CallEarned
  <2>7. /\ \A s \in Results : evaluated[s] = "accepted" => evaluated'[s] = "accepted"
        /\ \A s \in Results : evaluated'[s] # NoVerdict => s \in candidates'
    BY <1>0, <1>2, <1>5, <2>4, <2>5 DEF WorkEarned, NoVerdict
  <2> QED
    BY <1>0, <1>2, <1>3, <2>3, <2>5, <2>6, <2>7, CallApart DEF DeliveryTyped
<1> QED
  BY <1>4, <1>5

LEMMA ReadLoopKeeps ==
  ASSUME DeliveryInv, NEW c \in Calls, ReadLoop(c)
  PROVE  DeliveryInv'
<1>0. DeliveryTyped /\ GateFollowed /\ WorkEarned /\ CallEarned(c)
  BY DEF DeliveryInv
<1>1. call[c] \in CallRows /\ call[c] # NoCall /\ call[c].result \in Results
  BY <1>0, CallIsRow DEF ReadLoop
<1>2. UNCHANGED <<checks, committed, candidates, evaluated, loop, delivery, turns, increase,
                  released, flow, gates, founder>>
  BY DEF ReadLoop, work
<1>3. GateFollowed' /\ \A s \in committed' : SuitePassed(s)
  BY <1>0, <1>2 DEF GateFollowed, WorkEarned
<1>4. CASE loop.status # "active"
  <2>1. call' = [call EXCEPT ![c] = NoCall]
    BY <1>4 DEF ReadLoop
  <2> QED
    BY <1>0, <1>2, <1>3, <2>1, CallEnds, CallApart DEF DeliveryTyped, WorkEarned
<1>5. CASE loop.status = "active"
  <2> DEFINE entry == [call[c] EXCEPT !.at = "iteration", !.read = loop.number + 1]
  <2>1. call' = [call EXCEPT ![c] = entry]
    BY <1>5 DEF ReadLoop
  <2>2. /\ entry \in CallRows /\ entry.result = call[c].result /\ entry.number = call[c].number
        /\ entry.repairs = call[c].repairs /\ entry.at = "iteration" /\ entry.accept = call[c].accept
    <3>1. loop.number + 1 \in Nat
      BY <1>0 DEF DeliveryTyped, LoopRows
    <3> QED
      BY <1>1, <3>1 DEF CallRows, CallPlaces
  <2> HIDE DEF entry
  <2>3. /\ call'[c] = entry /\ call' \in [Calls -> {NoCall} \cup CallRows]
        /\ \A d \in Calls \ {c} : call'[d] = call[d]
        /\ CallCurrent(c)'
    BY <1>1, <1>2, <2>1, <2>2, CallMoves
  <2>4. CallEarned(c)'
    BY <1>0, <1>1, <1>2, <2>2, <2>3 DEF CallEarned, ReadLoop
  <2> QED
    BY <1>0, <1>2, <1>3, <2>3, <2>4, CallApart DEF DeliveryTyped, WorkEarned
<1> QED
  BY <1>4, <1>5

LEMMA RecordIterationKeeps ==
  ASSUME DeliveryInv, NEW c \in Calls, RecordIteration(c)
  PROVE  DeliveryInv'
<1>0. DeliveryTyped /\ GateFollowed /\ WorkEarned /\ CallEarned(c)
  BY DEF DeliveryInv
<1>1. call[c] \in CallRows /\ call[c] # NoCall /\ call[c].result \in Results
  BY <1>0, CallIsRow DEF RecordIteration
<1>2. UNCHANGED <<checks, committed, candidates, evaluated, delivery, turns, increase,
                  released, flow, gates, founder>>
  BY DEF RecordIteration, work
<1>3. GateFollowed' /\ \A s \in committed' : SuitePassed(s)
  BY <1>0, <1>2 DEF GateFollowed, WorkEarned
<1>4. CASE \E n \in DOMAIN numbers : numbers[n] = call[c].read
  <2>1. call' = [call EXCEPT ![c] = NoCall] /\ loop' = loop
    BY <1>4 DEF RecordIteration
  <2> QED
    BY <1>0, <1>2, <1>3, <2>1, CallEnds, CallApart DEF DeliveryTyped, WorkEarned
<1>5. CASE ~\E n \in DOMAIN numbers : numbers[n] = call[c].read
  <2>1. PICK place \in {"gate", "turn"} :
           /\ call' = [call EXCEPT ![c] = [call[c] EXCEPT !.at = place]]
           /\ place = "gate" <=> call[c].accept
    BY <1>5 DEF RecordIteration, CallTo
  <2>2. PICK s \in {"accepted", "paused", "active"} :
           loop' = IF loop.status # "active" THEN loop
                   ELSE [loop EXCEPT !.number = call[c].read, !.status = s]
    BY <1>5 DEF RecordIteration
  <2>3. loop' \in LoopRows
    <3>1. call[c].read \in Nat
      BY <1>1 DEF CallRows
    <3> QED
      BY <1>0, <2>2, <3>1 DEF DeliveryTyped, LoopRows
  <2> DEFINE entry == [call[c] EXCEPT !.at = place]
  <2>4. /\ entry \in CallRows /\ entry.result = call[c].result /\ entry.number = call[c].number
        /\ entry.repairs = call[c].repairs /\ entry.at = place /\ entry.accept = call[c].accept
    BY <1>1 DEF CallRows, CallPlaces
  <2> HIDE DEF entry
  <2>5. /\ call'[c] = entry /\ call' \in [Calls -> {NoCall} \cup CallRows]
        /\ \A d \in Calls \ {c} : call'[d] = call[d]
        /\ CallCurrent(c)'
    BY <1>1, <1>2, <2>1, <2>4, CallMoves DEF entry
  <2>6. CallEarned(c)'
    BY <1>0, <1>1, <1>2, <2>1, <2>4, <2>5 DEF CallEarned, RecordIteration
  <2> QED
    BY <1>0, <1>2, <1>3, <2>3, <2>5, <2>6, CallApart DEF DeliveryTyped, WorkEarned
<1> QED
  BY <1>4, <1>5

LEMMA CreateGateKeeps ==
  ASSUME DeliveryInv, NEW c \in Calls, CreateGate(c)
  PROVE  DeliveryInv'
<1>0. DeliveryTyped /\ GateFollowed /\ WorkEarned /\ CallEarned(c)
  BY DEF DeliveryInv
<1>1. call[c] \in CallRows /\ call[c] # NoCall /\ call[c].result \in Results
  BY <1>0, CallIsRow DEF CreateGate
<1>2. UNCHANGED <<checks, committed, candidates, evaluated, loop, delivery, turns, increase,
                  released, founder>>
  BY DEF CreateGate, work
<1>3. \A s \in committed' : SuitePassed(s)
  BY <1>0, <1>2 DEF WorkEarned
<1>4. CASE flow # "running"
  <2>1. call' = [call EXCEPT ![c] = NoCall] /\ UNCHANGED <<flow, gates>>
    BY <1>4 DEF CreateGate
  <2>2. GateFollowed'
    BY <1>0, <1>2, <2>1 DEF GateFollowed
  <2> QED
    BY <1>0, <1>2, <1>3, <2>1, <2>2, CallEnds, CallApart DEF DeliveryTyped, WorkEarned
<1>5. CASE flow = "running"
  <2> DEFINE entry == [call[c] EXCEPT !.at = "turn", !.gate = 1]
  <2>1. gates = <<>> /\ founder = "idle" /\ Len(gates) + 1 = 1
    BY <1>0, <1>5 DEF GateFollowed
  <2>2. /\ call' = [call EXCEPT ![c] = entry] /\ flow' = "awaiting_approval"
        /\ gates' = Append(gates, "pending")
    BY <1>5, <2>1 DEF CreateGate
  <2>3. GateFollowed'
    BY <1>2, <2>1, <2>2 DEF GateFollowed
  <2>4. /\ entry \in CallRows /\ entry.result = call[c].result /\ entry.number = call[c].number
        /\ entry.repairs = call[c].repairs /\ entry.at = "turn" /\ entry.accept = call[c].accept
        /\ entry.gate = 1
    BY <1>1 DEF CallRows, CallPlaces
  <2> HIDE DEF entry
  <2>5. /\ call'[c] = entry /\ call' \in [Calls -> {NoCall} \cup CallRows]
        /\ \A d \in Calls \ {c} : call'[d] = call[d]
        /\ CallCurrent(c)'
    BY <1>1, <1>2, <2>2, <2>4, CallMoves
  <2>6. CallEarned(c)'
    BY <1>0, <1>1, <1>2, <2>2, <2>4, <2>5 DEF CallEarned, CreateGate
  <2> QED
    BY <1>0, <1>2, <1>3, <1>5, <2>2, <2>3, <2>5, <2>6, CallApart DEF DeliveryTyped, WorkEarned
<1> QED
  BY <1>4, <1>5

LEMMA EndCallKeeps ==
  ASSUME DeliveryInv, NEW c \in Calls, EndCall(c)
  PROVE  DeliveryInv'
<1>0. DeliveryTyped /\ GateFollowed /\ WorkEarned
  BY DEF DeliveryInv
<1>1. /\ UNCHANGED <<checks, committed, candidates, evaluated, loop, delivery, turns, increase,
                     released, flow, gates, founder>>
      /\ call' = [call EXCEPT ![c] = NoCall]
  BY DEF EndCall, work
<1>2. GateFollowed' /\ \A s \in committed' : SuitePassed(s)
  BY <1>0, <1>1 DEF GateFollowed, WorkEarned
<1> QED
  BY <1>0, <1>1, <1>2, CallEnds, CallApart DEF DeliveryTyped, WorkEarned

\* A turn that is recorded is a failed one, which is counted, or an accepted one,
\* which is not.
LEMMA TurnCounts ==
  ASSUME turns \in Seq([result : Results, accepted : BOOLEAN]),
         NEW t \in [result : Results, accepted : BOOLEAN], turns' = Append(turns, t)
  PROVE  Cardinality(FailedTurns)' = Cardinality(FailedTurns) + (IF t.accepted THEN 0 ELSE 1)
<1>1. /\ DOMAIN turns = 1..Len(turns) /\ DOMAIN turns' = 1..(Len(turns) + 1)
      /\ Len(turns) \in Nat
      /\ \A n \in 1..Len(turns) : turns'[n] = turns[n]
      /\ turns'[Len(turns) + 1] = t
  OBVIOUS
<1>2. IsFiniteSet(FailedTurns) /\ Len(turns) + 1 \notin FailedTurns
  <2>1. FailedTurns \subseteq 1..Len(turns)
    BY <1>1 DEF FailedTurns
  <2>2. IsFiniteSet(1..Len(turns))
    BY <1>1, FS_Interval
  <2>3. Len(turns) + 1 \notin 1..Len(turns)
    BY <1>1
  <2> QED
    BY <2>1, <2>2, <2>3, FS_Subset
<1>3. FailedTurns' = FailedTurns \cup (IF t.accepted THEN {} ELSE {Len(turns) + 1})
  BY <1>1 DEF FailedTurns
<1>4. CASE t.accepted
  <2>1. FailedTurns' = FailedTurns
    BY <1>3, <1>4
  <2>2. Cardinality(FailedTurns) \in Nat
    BY <1>2, FS_CardinalityType
  <2> QED
    BY <1>4, <2>1, <2>2
<1>5. CASE ~t.accepted
  <2>1. FailedTurns' = FailedTurns \cup {Len(turns) + 1}
    BY <1>3, <1>5
  <2>2. Cardinality(FailedTurns \cup {Len(turns) + 1}) = Cardinality(FailedTurns) + 1
    BY <1>2, FS_AddElement
  <2> QED
    BY <1>5, <2>1, <2>2
<1> QED
  BY <1>4, <1>5

\* The last transaction of a call that nobody overtook finds the delivery that the
\* call read before its first.
LEMMA RecordTurnKeeps ==
  ASSUME DeliveryInv, NEW c \in Calls, RecordTurn(c)
  PROVE  DeliveryInv'
<1>0. DeliveryTyped /\ GateFollowed /\ WorkEarned /\ CallEarned(c) /\ CallCurrent(c)
  BY DEF DeliveryInv
<1>1. call[c] \in CallRows /\ call[c] # NoCall /\ call[c].result \in Results
  BY <1>0, CallIsRow DEF RecordTurn
<1>2. /\ UNCHANGED <<checks, committed, candidates, evaluated, loop, increase,
                     released, flow, gates, founder>>
      /\ call' = [call EXCEPT ![c] = NoCall]
  BY DEF RecordTurn, work
<1>3. /\ call' \in [Calls -> {NoCall} \cup CallRows] /\ call'[c] = NoCall
      /\ \A d \in Calls \ {c} : call'[d] = call[d]
  BY <1>0, <1>2 DEF DeliveryTyped
<1>4. GateFollowed' /\ WorkEarned' /\ \A s \in committed' : SuitePassed(s)
  BY <1>0, <1>2 DEF GateFollowed, WorkEarned, SuitePassed, AllSucceeded
<1>5. CASE Clash(c)
  <2>1. UNCHANGED <<delivery, turns>>
    BY <1>5 DEF RecordTurn
  <2>2. CallEarned(c)' /\ CallCurrent(c)'
    BY <1>3 DEF CallEarned, CallCurrent
  <2> QED
    BY <1>0, <1>2, <1>3, <1>4, <2>1, <2>2, CallApart DEF DeliveryTyped, WorkEarned
<1>6. CASE ~Clash(c)
  <2> DEFINE repairs == call[c].repairs + (IF call[c].accept THEN 0 ELSE 1)
             t == [result |-> call[c].result, accepted |-> call[c].accept]
             status == IF call[c].accept THEN "awaiting_founder"
                       ELSE IF repairs >= MaxRepairs THEN "failed" ELSE "active"
             entry == [status |-> status, repairs |-> repairs, of |-> call[c].result,
                     gate |-> call[c].gate]
  <2>1. Len(turns) \in Nat /\ call[c].number \in Nat /\ call[c].repairs \in Nat
        /\ call[c].accept \in BOOLEAN /\ call[c].gate \in Nat
    BY <1>0, <1>1 DEF DeliveryTyped, CallRows
  <2>2. delivery.status = "active" /\ call[c].repairs = delivery.repairs
    BY <1>0, <1>1, <1>6, <2>1 DEF CallCurrent, Clash
  <2>3. turns' = Append(turns, t) /\ delivery' = entry
    BY <1>6, <2>2 DEF RecordTurn
  <2>4. t \in [result : Results, accepted : BOOLEAN]
    BY <1>1, <2>1
  <2>5. /\ Cardinality(FailedTurns)' = Cardinality(FailedTurns) + (IF t.accepted THEN 0 ELSE 1)
        /\ turns' \in Seq([result : Results, accepted : BOOLEAN])
        /\ Len(turns') = Len(turns) + 1
    <3>1. turns \in Seq([result : Results, accepted : BOOLEAN])
      BY <1>0 DEF DeliveryTyped
    <3> QED
      BY <2>3, <2>4, <3>1, TurnCounts
  <2>6. /\ delivery'.status = status /\ delivery'.repairs = repairs
        /\ delivery'.of = call[c].result /\ delivery'.gate = call[c].gate
    BY <2>3
  <2>7. CountKept'
    <3>1. delivery.repairs = Cardinality(FailedTurns) /\ delivery.repairs < MaxRepairs
      BY <2>1, <2>2, DeliveryAssumption DEF DeliveryInv, CountKept
    <3>2. repairs = Cardinality(FailedTurns)'
      BY <2>2, <2>5, <3>1
    <3>3. repairs <= MaxRepairs /\ (status = "failed" <=> repairs = MaxRepairs)
      BY <2>1, <2>2, <3>1, DeliveryAssumption
    <3> QED
      BY <2>6, <3>2, <3>3 DEF CountKept
  <2>8. DeliveryTyped'
    <3>1. entry \in [status : {"none", "active", "awaiting_founder", "pr_ready", "rejected", "failed"},
                   repairs : Nat, of : Results \cup {"none"}, gate : Nat]
      BY <1>1, <2>1
    <3> QED
      BY <1>0, <1>2, <1>3, <2>3, <2>5, <3>1 DEF DeliveryTyped
  <2>9. DeliveryEarned'
    <3>1. ~released
      BY <2>2 DEF DeliveryInv, DeliveryEarned
    <3>2. status \notin {"pr_ready"} /\ (status = "awaiting_founder" => call[c].accept)
      OBVIOUS
    <3>3. call[c].accept => /\ evaluated[call[c].result] = "accepted"
                            /\ call[c].gate = 1 /\ flow # "running"
      BY <1>0, <1>1 DEF CallEarned, RecordTurn
    <3> HIDE DEF status
    <3> QED
      BY <1>1, <1>2, <2>6, <3>1, <3>2, <3>3 DEF DeliveryEarned
  <2>10. ASSUME NEW d \in Calls PROVE (CallEarned(d) /\ CallCurrent(d))'
    <3>1. CASE d = c
      BY <1>3, <3>1 DEF CallEarned, CallCurrent
    <3>2. CASE d # c
      <4>1. call'[d] = call[d] /\ CallEarned(d) /\ CallCurrent(d)
        BY <1>3, <3>2 DEF DeliveryInv
      <4>2. CallEarned(d)'
        BY <1>2, <4>1 DEF CallEarned
      <4>3. call[d] # NoCall => call[d].number \in Nat
        BY <1>0 DEF DeliveryTyped, CallRows
      <4>4. CallCurrent(d)'
        BY <2>1, <2>5, <4>1, <4>3 DEF CallCurrent
      <4> QED
        BY <4>2, <4>4
    <3> QED
      BY <3>1, <3>2
  <2> QED
    BY <1>4, <2>7, <2>8, <2>9, <2>10 DEF DeliveryInv
<1> QED
  BY <1>5, <1>6

\* The founder's transactions and the release leave the work and its calls alone.
LEMMA FounderKeeps ==
  ASSUME DeliveryInv,
         \/ \E decision \in {"approved", "rejected"} : DecideGate(decision)
         \/ EndDelivery
         \/ KillFounder
         \/ AuthorizeRelease
  PROVE  DeliveryInv'
<1>0. DeliveryTyped /\ GateFollowed /\ WorkEarned /\ DeliveryEarned /\ CountKept
  BY DEF DeliveryInv
<1>1. /\ UNCHANGED <<checks, committed, candidates, evaluated, loop, turns, call, increase>>
      /\ flow # "running" => flow' # "running"
  BY DEF DecideGate, EndDelivery, KillFounder, AuthorizeRelease, work
<1>2. /\ delivery'.repairs = delivery.repairs /\ delivery'.of = delivery.of
      /\ delivery'.gate = delivery.gate
      /\ delivery.status # "awaiting_founder" => delivery' = delivery
      /\ delivery'.status = "failed" <=> delivery.status = "failed"
      /\ delivery.status = "active" => delivery'.status = "active"
      /\ delivery' \in [status : {"none", "active", "awaiting_founder", "pr_ready", "rejected", "failed"},
                        repairs : Nat, of : Results \cup {"none"}, gate : Nat]
  <2>1. delivery \in [status : {"none", "active", "awaiting_founder", "pr_ready", "rejected", "failed"},
                      repairs : Nat, of : Results \cup {"none"}, gate : Nat]
    BY <1>0 DEF DeliveryTyped
  <2>2. \/ delivery' = delivery
        \/ /\ delivery.status = "awaiting_founder"
           /\ \E s \in {"pr_ready", "rejected"} : delivery' = [delivery EXCEPT !.status = s]
    BY DEF DecideGate, EndDelivery, KillFounder, AuthorizeRelease
  <2> QED
    BY <2>1, <2>2
<1>3. GateFollowed' /\ released' \in BOOLEAN /\ (flow = "approved" => flow' = "approved")
  <2>1. CASE \E decision \in {"approved", "rejected"} : DecideGate(decision)
    <3>1. PICK decision \in {"approved", "rejected"} : DecideGate(decision)
      BY <2>1
    <3>2. delivery.gate = 1 /\ flow # "running"
      BY <1>0, <3>1 DEF DecideGate, DeliveryEarned
    <3>3. /\ gates[1] \in {"pending", decision} /\ gates' = [gates EXCEPT ![1] = decision]
          /\ flow' = IF gates[1] = "pending" THEN decision ELSE flow
          /\ founder' = decision /\ released' = released
      BY <3>1, <3>2 DEF DecideGate
    <3>4. /\ gates = <<IF flow = "awaiting_approval" THEN "pending" ELSE flow>>
          /\ flow \in {"awaiting_approval", "approved", "rejected"}
      BY <1>0, <3>2 DEF GateFollowed
    <3>5. flow' = decision /\ gates' = <<decision>>
      BY <3>3, <3>4
    <3>6. flow = "approved" => flow' = "approved"
      BY <3>3, <3>4
    <3> QED
      BY <1>0, <3>3, <3>5, <3>6 DEF GateFollowed, DeliveryTyped
  <2>2. CASE EndDelivery \/ KillFounder \/ AuthorizeRelease
    BY <1>0, <2>2 DEF EndDelivery, KillFounder, AuthorizeRelease, GateFollowed, DeliveryTyped
  <2> QED
    BY <2>1, <2>2
<1>4. DeliveryTyped'
  BY <1>0, <1>1, <1>2, <1>3 DEF DeliveryTyped
<1>5. WorkEarned'
  BY <1>0, <1>1 DEF WorkEarned, SuitePassed, AllSucceeded
<1>6. ASSUME NEW c \in Calls PROVE (CallEarned(c) /\ CallCurrent(c))'
  <2>1. CallEarned(c) /\ CallCurrent(c)
    BY DEF DeliveryInv
  <2> QED
    BY <1>1, <1>2, <2>1 DEF CallEarned, CallCurrent
<1>7. DeliveryEarned'
  <2>1. delivery'.status \in {"awaiting_founder", "pr_ready"} =>
          delivery.status \in {"awaiting_founder", "pr_ready"}
    BY <1>0, <1>2 DEF DeliveryTyped
  <2>2. delivery'.status = "pr_ready" => flow' = "approved"
    BY <1>0, <1>2, <1>3 DEF DeliveryEarned, DeliveryTyped, GateFollowed, DecideGate, EndDelivery, KillFounder,
                       AuthorizeRelease
  <2>3. released' => delivery'.status = "pr_ready"
    BY <1>0, <1>2 DEF DeliveryEarned, DecideGate, EndDelivery, KillFounder, AuthorizeRelease
  <2> QED
    BY <1>0, <1>1, <1>2, <2>1, <2>2, <2>3 DEF DeliveryEarned
<1>8. CountKept'
  BY <1>0, <1>1, <1>2 DEF CountKept, FailedTurns
<1> QED
  BY <1>3, <1>4, <1>5, <1>6, <1>7, <1>8 DEF DeliveryInv

LEMMA DeliveryStep == DeliveryInv /\ [CDNext]_cdvars => DeliveryInv'
<1> SUFFICES ASSUME DeliveryInv, [CDNext]_cdvars PROVE DeliveryInv'
  OBVIOUS
<1>1. ASSUME NEW r \in Results, Validate(r) PROVE DeliveryInv'
  BY <1>1, ValidateKeeps
<1>2. CASE StartLoop \/ Escalate \/ ApproveLimit \/ ResumeLoop
  BY <1>2, LoopKeeps
<1>3. CASE StartDelivery
  BY <1>3, StartDeliveryKeeps
<1>4. ASSUME NEW c \in Calls, NEW r \in Results, Process(c, r) PROVE DeliveryInv'
  BY <1>4, ProcessKeeps
<1>5. ASSUME NEW c \in Calls, CommitCandidate(c) \/ InsertCandidate(c) PROVE DeliveryInv'
  BY <1>5, CommitKeeps, InsertCandidateKeeps
<1>6. ASSUME NEW c \in Calls, Review(c) \/ InsertEvaluation(c) PROVE DeliveryInv'
  BY <1>6, ReviewKeeps, InsertEvaluationKeeps
<1>7. ASSUME NEW c \in Calls, ReadLoop(c) \/ RecordIteration(c) PROVE DeliveryInv'
  BY <1>7, ReadLoopKeeps, RecordIterationKeeps
<1>8. ASSUME NEW c \in Calls, CreateGate(c) \/ RecordTurn(c) \/ EndCall(c) PROVE DeliveryInv'
  BY <1>8, CreateGateKeeps, RecordTurnKeeps, EndCallKeeps
<1>9. CASE \/ \E decision \in {"approved", "rejected"} : DecideGate(decision)
           \/ EndDelivery
           \/ KillFounder
           \/ AuthorizeRelease
  BY <1>9, FounderKeeps
<1>10. CASE UNCHANGED cdvars
  BY <1>10 DEF cdvars, DeliveryInv, DeliveryTyped, GateFollowed, WorkEarned, SuitePassed,
               AllSucceeded, CallEarned, CallCurrent, DeliveryEarned, CountKept, FailedTurns
<1> QED
  BY <1>1, <1>2, <1>3, <1>4, <1>5, <1>6, <1>7, <1>8, <1>9, <1>10 DEF CDNext

\* Whatever calls of process() overlap, are killed and are repeated, the founder's
\* approval and the release stand on a committed candidate with its whole suite
\* and its review, and every failed iteration is counted once, for any results,
\* calls and limits (coding_delivery.py).
THEOREM DeliveryIsSound == CDSpec => []DeliverySound
<1>1. DeliveryInv => DeliverySound
  <2> SUFFICES ASSUME DeliveryInv PROVE DeliverySound
    OBVIOUS
  <2>1. RepairsCounted
    BY DEF DeliveryInv, CountKept, RepairsCounted, FailedTurns
  <2>2. ReadyWasEarned
    <3> SUFFICES ASSUME delivery.status = "pr_ready" \/ released
                 PROVE  /\ delivery.of \in candidates \cap committed
                        /\ Len(checks[delivery.of]) = Categories /\ AllSucceeded(delivery.of)
                        /\ evaluated[delivery.of] = "accepted"
                        /\ gates[delivery.gate] = "approved" /\ flow = "approved"
      BY DEF ReadyWasEarned
    <3>1. /\ delivery.of \in Results /\ evaluated[delivery.of] = "accepted"
          /\ delivery.gate = 1 /\ flow = "approved"
      BY DEF DeliveryInv, DeliveryEarned
    <3>2. gates = <<"approved">>
      BY <3>1 DEF DeliveryInv, GateFollowed
    <3>3. delivery.of \in candidates /\ delivery.of \in committed
      BY <3>1 DEF DeliveryInv, DeliveryTyped, WorkEarned, NoVerdict
    <3>4. SuitePassed(delivery.of)
      BY <3>3 DEF DeliveryInv, WorkEarned
    <3> QED
      BY <3>1, <3>2, <3>3, <3>4 DEF SuitePassed
  <2> QED
    BY <2>1, <2>2 DEF DeliverySound
<1> QED
  BY <1>1, DeliveryStart, DeliveryStep, PTL DEF CDSpec
=============================================================================
