--------------------------- MODULE StudioSupervisor ---------------------------
(***************************************************************************)
(* Supervisor of studio_supervisor.py for one game: runners of several     *)
(* processes advance it one step at a time under a mandate, while people   *)
(* grant and revoke mandates, pause and resume the game (studio_cycles.py),*)
(* set its spending limit and answer questions.                            *)
(*                                                                         *)
(* advance() holds a file lock of its own, so that state.db stays writable *)
(* meanwhile: everything it read may have changed by the time it opens the *)
(* step.  Each read that a person's transaction can fall behind is a step  *)
(* below.                                                                  *)
(***************************************************************************)
EXTENDS Integers, Sequences

CONSTANTS
    Runners,        \* what calls advance: the local queue's thread, the CLI
    Queue,          \* the runners that are a local queue's
    Requests,       \* requests of people
    None,           \* nobody holds the lock
    Costs,          \* what a step is expected to cost and what it costs
    Terms,          \* the mandates people give: steps, ceiling (-1: none), owner's or not
    MaxRows,        \* bound of the model: rows of the ledger
    MaxEvents       \* bound of the model: processes killed, changes by others and by time

ASSUME StudioAssumption ==
    /\ None \notin Runners /\ Queue \subseteq Runners
    /\ Costs \subseteq Nat
    /\ Terms \subseteq [steps : SUBSET {"plan", "approve_plan"}, ceiling : Nat \cup {-1},
                       owner : BOOLEAN]
    /\ MaxRows \in Nat /\ MaxEvents \in Nat

VARIABLES
    mandates,       \* studio_mandates, by id
    ledger,         \* studio_supervisor_steps, by id: outcomes
    said,           \* step and summary of its last row
    cycles,         \* studio_cycles, by number
    money,          \* what studio_spend adds up to and the newest of studio_limits
    questions,      \* how many questions about the game are open
    mission,        \* phase and disposition of the mission
    lock,           \* who holds the game's execution lock
    at,             \* how far an advance is
    saw,            \* the mandate and the mission it read
    left,           \* the rows it has to reconcile
    row,            \* the row it inserted
    note,           \* what it will close that row with
    ask,            \* how far a request is and what it read
    events,         \* how many of the bounded events happened
    late            \* history: steps begun since a reason to stop holds

vars == <<mandates, ledger, said, cycles, money, questions, mission, lock, at, saw, left, row, note,
          ask, events, late>>
book == <<ledger, said>>
reading == <<saw, left, row, note>>
runners == <<lock, at, reading>>
records == <<mandates, cycles, money, questions, mission>>

-----------------------------------------------------------------------------
Steps == {"plan", "approve_plan"}
Named == {"plan", "approve_plan", ""}       \* a row may name no step
Phases == {"planning", "approving", "approved"}
Outcomes == {"in_flight", "advanced", "waiting", "asked", "refused", "nothing_to_do", "unknown"}
Summaries == {"", "no mandate", "expired", "no source", "owner", "paused", "not running",
              "question", "phase", "not covered", "money", "driver", "failed",
              "did not move", "planned", "queue", "interrupted"}
Limits == Costs \cup {-1}                   \* -1: no limit is set

\* A row of the ledger; begun and lost are history: whether it stands for a
\* step handed to the driver, and whether the runner was killed before its end.
Row(begun) == [outcome |-> "in_flight", begun |-> begun, lost |-> FALSE]
Note(step, outcome, why) == [step |-> step, outcome |-> outcome, why |-> why]
Words(n) == [step |-> n.step, why |-> n.why]
UnderWay == [step |-> "", why |-> ""]

Mandate(terms) ==
    [steps |-> terms.steps, ceiling |-> terms.ceiling, owner |-> terms.owner,
     revoked |-> FALSE, expired |-> FALSE]

NextStep(phase) ==
    CASE phase = "planning" -> "plan" [] phase = "approving" -> "approve_plan" [] OTHER -> ""

Unrevoked == {i \in DOMAIN mandates : ~mandates[i].revoked}

\* mandate(): the newest that nobody revoked, 0 without one.
IsNewest(i) == IF i = 0 THEN Unrevoked = {} ELSE i \in Unrevoked /\ \A j \in Unrevoked : j <= i
Known == 0..Len(mandates)
Mandated == \E i \in Unrevoked : IsNewest(i) /\ ~mandates[i].expired
Paused == cycles[Len(cycles)] = "paused"

InFlight == {i \in DOMAIN ledger : ledger[i].outcome = "in_flight"}
Unresolved == {i \in DOMAIN ledger : ledger[i].outcome = "unknown"}

\* What tells the studio to start nothing more.
Stops == {"revoked", "paused", "stopped"}
Holds(s) == \/ s = "revoked" /\ ~Mandated
            \/ s = "paused" /\ Paused
            \/ s = "stopped" /\ ~mission.running

Nothing == [mandate |-> 0, phase |-> "planning", running |-> TRUE]
Silent == Note("", "waiting", "")
Quiet == [is |-> "new", kind |-> "grant", seen |-> 0]

Init ==
    \* create_local_game grants the mandate with the mission
    /\ mandates = <<Mandate([steps |-> {"plan"}, ceiling |-> 0, owner |-> TRUE])>>
    /\ ledger = <<>> /\ said = UnderWay
    /\ cycles = <<"running">>
    /\ money = [committed |-> 0, limit |-> -1]
    /\ questions = 0
    /\ mission = [phase |-> "planning", running |-> TRUE]
    /\ lock = None
    /\ at = [p \in Runners |-> "out"]
    /\ saw = [p \in Runners |-> Nothing]
    /\ left = [p \in Runners |-> {}]
    /\ row = [p \in Runners |-> 0]
    /\ note = [p \in Runners |-> Silent]
    /\ ask = [q \in Requests |-> Quiet]
    /\ events = 0
    /\ late = [s \in Stops |-> 0]

-----------------------------------------------------------------------------
\* The lock is a transaction of a file of its own: ended by return, raise and
\* death of the process alike.
Leave(p) ==
    /\ lock' = IF lock = p THEN None ELSE lock
    /\ at' = [at EXCEPT ![p] = "out"]
    /\ saw' = [saw EXCEPT ![p] = Nothing]
    /\ left' = [left EXCEPT ![p] = {}]
    /\ row' = [row EXCEPT ![p] = 0]
    /\ note' = [note EXCEPT ![p] = Silent]

To(p, next) == at' = [at EXCEPT ![p] = next]
Go(p, next) == To(p, next) /\ UNCHANGED reading

\* The trigger studio_supervisor_steps_finish_once.
MayClose(i) == ledger[i].outcome = "in_flight"

CloseRow(i, n) ==
    /\ ledger' = [ledger EXCEPT ![i].outcome = n.outcome]
    /\ said' = IF i = Len(ledger) THEN Words(n) ELSE said

\* _write: an answer identical to the last row is not written again.
Say(p, step, outcome, why) ==
    LET words == Note(step, outcome, why) IN
    /\ IF said = Words(words)
       THEN Leave(p)
       ELSE /\ To(p, "note")
            /\ note' = [note EXCEPT ![p] = words]
            /\ saw' = [saw EXCEPT ![p] = Nothing]
            /\ UNCHANGED <<lock, left, row>>
    /\ UNCHANGED book

\* The lock of the game; mutant: nobody asks for it.
UnlockedAlways == TRUE
Unlocked == lock = None

\* advance: only who holds the lock goes on; a busy lock is an answer without
\* a change.  An unknown step is the answer for ever.
Enter(p) ==
    /\ at[p] = "out" /\ Unlocked
    /\ \/ /\ InFlight # {}
          /\ To(p, "reconcile")
          /\ left' = [left EXCEPT ![p] = InFlight]
          /\ UNCHANGED <<saw, row, note>>
       \/ InFlight = {} /\ Unresolved = {} /\ Go(p, "mandate")
    /\ lock' = p
    /\ UNCHANGED <<records, book, ask, events>>

\* Mutant: a step in flight after a restart is tried again.
VerdictRetry == "waiting"

\* What becomes of a step in flight after a restart.
Verdict == "unknown"

\* reconcile closes each row it read, in a transaction of its own.  A row
\* written without the lock may have been closed in between: the trigger's
\* refusal ends the advance.
Reconcile(p) ==
    /\ at[p] = "reconcile"
    /\ \E i \in left[p] :
          /\ \A j \in left[p] : i <= j
          /\ \/ /\ MayClose(i)
                /\ CloseRow(i, Note("", Verdict, "interrupted"))
                /\ IF left[p] = {i}
                   THEN Leave(p)
                   ELSE left' = [left EXCEPT ![p] = @ \ {i}] /\ UNCHANGED <<lock, at, saw, row, note>>
             \/ ~MayClose(i) /\ Leave(p) /\ UNCHANGED book
    /\ UNCHANGED <<records, ask, events>>

ReadMandate(p) ==
    /\ at[p] = "mandate"
    /\ \E i \in Known :
          /\ IsNewest(i)
          /\ CASE i = 0 -> Say(p, "", "refused", "no mandate")
               [] i # 0 /\ mandates[i].expired -> Say(p, "", "waiting", "expired")
               [] OTHER -> /\ To(p, "mission") /\ saw' = [saw EXCEPT ![p].mandate = i]
                           /\ UNCHANGED <<left, row, note, lock, book>>
    /\ UNCHANGED <<records, ask, events>>

\* The readiness of a source of execution is kept elsewhere: any answer.
ReadMission(p) ==
    /\ at[p] = "mission"
    /\ \/ Say(p, "", "waiting", "no source")
       \/ ~mandates[saw[p].mandate].owner /\ Say(p, "", "refused", "owner")
       \/ /\ mandates[saw[p].mandate].owner
          /\ To(p, "pause")
          /\ saw' = [saw EXCEPT ![p] = [mandate |-> @.mandate, phase |-> mission.phase,
                                        running |-> mission.running]]
          /\ UNCHANGED <<left, row, note, lock, book>>
    /\ UNCHANGED <<records, ask, events>>

\* Mutant: a pause is not asked for.
GameNeverPaused == FALSE
GamePaused == Paused

ReadPause(p) ==
    /\ at[p] = "pause"
    /\ CASE GamePaused -> Say(p, "", "waiting", "paused")
         [] ~GamePaused /\ ~saw[p].running -> Say(p, "", "waiting", "not running")
         [] OTHER -> Go(p, "questions") /\ UNCHANGED <<lock, book>>
    /\ UNCHANGED <<records, ask, events>>

Blocked == questions > 0

ReadQuestions(p) ==
    LET step == NextStep(saw[p].phase) IN
    /\ at[p] = "questions"
    /\ CASE Blocked -> Say(p, "", "waiting", "question")
         [] ~Blocked /\ step = "" -> Say(p, "", "nothing_to_do", "phase")
         [] ~Blocked /\ step # "" /\ step \notin mandates[saw[p].mandate].steps ->
              Say(p, step, "refused", "not covered")
         [] OTHER -> Go(p, "money") /\ UNCHANGED <<lock, book>>
    /\ UNCHANGED <<records, ask, events>>

Exceeds(amount, bound) == bound # -1 /\ amount > bound

\* The ceiling of the mandate and the limit of the game, for the cost the
\* caller expects.
CheckMoney(p) ==
    /\ at[p] = "money"
    /\ \E cost \in Costs :
          Go(p, IF \/ Exceeds(money.committed + cost, mandates[saw[p].mandate].ceiling)
                   \/ Exceeds(money.committed + cost, money.limit)
                THEN "ask" ELSE "open")
    /\ UNCHANGED <<records, lock, book, ask, events>>

AskPerson(p) ==
    /\ at[p] = "ask"
    /\ questions' = questions + 1
    /\ Say(p, NextStep(saw[p].phase), "asked", "money")
    /\ UNCHANGED <<mandates, cycles, money, mission, ask, events>>

-----------------------------------------------------------------------------
\* Every row is inserted in flight and closed by a later transaction.
Insert(p, begun, next) ==
    /\ Len(ledger) < MaxRows
    /\ ledger' = Append(ledger, Row(begun)) /\ said' = UnderWay
    /\ To(p, next) /\ row' = [row EXCEPT ![p] = Len(ledger) + 1]
    /\ UNCHANGED <<saw, left, note>>

OpenStep(p) ==
    /\ at[p] = "open"
    /\ Insert(p, TRUE, "work")
    /\ UNCHANGED <<records, lock, ask, events>>

\* The driver moves the mission, reports success without moving it, refuses,
\* or raises, then also after it moved the mission.  CoreMissionDriver never
\* approves.
Work(p) ==
    LET plans == NextStep(saw[p].phase) = "plan"
        Ends(outcome, why, next) ==
            /\ To(p, next)
            /\ note' = [note EXCEPT ![p] = Note(NextStep(saw[p].phase), outcome, why)]
            /\ saw' = [saw EXCEPT ![p] = Nothing]
            /\ UNCHANGED <<left, row>>
    IN
    /\ at[p] = "work"
    /\ \/ Ends("refused", "driver", "close") /\ UNCHANGED mission
       \/ plans /\ Ends("waiting", "failed", "close") /\ UNCHANGED mission
       \/ plans /\ Ends("waiting", "did not move", "bill") /\ UNCHANGED mission
       \/ /\ plans /\ mission.phase = "planning"
          /\ (Ends("advanced", "planned", "bill") \/ Ends("waiting", "failed", "close"))
          /\ mission' = [mission EXCEPT !.phase = "approving"]
    /\ UNCHANGED <<mandates, cycles, money, questions, lock, book, ask, events>>

\* costs.record of what the driver reported.
Bill(p) ==
    /\ at[p] = "bill"
    /\ \E cost \in Costs : money' = [money EXCEPT !.committed = @ + cost]
    /\ Go(p, "close")
    /\ UNCHANGED <<mandates, cycles, questions, mission, lock, book, ask, events>>

WriteNote(p) ==
    /\ at[p] = "note"
    /\ Insert(p, FALSE, "close")
    /\ UNCHANGED <<records, lock, ask, events>>

\* _close of the row this call inserted, the end of the call either way.
Close(p) ==
    /\ at[p] = "close"
    /\ IF MayClose(row[p]) THEN CloseRow(row[p], note[p]) ELSE UNCHANGED book
    /\ Leave(p)
    /\ UNCHANGED <<records, ask, events>>

\* StudioRunner._run says why planning did not start, without the lock.
Complain(p) ==
    /\ p \in Queue /\ at[p] = "out"
    /\ Say(p, "plan", "waiting", "queue")
    /\ UNCHANGED <<records, ask, events>>

\* The process is killed; a step it had begun is neither finished nor undone.
Begun(p) == row[p] # 0 /\ ledger[row[p]].begun

Kill(p) ==
    /\ at[p] # "out" /\ events < MaxEvents
    /\ ledger' = IF Begun(p) THEN [ledger EXCEPT ![row[p]].lost = TRUE] ELSE ledger
    /\ UNCHANGED said
    /\ Leave(p)
    /\ events' = events + 1
    /\ UNCHANGED <<records, ask>>

-----------------------------------------------------------------------------
\* Requests read first and write in a transaction of their own.
ReadRequest(q) ==
    /\ ask[q].is = "new"
    /\ \E kind \in {"grant", "revoke", "pause", "resume"}, seen \in Known \cup {Len(cycles)} :
          /\ kind \in {"grant", "revoke"} => seen \in Known /\ IsNewest(seen)
          /\ kind = "revoke" => seen # 0
          /\ kind \in {"pause", "resume"} => seen = Len(cycles)
          /\ kind = "pause" => ~Paused
          /\ kind = "resume" => Paused
          /\ ask' = [ask EXCEPT ![q] = [is |-> "read", kind |-> kind, seen |-> seen]]
    /\ UNCHANGED <<records, runners, book, events>>

\* The mandate a grant or a revocation read is closed.  If another did so
\* since, the trigger lets only the same second pass.
Ended(i) == IF i = 0 THEN mandates ELSE [mandates EXCEPT ![i].revoked = TRUE]

Done(q, kind) ==
    /\ ask[q].is = "read" /\ ask[q].kind = kind
    /\ ask' = [ask EXCEPT ![q].is = "done"]
    /\ UNCHANGED <<runners, book, events>>

Grant(q) ==
    /\ Done(q, "grant")
    /\ \E terms \in Terms : mandates' = Append(Ended(ask[q].seen), Mandate(terms))
    /\ UNCHANGED <<cycles, money, questions, mission>>

Revoke(q) ==
    /\ Done(q, "revoke")
    /\ mandates' = Ended(ask[q].seen)
    /\ UNCHANGED <<cycles, money, questions, mission>>

Late(q) ==
    /\ \E kind \in {"grant", "revoke"} : Done(q, kind)
    /\ ask[q].seen # 0 /\ mandates[ask[q].seen].revoked
    /\ UNCHANGED records

\* pause writes to the cycle it read, which may have been closed since.
Pause(q) ==
    /\ Done(q, "pause")
    /\ cycles' = [cycles EXCEPT ![ask[q].seen] = "paused"]
    /\ UNCHANGED <<mandates, money, questions, mission>>

\* resume closes the cycle it read and opens the next; the number is unique.
Resume(q) ==
    /\ Done(q, "resume")
    /\ cycles' = IF ask[q].seen = Len(cycles)
                 THEN Append([cycles EXCEPT ![ask[q].seen] = "running"], "running")
                 ELSE cycles
    /\ UNCHANGED <<mandates, money, questions, mission>>

\* What else happens to the game: a mandate runs out, the control plane stops
\* or resumes the mission, the plan is approved or taken back, a limit is
\* set, a question is answered, other spending is recorded.
Expires == \E i \in DOMAIN mandates :
    /\ mandates' = [mandates EXCEPT ![i].expired = TRUE]
    /\ UNCHANGED <<cycles, money, questions, mission>>
Controls ==
    /\ mission' = [mission EXCEPT !.running = ~@]
    /\ UNCHANGED <<mandates, cycles, money, questions>>
Decides ==
    /\ mission.phase = "approving"
    /\ \E phase \in {"planning", "approved"} : mission' = [mission EXCEPT !.phase = phase]
    /\ UNCHANGED <<mandates, cycles, money, questions>>
Spends ==
    /\ \E new \in [committed : {money.committed + c : c \in Costs}, limit : Limits] :
          new # money /\ money' = new
    /\ UNCHANGED <<mandates, cycles, questions, mission>>
Answers ==
    /\ questions > 0 /\ questions' = questions - 1
    /\ UNCHANGED <<mandates, cycles, money, mission>>

Elsewhere ==
    /\ events < MaxEvents
    /\ events' = events + 1
    /\ Expires \/ Controls \/ Decides \/ Spends \/ Answers
    /\ UNCHANGED <<runners, book, ask>>

Advance(p) ==
    \/ Enter(p) \/ Reconcile(p) \/ ReadMandate(p) \/ ReadMission(p) \/ ReadPause(p)
    \/ ReadQuestions(p) \/ CheckMoney(p) \/ AskPerson(p) \/ OpenStep(p) \/ Work(p)
    \/ Bill(p) \/ WriteNote(p) \/ Close(p) \/ Complain(p) \/ Kill(p)

Request(q) == ReadRequest(q) \/ Grant(q) \/ Revoke(q) \/ Late(q) \/ Pause(q) \/ Resume(q)

Opens == \E p \in Runners : at[p] = "open" /\ at'[p] = "work"

\* The history: how many steps were begun since each reason to stop holds.
Counts == late' = [s \in Stops |->
    IF ~Holds(s)' THEN 0 ELSE late[s] + IF Opens THEN 1 ELSE 0]

Next ==
    /\ \/ \E p \in Runners : Advance(p)
       \/ \E q \in Requests : Request(q)
       \/ Elsewhere
    /\ Counts

Spec == Init /\ [][Next]_vars

-----------------------------------------------------------------------------
Places == {"out", "reconcile", "mandate", "mission", "pause", "questions", "money", "ask",
           "open", "work", "bill", "note", "close"}
Seen == [mandate : Nat, phase : Phases, running : BOOLEAN]
Notes == [step : Named, outcome : Outcomes, why : Summaries]
Cycle == {"running", "paused"}
Mandates == [steps : SUBSET Steps, ceiling : Nat \cup {-1}, owner : BOOLEAN, revoked : BOOLEAN,
             expired : BOOLEAN]
Asks == [is : {"new", "read", "done"}, kind : {"grant", "revoke", "pause", "resume"}, seen : Nat]
Rows == [outcome : Outcomes, begun : BOOLEAN, lost : BOOLEAN]

LocalOK ==
    /\ lock \in Runners \cup {None}
    /\ at \in [Runners -> Places] /\ saw \in [Runners -> Seen]
    /\ left \in [Runners -> SUBSET Nat] /\ row \in [Runners -> Nat]
    /\ note \in [Runners -> Notes]

BookOK ==
    /\ ledger \in Seq(Rows)
    /\ said \in [step : Named, why : Summaries]

RecordsOK ==
    /\ mandates \in Seq(Mandates)
    /\ cycles \in Seq(Cycle) /\ cycles # <<>>
    /\ money \in [committed : Nat, limit : Limits]
    /\ questions \in Nat
    /\ mission \in [phase : Phases, running : BOOLEAN]
    /\ ask \in [Requests -> Asks]
    /\ events \in Nat

\* The columns keep their types.
TypeOK == LocalOK /\ BookOK /\ RecordsOK /\ late \in [Stops -> Nat]

\* Whatever processes advance the game, one step at a time is at work, and it
\* is the one begun step the ledger shows in flight: nobody reconciles a
\* step that is still running, nobody begins a second.
OneAtWork == \A p \in Runners :
    Begun(p) => {i \in InFlight : ledger[i].begun} = {row[p]}

\* A step whose runner was killed may have happened and been paid for:
\* nothing is begun after it, by any process, under any mandate, ever.
NothingAfterInterruption ==
    (\E i \in DOMAIN ledger : ledger[i].lost) => \A p \in Runners : ~Begun(p)

\* Once nobody mandates the game, it is paused, or its mission stopped, at
\* most one more step is begun while that lasts: that of the advance that
\* had already asked.
AtMostOneLate == \A s \in Stops : late[s] <= 1

\* People are asked about money once, not by every advance that runs into the
\* limit.
OneQuestion == questions <= 1

\* What an advance that has looked at the ledger relies on until it begins a
\* step, and the pass of each reason to stop it already saw not to hold.
Asking == {"mandate", "mission", "pause", "questions", "money", "ask", "open"}
Passed(s, p) ==
    \/ at[p] \in {"questions", "money", "open"}
    \/ s = "revoked" /\ at[p] \in {"mission", "pause"}
    \/ s = "stopped" /\ at[p] = "pause" /\ saw[p].running

LockOf(p) ==
    /\ at[p] \in Asking \cup {"reconcile", "work", "bill"} => lock = p
    /\ at[p] \in {"work", "bill"} => Begun(p)
    /\ row[p] # 0 <=> at[p] \in {"work", "bill", "close"}
    /\ row[p] # 0 => row[p] \in DOMAIN ledger
    /\ Begun(p) => lock = p
    /\ left[p] \subseteq DOMAIN ledger
LockInv == \A p \in Runners : LockOf(p)

LedgerInv ==
    /\ \A i \in DOMAIN ledger :
          ledger[i].lost => ledger[i].begun /\ ledger[i].outcome \in {"in_flight", "unknown"}
    /\ \A p \in Runners, i \in DOMAIN ledger :
          /\ at[p] \in Asking \/ Begun(p) => ~ledger[i].lost
          /\ at[p] \in Asking => ~(ledger[i].begun /\ ledger[i].outcome = "in_flight")

LateInv == \A s \in Stops :
    /\ late[s] \in {0, 1}
    /\ ~Holds(s) => late[s] = 0
    /\ \A p \in Runners : Passed(s, p) => late[s] = 0

QuestionInv ==
    /\ questions \in {0, 1}
    /\ \A p \in Runners : at[p] \in {"money", "ask"} => questions = 0

\* The inductive invariant: under the lock the ledger was found without a
\* trace of other work, and what a passed check saw has been counted since.
IInv == TypeOK /\ LockInv /\ LedgerInv /\ OneAtWork /\ LateInv /\ QuestionInv

\* A row that has an outcome keeps it, whoever else believes it is theirs to
\* close.
FinishedOnce == [][\A i \in DOMAIN ledger :
    ledger[i].outcome # "in_flight" => ledger'[i] = ledger[i]]_vars
=============================================================================
