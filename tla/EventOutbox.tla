----------------------------- MODULE EventOutbox -----------------------------
(* The event log with its hash chain and the outbox written with it           *)
(* (storage.py): every transaction that changes something ends in _event.     *)
(*                                                                            *)
(* A process opens the database, completes the rows an older version left     *)
(* without an envelope, and then appends. Rows of a transaction are seen by   *)
(* others when it commits; the write lock is held from its first write on.    *)
(* A hash stands for the event it was made for and the hash before it.        *)
EXTENDS Naturals, Sequences

CONSTANTS
    Processes,      \* connections to the database
    Consumers,      \* callers of claim_outbox
    Subjects,       \* entities events are about: [run, task, mission], 0 for unknown
    TaskOfRun, MissionOfTask,   \* what the tables say of runs and work items
    MaxEvents, MaxClaims        \* bounds of the model

ASSUME OutboxAssumption == 0 \notin Processes /\ MaxEvents \in Nat /\ MaxClaims \in Nat

VARIABLES
    events,     \* committed rows of events
    outbox,     \* committed rows of outbox_messages, one per event
    lock,       \* the process with the write lock, 0 if none
    unit,       \* the rows its transaction has appended
    opened,     \* processes whose SQLiteStorage is constructed
    claims,     \* claim tokens given out so far
    holds       \* the claim token each consumer has for a message, 0 if none

eovars == <<events, outbox, lock, unit, opened, claims, holds>>

\* A row written before the envelope existed.
Legacy(s) == [about |-> s, previous |-> 0, hash |-> 0, run |-> 0, task |-> 0, mission |-> 0]

EOInit ==
    /\ \E s \in Subjects : events = <<Legacy(s), Legacy(s)>>
    /\ outbox = <<>>
    /\ lock = 0
    /\ unit = <<>>
    /\ opened = {}
    /\ claims = 0
    /\ holds = [c \in Consumers |-> [m \in 1..MaxEvents |-> 0]]

-----------------------------------------------------------------------------
\* _correlation: a run names its work item and the work item its mission,
\* whatever the payload says; without them the payload's are kept.
Correlation(s) ==
    LET task == IF s.run \in DOMAIN TaskOfRun THEN TaskOfRun[s.run] ELSE s.task
    IN  [run |-> s.run, task |-> task,
         mission |-> IF task \in DOMAIN MissionOfTask THEN MissionOfTask[task] ELSE s.mission]

Envelope(s, previous, hash) ==
    [about |-> s, previous |-> previous, hash |-> hash,
     run |-> Correlation(s).run, task |-> Correlation(s).task,
     mission |-> Correlation(s).mission]

HashOf(rows) == IF rows = <<>> THEN 0 ELSE rows[Len(rows)].hash

\* _ensure_audit_chain: rows with an envelope are kept, the others completed in
\* order. Their messages count as delivered.
HashAt(n) == IF n = 0 THEN 0 ELSE IF events[n].hash # 0 THEN events[n].hash ELSE n

Completed ==
    [n \in DOMAIN events |->
        IF events[n].hash # 0 THEN events[n]
        ELSE Envelope(events[n].about, HashAt(n - 1), n)]

NewMessage(status) == [status |-> status, token |-> 0, ready |-> TRUE]

\* SQLiteStorage.__init__.
Open(p) ==
    /\ p \notin opened
    /\ lock = 0
    /\ events' = Completed
    /\ outbox' = [n \in DOMAIN events |->
                    IF n \in DOMAIN outbox THEN outbox[n] ELSE NewMessage("delivered")]
    /\ opened' = opened \cup {p}
    /\ UNCHANGED <<lock, unit, claims, holds>>

\* Mutant: the newest hash is read before the transaction has the write lock.
SeenByAny(p) == HashOf(events)

\* _event reads the newest row after _begin_immediate: its own unit's included.
SeenBy(p) == HashOf(events \o unit)

\* _event, in a transaction that may have appended already.
AppendEvent(p, s) ==
    /\ p \in opened
    /\ lock \in {0, p}
    /\ Len(events) + Len(unit) < MaxEvents
    /\ lock' = p
    /\ unit' = Append(unit, Envelope(s, SeenBy(p), Len(events) + Len(unit) + 1))
    /\ UNCHANGED <<events, outbox, opened, claims, holds>>

\* The event's row and its message are in one transaction with the change.
Commit(p) ==
    /\ lock = p
    /\ events' = events \o unit
    /\ outbox' = outbox \o [n \in DOMAIN unit |-> NewMessage("pending")]
    /\ lock' = 0
    /\ unit' = <<>>
    /\ UNCHANGED <<opened, claims, holds>>

\* An error after the event rolls everything back; so does the process's end.
Rollback(p) ==
    /\ lock = p
    /\ lock' = 0
    /\ unit' = <<>>
    /\ \E gone \in {{}, {p}} : opened' = opened \ gone
    /\ UNCHANGED <<events, outbox, claims, holds>>

-----------------------------------------------------------------------------
Ready(m) == outbox[m].status \in {"pending", "failed"} /\ outbox[m].ready

\* claim_outbox with a limit of one: the oldest ready message.
ClaimMessage(c, m) ==
    /\ lock = 0
    /\ claims < MaxClaims
    /\ Ready(m) /\ \A n \in 1..(m - 1) : ~Ready(n)
    /\ claims' = claims + 1
    /\ outbox' = [outbox EXCEPT ![m] =
                    [status |-> "dispatching", token |-> claims + 1, ready |-> TRUE]]
    /\ holds' = [holds EXCEPT ![c][m] = claims + 1]
    /\ UNCHANGED <<events, lock, unit, opened>>

\* The token is of the claim that is in force.
InForce(c, m) ==
    /\ holds[c][m] # 0
    /\ outbox[m].status = "dispatching" /\ outbox[m].token = holds[c][m]

\* acknowledge_outbox. A consumer may call it again, and call it late.
Acknowledge(c, m) ==
    /\ lock = 0
    /\ InForce(c, m)
    /\ outbox' = [outbox EXCEPT ![m].status = "delivered"]
    /\ UNCHANGED <<events, lock, unit, opened, claims, holds>>

\* fail_outbox, with a delay or without.
FailMessage(c, m) ==
    /\ lock = 0
    /\ InForce(c, m)
    /\ \E now \in BOOLEAN :
          outbox' = [outbox EXCEPT ![m] = [status |-> "failed", token |-> 0, ready |-> now]]
    /\ UNCHANGED <<events, lock, unit, opened, claims, holds>>

\* available_at passes.
RetryDue(m) ==
    /\ ~outbox[m].ready
    /\ outbox' = [outbox EXCEPT ![m].ready = TRUE]
    /\ UNCHANGED <<events, lock, unit, opened, claims, holds>>

\* A consumer that ends forgets its claims; nothing takes them back.
KillConsumer(c) ==
    /\ holds' = [holds EXCEPT ![c] = [m \in DOMAIN holds[c] |-> 0]]
    /\ UNCHANGED <<events, outbox, lock, unit, opened, claims>>

EONext ==
    \/ \E p \in Processes :
          \/ Open(p) \/ Commit(p) \/ Rollback(p)
          \/ \E s \in Subjects : AppendEvent(p, s)
    \/ \E c \in Consumers :
          \/ KillConsumer(c)
          \/ \E m \in DOMAIN outbox :
                ClaimMessage(c, m) \/ Acknowledge(c, m) \/ FailMessage(c, m)
    \/ \E m \in DOMAIN outbox : RetryDue(m)

EOSpec == EOInit /\ [][EONext]_eovars

-----------------------------------------------------------------------------
\* verify_audit_chain finds nothing to report once the database was opened:
\* every record continues the one before it, rolled-back and concurrent
\* transactions and rows of an older version notwithstanding, each has its
\* message, and each names the mission its work item belongs to.
ChainUnbroken ==
    opened # {} =>
        /\ DOMAIN outbox = DOMAIN events
        /\ \A n \in DOMAIN events :
              /\ events[n].hash # 0
              /\ events[n].previous = IF n = 1 THEN 0 ELSE events[n - 1].hash
              /\ events[n].task \in DOMAIN MissionOfTask =>
                    events[n].mission = MissionOfTask[events[n].task]

\* What makes it inductive: either nobody opened the database yet and all rows are
\* old, or every row has its envelope, the rows of the transaction under way
\* continue the committed ones, and there is a message for each committed row.
LegacyRows == {Legacy(s) : s \in Subjects}
Envelopes == {Envelope(s, previous, hash) : s \in Subjects, previous \in Nat, hash \in Nat \ {0}}
Messages == [status : {"pending", "dispatching", "failed", "delivered"}, token : Nat, ready : BOOLEAN]

Linked(rows) ==
    \A n \in 1..Len(rows) : rows[n].previous = IF n = 1 THEN 0 ELSE rows[n - 1].hash

OutboxInv ==
    /\ claims \in Nat
    /\ lock = 0 => unit = <<>>
    /\ outbox \in Seq(Messages)
    /\ \/ /\ opened = {} /\ lock = 0 /\ outbox = <<>>
          /\ events \in Seq(LegacyRows)
       \/ /\ events \in Seq(Envelopes) /\ unit \in Seq(Envelopes)
          /\ Linked(events \o unit)
          /\ Len(outbox) = Len(events)
=============================================================================
