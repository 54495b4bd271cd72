-------------------------- MODULE CandidateDelivery --------------------------
(* The delivery of one task outside missions: results of its workers are      *)
(* validated, committed as candidates, reviewed, counted as iterations of a   *)
(* bounded engineering loop, and put before the founder (coding_delivery.py,  *)
(* engineering_loop.py, candidate_changes.py, evaluation.py, validators.py).  *)
(*                                                                            *)
(* Each service commits by itself, so process() is a sequence of transactions *)
(* between which another call, another process or a kill comes in; what it    *)
(* read before them is kept in "call".                                        *)
EXTENDS Naturals, Sequences, FiniteSets

CONSTANTS
    Results,        \* codex_worker_results of the task
    Categories,     \* how many VALIDATOR_CATEGORIES there are
    Calls,          \* processes that call process()
    MaxRepairs,     \* max_repair_iterations of the delivery
    MaxLimit        \* bound of the model: iterations a person may allow

\* start refuses a delivery without repairs, as a CHECK of its table does.
ASSUME DeliveryAssumption == Categories \in Nat /\ MaxRepairs \in Nat \ {0} /\ MaxLimit \in Nat

VARIABLES
    checks,     \* validator_results of each result, in the order of categories
    committed,  \* results whose worktree HEAD is the candidate commit
    candidates, \* candidate_change_artifacts, by result
    evaluated,  \* evaluation_runs.verdict of each candidate, "none" before
    loop,       \* engineering_loops
    numbers,    \* numbers of engineering_iterations, in order of their rows
    delivery,   \* coding_delivery_runs
    turns,      \* coding_delivery_iterations
    flow,       \* workflow_runs.status of the delivery's run
    gates,      \* approval_gates.status of it
    call,       \* a call of process()
    founder,    \* founder_decide between its transactions
    increase,   \* the limit a person approved from a reading of the loop
    released    \* whether release_candidate_authorizations holds a row

cdvars == <<checks, committed, candidates, evaluated, loop, numbers, delivery, turns, flow,
            gates, call, founder, increase, released>>
work == <<checks, committed, candidates, evaluated>>

NoCall == [at |-> "idle"]

\* Rows that are not there yet: their states and what their triggers protect.
NoVerdict == "none"
NoLoop == [status |-> "none", number |-> 0, max |-> MaxRepairs]
NoDelivery == [status |-> "none", repairs |-> 0, of |-> "none", gate |-> 0]

CDInit ==
    /\ checks = [r \in Results |-> <<>>]
    /\ committed = {} /\ candidates = {}
    /\ evaluated = [r \in Results |-> NoVerdict]
    /\ loop = NoLoop
    /\ numbers = <<>>
    /\ delivery = NoDelivery
    /\ turns = <<>>
    /\ flow = "running"
    /\ gates = <<>>
    /\ call = [c \in Calls |-> NoCall]
    /\ founder = "idle"
    /\ increase = 0
    /\ released = FALSE

-----------------------------------------------------------------------------
\* ValidatorRunner.run: one row per category, in a transaction of its own. A
\* suite that was cut short cannot be run again: the rows it left are unique.
Validate(r) ==
    /\ Len(checks[r]) < Categories
    /\ \E outcome \in {"succeeded", "failed"} : checks' = [checks EXCEPT ![r] = Append(@, outcome)]
    /\ UNCHANGED <<committed, candidates, evaluated, loop, numbers, delivery, turns, flow,
                   gates, call, founder, increase, released>>

AllSucceeded(r) == \A c \in DOMAIN checks[r] : checks[r][c] = "succeeded"

\* Mutant: a suite that is not complete counts by the rows there are.
PassedSoFar(r) == AllSucceeded(r)

\* The condition of process(), of CandidateChangeService.create and of evaluate.
SuitePassed(r) == Len(checks[r]) = Categories /\ AllSucceeded(r)

-----------------------------------------------------------------------------
\* CodingDeliveryService.start: the loop, and in the next transaction the
\* delivery. A repeated call finds what there is.
StartLoop ==
    /\ loop.status = "none"
    /\ loop' = [loop EXCEPT !.status = "active"]
    /\ UNCHANGED <<work, numbers, delivery, turns, flow, gates, call, founder, increase, released>>

StartDelivery ==
    /\ loop.status # "none" /\ delivery.status = "none"
    /\ delivery' = [delivery EXCEPT !.status = "active"]
    /\ UNCHANGED <<work, loop, numbers, turns, flow, gates, call, founder, increase, released>>

-----------------------------------------------------------------------------
Processed(r) == \E n \in DOMAIN turns : turns[n].result = r

\* process: what it reads before its first transaction.
Process(c, r) ==
    /\ call[c] = NoCall
    /\ delivery.status = "active" /\ ~Processed(r)
    /\ call' = [call EXCEPT ![c] =
                  [at |-> IF SuitePassed(r) THEN "commit" ELSE "loop", result |-> r,
                   number |-> Len(turns) + 1, repairs |-> delivery.repairs,
                   accept |-> FALSE, read |-> 0, gate |-> 0]]
    /\ UNCHANGED <<work, loop, numbers, delivery, turns, flow, gates, founder, increase, released>>

CallTo(c, stage) == [call EXCEPT ![c].at = stage]

\* CandidateChangeService.create: a stored candidate is returned; the commit of
\* a call that was cut short is recognised, else it is made.
CommitCandidate(c) ==
    /\ call[c].at = "commit"
    /\ IF call[c].result \in candidates
       THEN call' = CallTo(c, "review") /\ UNCHANGED committed
       ELSE /\ SuitePassed(call[c].result)
            /\ committed' = committed \cup {call[c].result}
            /\ call' = CallTo(c, "candidate")
    /\ UNCHANGED <<checks, candidates, evaluated, loop, numbers, delivery, turns, flow, gates,
                   founder, increase, released>>

\* Its row, one per result; a second insert raises.
InsertCandidate(c) ==
    /\ call[c].at = "candidate"
    /\ candidates' = candidates \cup {call[c].result}
    /\ call' = IF call[c].result \in candidates THEN [call EXCEPT ![c] = NoCall]
               ELSE CallTo(c, "review")
    /\ UNCHANGED <<checks, committed, evaluated, loop, numbers, delivery, turns, flow, gates,
                   founder, increase, released>>

\* EvaluationService.evaluate: a stored evaluation is returned, else a model
\* that did not produce the change reviews it.
Review(c) ==
    /\ call[c].at = "review"
    /\ LET stored == evaluated[call[c].result]
       IN  IF stored # NoVerdict
           THEN call' = [call EXCEPT ![c] = [@ EXCEPT !.at = "loop", !.accept = stored = "accepted"]]
           ELSE /\ SuitePassed(call[c].result)
                /\ \E accept \in BOOLEAN :
                      call' = [call EXCEPT ![c] = [@ EXCEPT !.at = "verdict", !.accept = accept]]
    /\ UNCHANGED <<work, loop, numbers, delivery, turns, flow, gates, founder, increase, released>>

InsertEvaluation(c) ==
    /\ call[c].at = "verdict"
    /\ LET new == evaluated[call[c].result] = NoVerdict
       IN  /\ evaluated' = IF ~new THEN evaluated
                           ELSE [evaluated EXCEPT ![call[c].result] =
                                   IF call[c].accept THEN "accepted" ELSE "rejected"]
           /\ call' = IF new THEN CallTo(c, "loop") ELSE [call EXCEPT ![c] = NoCall]
    /\ UNCHANGED <<checks, committed, candidates, loop, numbers, delivery, turns, flow, gates,
                   founder, increase, released>>

\* record_iteration reads the loop, which must be active.
ReadLoop(c) ==
    /\ call[c].at = "loop"
    /\ call' = IF loop.status = "active"
               THEN [call EXCEPT ![c] = [@ EXCEPT !.at = "iteration", !.read = loop.number + 1]]
               ELSE [call EXCEPT ![c] = NoCall]
    /\ UNCHANGED <<work, loop, numbers, delivery, turns, flow, gates, founder, increase, released>>

\* The row of the iteration, whose number is unique, and the loop's next state
\* WHERE it is still active.
RecordIteration(c) ==
    /\ call[c].at = "iteration"
    /\ IF \E n \in DOMAIN numbers : numbers[n] = call[c].read
       THEN /\ call' = [call EXCEPT ![c] = NoCall]
            /\ UNCHANGED <<loop, numbers>>
       ELSE /\ numbers' = Append(numbers, call[c].read)
            /\ loop' = IF loop.status # "active" THEN loop
                       ELSE [loop EXCEPT !.number = call[c].read,
                               !.status = IF call[c].accept THEN "accepted"
                                          ELSE IF call[c].read >= loop.max THEN "paused"
                                          ELSE "active"]
            /\ call' = CallTo(c, IF call[c].accept THEN "gate" ELSE "turn")
    /\ UNCHANGED <<work, delivery, turns, flow, gates, founder, increase, released>>

\* create_approval_gate, which takes the run from running to awaiting_approval.
CreateGate(c) ==
    /\ call[c].at = "gate"
    /\ IF flow # "running"
       THEN call' = [call EXCEPT ![c] = NoCall] /\ UNCHANGED <<flow, gates>>
       ELSE /\ flow' = "awaiting_approval"
            /\ gates' = Append(gates, "pending")
            /\ call' = [call EXCEPT ![c] = [@ EXCEPT !.at = "turn", !.gate = Len(gates) + 1]]
    /\ UNCHANGED <<work, loop, numbers, delivery, turns, founder, increase, released>>

\* The uniqueness of coding_delivery_iterations.
Clash(c) == Processed(call[c].result) \/ call[c].number <= Len(turns)

\* The last transaction of process. The repairs are counted from its reading.
RecordTurn(c) ==
    /\ call[c].at = "turn"
    /\ call' = [call EXCEPT ![c] = NoCall]
    /\ IF Clash(c) THEN UNCHANGED <<delivery, turns>>
       ELSE LET repairs == call[c].repairs + (IF call[c].accept THEN 0 ELSE 1)
            IN  /\ turns' = Append(turns, [result |-> call[c].result, accepted |-> call[c].accept])
                /\ delivery' = IF delivery.status # "active" THEN delivery
                               ELSE [status |-> IF call[c].accept THEN "awaiting_founder"
                                                ELSE IF repairs >= MaxRepairs THEN "failed"
                                                ELSE "active",
                                     repairs |-> repairs, of |-> call[c].result,
                                     gate |-> call[c].gate]
    /\ UNCHANGED <<work, loop, numbers, flow, gates, founder, increase, released>>

\* An error or the end of the process leaves what was committed.
EndCall(c) ==
    /\ call[c] # NoCall
    /\ call' = [call EXCEPT ![c] = NoCall]
    /\ UNCHANGED <<work, loop, numbers, delivery, turns, flow, gates, founder, increase, released>>

-----------------------------------------------------------------------------
\* founder_decide: decide_approval, which repeats a decision without effect and
\* refuses the other; the run follows the gate.
DecideGate(decision) ==
    /\ founder = "idle"
    /\ delivery.status = "awaiting_founder"
    /\ gates[delivery.gate] \in {"pending", decision}
    /\ gates' = [gates EXCEPT ![delivery.gate] = decision]
    /\ flow' = IF gates[delivery.gate] = "pending" THEN decision ELSE flow
    /\ founder' = decision
    /\ UNCHANGED <<work, loop, numbers, delivery, turns, call, increase, released>>

\* The pull request is planned (GithubMutations) and the delivery ends.
EndDelivery ==
    /\ founder # "idle"
    /\ delivery' = IF delivery.status # "awaiting_founder" THEN delivery
                   ELSE [delivery EXCEPT !.status =
                           IF founder = "approved" THEN "pr_ready" ELSE "rejected"]
    /\ founder' = "idle"
    /\ UNCHANGED <<work, loop, numbers, turns, flow, gates, call, increase, released>>

KillFounder ==
    /\ founder # "idle" /\ founder' = "idle"
    /\ UNCHANGED <<work, loop, numbers, delivery, turns, flow, gates, call, increase, released>>

\* authorize_release.
AuthorizeRelease ==
    /\ delivery.status = "pr_ready" /\ gates[delivery.gate] = "approved"
    /\ released' = TRUE
    /\ UNCHANGED <<work, loop, numbers, delivery, turns, flow, gates, call, founder, increase>>

-----------------------------------------------------------------------------
Escalate ==
    /\ loop.status \in {"active", "paused"}
    /\ loop' = [loop EXCEPT !.status = "escalated"]
    /\ UNCHANGED <<work, numbers, delivery, turns, flow, gates, call, founder, increase, released>>

\* resume_with_approved_limits: compared with a reading, written WHERE paused.
ApproveLimit ==
    /\ loop.status = "paused"
    /\ \E limit \in (loop.max + 1)..MaxLimit : limit > loop.number /\ increase' = limit
    /\ UNCHANGED <<work, loop, numbers, delivery, turns, flow, gates, call, founder, released>>

ResumeLoop ==
    /\ increase # 0 /\ increase' = 0
    /\ loop' = IF loop.status = "paused" THEN [loop EXCEPT !.status = "active", !.max = increase]
               ELSE loop
    /\ UNCHANGED <<work, numbers, delivery, turns, flow, gates, call, founder, released>>

CDNext ==
    \/ \E r \in Results : Validate(r)
    \/ StartLoop \/ StartDelivery \/ Escalate \/ ApproveLimit \/ ResumeLoop
    \/ \E c \in Calls :
          \/ \E r \in Results : Process(c, r)
          \/ CommitCandidate(c) \/ InsertCandidate(c) \/ Review(c) \/ InsertEvaluation(c)
          \/ ReadLoop(c) \/ RecordIteration(c) \/ CreateGate(c) \/ RecordTurn(c) \/ EndCall(c)
    \/ \E decision \in {"approved", "rejected"} : DecideGate(decision)
    \/ EndDelivery \/ KillFounder \/ AuthorizeRelease

CDSpec == CDInit /\ [][CDNext]_cdvars

-----------------------------------------------------------------------------
\* A delivery is ready for a pull request, or released, only with a committed
\* candidate whose complete suite passed, that a reviewer accepted and that the
\* founder approved at the gate made for it, whoever was killed in between.
ReadyWasEarned ==
    delivery.status = "pr_ready" \/ released =>
        /\ delivery.of \in candidates \cap committed
        /\ Len(checks[delivery.of]) = Categories /\ AllSucceeded(delivery.of)
        /\ evaluated[delivery.of] = "accepted"
        /\ gates[delivery.gate] = "approved" /\ flow = "approved"

\* Calls that overlap never lose or repeat a repair: the delivery has counted
\* each failed iteration once, and it failed exactly when the cap was reached.
RepairsCounted ==
    LET failed == Cardinality({n \in DOMAIN turns : ~turns[n].accepted})
    IN  /\ delivery.repairs = failed
        /\ delivery.status = "failed" <=> failed = MaxRepairs

\* The two together: what process() and founder_decide leave is what was earned.
DeliverySound == ReadyWasEarned /\ RepairsCounted
=============================================================================
