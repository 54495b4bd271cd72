----------------------------- MODULE EpochHandoff -----------------------------
(***************************************************************************)
(* begin_epoch_handoff and complete_epoch_handoff of mission_checkpoints.py *)
(* over the control fence: an authorized handoff stops the mission, waits  *)
(* for its leases, activates one replacement epoch, resumes and records    *)
(* the result.  Each step is a transaction of its own.  An activity that   *)
(* completes a handoff may be killed anywhere, and Temporal runs another   *)
(* one after it or, when it only timed out, beside it; the owner's own     *)
(* commands come in between.                                               *)
(***************************************************************************)
EXTENDS MissionControl

CONSTANTS
    Handoffs,       \* handoff requests
    StopOf,         \* the id of the stop command each derives
    ResumeOf,       \* the id of its resume command
    Activities,     \* executions of complete_epoch_handoff
    Of,             \* the handoff each completes
    Killable        \* the activities that may be killed

OwnCommands == {StopOf[h] : h \in Handoffs} \cup {ResumeOf[h] : h \in Handoffs}
ASSUME HandoffAssumption ==
    /\ StopOf \in [Handoffs -> Commands] /\ ResumeOf \in [Handoffs -> Commands]
    /\ \A h, i \in Handoffs : StopOf[h] # ResumeOf[i]
    /\ \A h, i \in Handoffs : h # i => StopOf[h] # StopOf[i] /\ ResumeOf[h] # ResumeOf[i]
    /\ Of \in [Activities -> Handoffs] /\ Killable \subseteq Activities

VARIABLES
    request,        \* the rows of a handoff: what was seen, prepared, and done
    step            \* how far an activity is

hvars == <<vars, request, step>>

-----------------------------------------------------------------------------
NoRequest == [stage |-> "none", version |-> 0, token |-> 0, epoch |-> 0,
              stopped |-> 0, stopToken |-> 0, result |-> 0]

HInit ==
    /\ Init
    /\ request = [h \in Handoffs |-> NoRequest]
    /\ step = [x \in Activities |-> "idle"]

\* authorize_epoch_handoff: the owner binds the request to what the mission is.
Authorize(h) ==
    /\ request[h].stage = "none"
    /\ disposition = "RUNNING"
    /\ request' = [request EXCEPT ![h] = [@ EXCEPT !.stage = "authorized",
                      !.version = version, !.token = token, !.epoch = epoch]]
    /\ UNCHANGED <<vars, step>>

\* begin_epoch_handoff: the derived stop command, with the request's claims.
SendStop(h) ==
    /\ request[h].stage = "authorized" /\ cmd[StopOf[h]].at \in {"unsent", "refused"}
    /\ cmd' = [cmd EXCEPT ![StopOf[h]] =
                  [at |-> "sent", action |-> "STOP", version |-> request[h].version,
                   token |-> request[h].token, epoch |-> request[h].epoch]]
    /\ UNCHANGED <<mission, fence, lease, executions, request, step>>

\* begin_epoch_handoff: what the stop's immutable row says is persisted.
Prepare(h) ==
    /\ request[h].stage = "authorized" /\ cmd[StopOf[h]].at = "applied"
    /\ request' = [request EXCEPT ![h] = [@ EXCEPT !.stage = "prepared",
                      !.stopped = cmd[StopOf[h]].version + 1,
                      !.stopToken = cmd[StopOf[h]].token + 1]]
    /\ UNCHANGED <<vars, step>>

BoundaryReached == \A op \in Ops : lease[op] \notin Open

\* complete_epoch_handoff: no lease is open.
SeeBoundary(x) ==
    /\ request[Of[x]].stage \in {"prepared", "activated"} /\ step[x] = "idle"
    /\ BoundaryReached
    /\ step' = [step EXCEPT ![x] = "clear"]
    /\ UNCHANGED <<vars, request>>

\* The mission is as the handoff's stop left it.
StoppedScope(h, tok) ==
    /\ version = request[h].stopped /\ disposition = "STOPPED"
    /\ epoch = request[h].epoch /\ tok = request[h].stopToken

\* complete_epoch_handoff: the stopped scope, unless the epoch exists.
SeeScope(x) ==
    /\ step[x] = "clear"
    /\ Reconcile
    /\ step' = [step EXCEPT ![x] =
                   IF request[Of[x]].result # 0 \/ StoppedScope(Of[x], token')
                   THEN "scoped" ELSE "over"]
    /\ UNCHANGED <<mission, executions, cmd, request>>

\* Mutant: version and epoch are not compared again when the epoch is activated.
ActivatesAnyway(h) == TRUE

\* create_epoch compares the version and the active epoch.
Activates(h) == version = request[h].stopped /\ epoch = request[h].epoch

\* create_epoch: the epoch its command created, or the next one, made active.
Activate(x) ==
    LET h == Of[x] IN
    /\ step[x] = "scoped"
    /\ \/ /\ request[h].result # 0
          /\ step' = [step EXCEPT ![x] = "activated"]
          /\ UNCHANGED <<version, epoch, request>>
       \/ /\ request[h].result = 0 /\ Activates(h)
          /\ step' = [step EXCEPT ![x] = "activated"]
          /\ version' = version + 1 /\ epoch' = epoch + 1
          /\ request' = [request EXCEPT ![h] = [@ EXCEPT !.stage = "activated",
                                                         !.result = epoch + 1]]
       \/ /\ request[h].result = 0 /\ ~Activates(h)
          /\ step' = [step EXCEPT ![x] = "over"]
          /\ UNCHANGED <<version, epoch, request>>
    /\ UNCHANGED <<disposition, fence, lease, executions, cmd>>

\* Mutant: the token the handoff's stop left.
ResumeTokenStopped(h, now) == request[h].stopToken

\* The token of the resume.
ResumeToken(h, now) == now

\* The resume is sent with the version and token of now, after the fence was
\* brought up to date; one that was applied before answers.
SendResume(x) ==
    LET h == Of[x] IN
    /\ step[x] = "activated"
    /\ Reconcile
    /\ cmd' = [cmd EXCEPT ![ResumeOf[h]] =
                  IF @.at = "applied" THEN @
                  ELSE [at |-> "sent", action |-> "RESUME", version |-> version,
                        token |-> ResumeToken(h, token'), epoch |-> request[h].result]]
    /\ step' = [step EXCEPT ![x] = "resuming"]
    /\ UNCHANGED <<mission, executions, request>>

\* The result is recorded once the resume was applied; a refusal ends the call.
Record(x) ==
    LET h == Of[x] IN
    /\ step[x] = "resuming"
    /\ \/ /\ cmd[ResumeOf[h]].at = "applied"
          /\ request' = [request EXCEPT ![h].stage = "completed"]
       \/ /\ cmd[ResumeOf[h]].at = "refused"
          /\ UNCHANGED request
    /\ step' = [step EXCEPT ![x] = "over"]
    /\ UNCHANGED vars

\* The activity is killed; what it had sent may still be under way.
KillActivity(x) ==
    /\ x \in Killable /\ step[x] \notin {"idle", "over"}
    /\ step' = [step EXCEPT ![x] = "over"]
    /\ UNCHANGED <<vars, request>>

\* What goes on under the fence meanwhile; the derived commands are a handoff's to send.
FenceNext ==
    \/ \E op \in Ops : Schedule(op)
    \/ \E r \in Runners : Ask(r) \/ Begin(r) \/ Work(r) \/ Finish(r) \/ Kill(r)
    \/ \E c \in Commands \ OwnCommands, action \in Actions : Send(c, action)
    \/ \E c \in Commands : Check(c) \/ Transition(c) \/ Retry(c) \/ Refuse(c)
    \/ OtherChange

HNext ==
    \/ FenceNext /\ UNCHANGED <<request, step>>
    \/ \E h \in Handoffs : Authorize(h) \/ SendStop(h) \/ Prepare(h)
    \/ \E x \in Activities :
          \/ SeeBoundary(x) \/ SeeScope(x) \/ Activate(x) \/ SendResume(x) \/ Record(x)
          \/ KillActivity(x)

HSpec == HInit /\ [][HNext]_hvars

\* Activities and commands under way go on, operations at work end, and what
\* was killed is retried.
HFairness ==
    /\ \A r \in Runners : /\ WF_hvars((Begin(r) \/ Work(r) \/ Finish(r))
                                          /\ UNCHANGED <<request, step>>)
                         /\ WF_hvars(Retries(r) /\ UNCHANGED <<request, step>>)
    /\ \A c \in Commands : WF_hvars((Check(c) \/ Transition(c) \/ Refuse(c))
                                       /\ UNCHANGED <<request, step>>)
    /\ \A h \in Handoffs : WF_hvars(Prepare(h))
    /\ \A x \in Activities : WF_hvars(SeeBoundary(x) \/ SeeScope(x) \/ Activate(x)
                                         \/ SendResume(x) \/ Record(x))
HFairSpec == HSpec /\ HFairness

-----------------------------------------------------------------------------
Prepared == {"prepared", "activated", "completed"}
Requests ==
    [stage : {"none", "authorized"} \cup Prepared, version : Nat, token : Nat, epoch : Nat,
     stopped : Nat, stopToken : Nat, result : Nat]

\* Types of the handoff tables' columns and of the activities' progress.
HTypeOK ==
    /\ TypeOK
    /\ request \in [Handoffs -> Requests]
    /\ step \in [Activities -> {"idle", "clear", "scoped", "activated", "resuming", "over"}]

\* "Completion refuses to replace the epoch while any lease remains ACTIVE or
\* RELEASING": the lease is looked for long before the epoch is activated, and
\* still no lease is open, and nothing at work, when it is.
ReplacedAtBoundary ==
    [][epoch' # epoch =>
          /\ disposition = "STOPPED"
          /\ \A op \in Ops : lease[op] \notin Open
          /\ \A r \in Runners : pc[r] # "running"]_hvars

\* "... so exactly one replacement epoch exists": every epoch after the first
\* belongs to the one handoff that activated it, and replaces the epoch that
\* handoff was authorized for.
Replaced == {h \in Handoffs : request[h].stage \in {"activated", "completed"}}
OneEpochPerHandoff ==
    /\ epoch = 1 + Cardinality(Replaced)
    /\ \A h \in Replaced : request[h].result = request[h].epoch + 1
    /\ \A h, i \in Replaced : request[h].result = request[i].result => h = i

\* What makes it inductive: a handoff has a result once it replaced the epoch, none is
\* of a later epoch, and an activity resumes after the replacement only.
ResultsKept ==
    /\ IsFiniteSet(Replaced)
    /\ \A h \in Handoffs : request[h].result # 0 => h \in Replaced /\ request[h].result <= epoch
    /\ \A x \in Activities : step[x] \in {"activated", "resuming"} => Of[x] \in Replaced

\* Why the boundary that was seen is still reached at the replacement: while the mission
\* is at the version a handoff's stop led to it is stopped, and no lease is opened.
StopsHold ==
    /\ \A h \in Handoffs :
          /\ request[h].token <= token
          /\ cmd[StopOf[h]].at # "unsent" => cmd[StopOf[h]].action = "STOP"
          /\ request[h].stage \in Prepared =>
                /\ request[h].stopped <= version
                /\ version = request[h].stopped => disposition = "STOPPED"
    /\ \A c \in Commands : cmd[c].at = "applied" /\ cmd[c].action = "STOP" =>
          /\ cmd[c].version < version
          /\ version = cmd[c].version + 1 => disposition = "STOPPED"
    /\ \A x \in Activities : step[x] \in {"clear", "scoped"} =>
          /\ request[Of[x]].stage \in Prepared
          /\ version = request[Of[x]].stopped => BoundaryReached

HandoffInv == HTypeOK /\ OneEpochPerHandoff /\ ResultsKept /\ StopsHold

\* A handoff that stopped the mission is completed, and the mission goes on in
\* the new epoch, whatever activity is killed on the way, as long as nobody
\* else commands the mission.
HandoffCompletes ==
    \A h \in Handoffs : request[h].stage = "prepared" ~> request[h].stage = "completed"
=============================================================================
