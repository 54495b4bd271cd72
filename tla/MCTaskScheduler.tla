---------------------------- MODULE MCTaskScheduler ----------------------------
(* Two work items of one project with requests that nest and that are         *)
(* disjoint; the authority of an approved mission; the event log with its     *)
(* outbox; the statements the database takes about a mission's control; the   *)
(* blueprint of a mission.  They share no state: one of them moves in a       *)
(* behaviour, chosen at its start.                                            *)
EXTENDS TaskScheduler, AutonomousAuthority, EventOutbox, ControlSchema, MCBlueprint

CONSTANTS t1, t2, a1, a2

VARIABLE moving

MCTasks == {t1, t2}
MCProject == [t \in MCTasks |-> "p"]
MCDeps == [t \in MCTasks |-> {}]
MCRequests == {{<<"src">>}, {<<"src", "a">>}, {<<"tests">>}}

\* A run with its work item and mission, and an event that names a mission only.
MCSubjects == {[run |-> 1, task |-> 0, mission |-> 2], [run |-> 0, task |-> 0, mission |-> 2]}
MCTaskOfRun == [r \in {1} |-> 1]
MCMissionOfTask == [t \in {1} |-> 1]

MCSchedulerInit ==
    /\ moving \in {"scheduler", "authority", "events", "control", "blueprint"}
    /\ Init /\ AAInit /\ EOInit /\ CSInit /\ BLInit
    /\ moving # "events" => Head(events).about.run = 0

MCSchedulerNext ==
    /\ UNCHANGED moving
    /\ \/ moving = "scheduler" /\ Next /\ UNCHANGED <<aavars, eovars, csvars, blvars>>
       \/ moving = "authority" /\ AANext /\ UNCHANGED <<vars, eovars, csvars, blvars>>
       \/ moving = "events" /\ EONext /\ UNCHANGED <<vars, aavars, csvars, blvars>>
       \/ moving = "control" /\ CSNext /\ UNCHANGED <<vars, aavars, eovars, blvars>>
       \/ moving = "blueprint" /\ BLNext /\ UNCHANGED <<vars, aavars, eovars, csvars>>

MCSchedulerSpec ==
    MCSchedulerInit /\ [][MCSchedulerNext]_<<moving, vars, aavars, eovars, csvars, blvars>>

\* Bound of the model: while the stop is being cleared no work item has begun, and
\* one work item of the two goes past running.
MCSchedulerBound ==
    /\ clearing => \A t \in Tasks : status[t] \in {"absent", "pending"}
    /\ Cardinality({t \in Tasks : status[t] \notin {"absent", "pending", "running"}}) <= 1

\* Bound of the model: two of the processes are at work at a time, a stager only
\* beside the first carrier.
MCAuthorityBound ==
    /\ Cardinality({c \in Carriers : carry[c].pc # "idle"})
         + Cardinality({w \in Stagers : stager[w].pc # "idle"}) <= 2
    /\ (\E w \in Stagers : stager[w].pc # "idle") => carry[2].pc = "idle"

\* Bound of the model: the fence is one update behind the mission at most; a handoff
\* is asked for beside one child job and under the first grant, a second one after
\* the first stopped.
MCFenceBound ==
    /\ missionRow.version <= fenceRow.version + 1
    /\ requestRows # <<>> =>
          /\ Len(workRows) <= 1 /\ \A w \in DOMAIN workRows : IsJob(w)
          /\ requestRows[1].origin = "CHECKPOINT_RESTART" /\ 1 \in grantRows
    /\ Len(requestRows) = 2 => 1 \in preparedRows

\* Bound of the model: a mission is bootstrapped when its decisions are settled; two
\* assessments; one of the processes assesses, answers or signs at a time.
MCBlueprintBound ==
    /\ attempts # <<>> =>
          /\ \A adr \in DOMAIN decisions : decisions[adr].status \in {"applied", "rejected"}
          /\ \A c \in Clerks : called[c].op # "propose"
    /\ Len(assessments) <= 2
    /\ Cardinality({c \in Clerks : called[c].op \in {"sign", "assess", "answer"}}) <= 1

Symmetric == Permutations(Ids) \cup Permutations(Tasks)
=============================================================================
