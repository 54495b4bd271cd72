------------------------- MODULE MCStudioSupervisor -------------------------
(* Two runners and two requests of people on one game; two processes that     *)
(* deliver the results of one task; GitHub plans that share an operation; two *)
(* processes that offer builds of a game and restore versions of it; what the *)
(* verifier makes of a plan; and one run of a workflow with its reviews.      *)
(* They share no state: one of them moves in a behaviour, chosen at its start. *)
EXTENDS StudioSupervisor, CandidateDelivery, GithubMutations, PlayableVersions,
        ProposalVerifier, StageExecution, TLC

CONSTANTS r1, r2, q1, q2

VARIABLE moving

MCCosts == {0, 1}
MCTerms == {[steps |-> Steps, ceiling |-> 1, owner |-> TRUE],
            [steps |-> {"plan"}, ceiling |-> -1, owner |-> FALSE]}

MCOperations == <<<<"k1", "k2">>, <<"k2">>>>

Item(id, executable, parent, deps) ==
    [id |-> id, executable |-> executable, parent |-> parent, deps |-> deps, refs |-> {"REQ-1"},
     flaws |-> {}, infrastructure |-> FALSE, mentions |-> {}, needs |-> {}]

Plan(items) ==
    [ids |-> {"REQ-1"}, traced |-> {"REQ-1"}, complete |-> TRUE, cites |-> {"REQ-1"},
     bootstrap |-> {}, items |-> items, verdict |-> "READY", findings |-> {}]

\* How three items may hang together, their rows in three orders, or with an id twice.
MCGraphs ==
    {Plan([n \in 1..3 |-> Item(ids[n], kind[n], parent[n], deps[n])]) :
        ids \in {<<1, 2, 3>>, <<2, 3, 1>>, <<3, 1, 2>>, <<1, 1, 2>>},
        kind \in {<<TRUE, TRUE, TRUE>>, <<TRUE, FALSE, TRUE>>, <<FALSE, TRUE, TRUE>>},
        parent \in {<<0, 0, 0>>, <<0, 1, 0>>, <<0, 0, 2>>, <<3, 0, 0>>, <<2, 0, 1>>},
        deps \in [1..3 -> {{}, {1}, {2}, {1, 3}, {4}}]}

\* What two items, the other artifacts and a finding of the reviewer may say.
MCFindings ==
    {{}} \cup {{f} : f \in [status : {"OPEN", "RESOLVED", "ACCEPTED_RISK"}, severe : BOOLEAN,
                           shown : BOOLEAN, known : {TRUE}]}
         \cup {{[status |-> "RESOLVED", severe |-> FALSE, shown |-> TRUE, known |-> FALSE]}}
MCScopes ==
    {[Plan(<<[Item(1, TRUE, 0, {}) EXCEPT !.refs = one],
             [Item(2, executable, 0, {1}) EXCEPT !.refs = two]>>)
        EXCEPT !.ids = ids, !.traced = traced, !.cites = cites, !.complete = complete] :
        one \in {{"REQ-1"}, {"REQ-1", "specification"}, {"specification"}},
        two \in {{"REQ-1"}, {"REQ-2"}, {"REQ-2", "elsewhere"}}, executable \in BOOLEAN,
        ids \in SUBSET RequirementNames, traced \in {{"REQ-1"}, RequirementNames},
        cites \in {{"REQ-1"}, {"REQ-2"}}, complete \in BOOLEAN}
MCReviews ==
    {[Plan(<<[Item(1, executable, 0, {}) EXCEPT !.flaws = flaws], Item(2, TRUE, 0, {1})>>)
        EXCEPT !.verdict = verdict, !.findings = findings] :
        flaws \in {{}} \cup {{f} : f \in {"incomplete", "repeatsDependency", "repeatsCriterion",
                                         "vague", "priority"}},
        executable \in BOOLEAN, verdict \in {"READY", "NEEDS_REPAIR"}, findings \in MCFindings}

\* Which of three items set a database up, mention or need it, and what they wait for.
MCSetups ==
    {[Plan([n \in 1..3 |->
             [Item(n, kind[n], IF n = 3 THEN parent ELSE 0,
                   IF n = 1 THEN {} ELSE IF n = 2 THEN second ELSE third)
                EXCEPT !.infrastructure = setup[n],
                       !.mentions = IF names[n] THEN {"database"} ELSE {},
                       !.needs = IF needs[n] THEN {"database"} ELSE {}]])
        EXCEPT !.bootstrap = {"database"}] :
        kind \in {<<TRUE, TRUE, TRUE>>, <<TRUE, FALSE, TRUE>>}, parent \in {0, 1},
        second \in {{}, {1}}, third \in {{}, {1}, {2}},
        setup \in {<<TRUE, FALSE, FALSE>>, <<FALSE, TRUE, FALSE>>, <<TRUE, TRUE, FALSE>>},
        names \in {<<TRUE, FALSE, FALSE>>, <<TRUE, TRUE, FALSE>>, <<FALSE, FALSE, FALSE>>},
        needs \in {<<FALSE, TRUE, TRUE>>, <<FALSE, FALSE, TRUE>>, <<TRUE, TRUE, FALSE>>}}

MCProposals == MCGraphs \cup MCScopes \cup MCReviews \cup MCSetups \cup {Plan(<<>>)}

\* A workflow of three stages, the last two with reviewers; two of the agents have one
\* model, and the first two stages may depend on each other or not.
MCModelOf == [g |-> "m1", b |-> "m2", v |-> "m3", w |-> "m2"]
MCDefinition(deps) ==
    [deps |-> deps, reviews |-> <<{}, {1}, {1, 2}>>, agent |-> <<"g", "b", "g">>,
     pool |-> <<{}, {"b", "v"}, {"g", "v", "w"}>>,
     contract |-> <<TRUE, TRUE, TRUE>>, precheck |-> 1, postcheck |-> 3, guardian |-> "g"]
MCDefinitions == {MCDefinition(<<{}, {1}, {2}>>), MCDefinition(<<{}, {}, {2}>>)}

MCStudioInit ==
    /\ moving \in {"studio", "delivery", "github", "playable", "proposal", "stage"}
    /\ Init /\ CDInit /\ GHInit /\ PVInit /\ PRInit /\ SEInit
    /\ moving # "proposal" => proposal = Plan(<<>>)
    /\ moving # "stage" => definition = MCDefinition(<<{}, {1}, {2}>>) /\ job.by = "engine"

MCStudioNext ==
    /\ UNCHANGED moving
    /\ \/ moving = "studio" /\ Next /\ UNCHANGED <<cdvars, ghvars, pvvars, prvars, sevars>>
       \/ moving = "delivery" /\ CDNext /\ UNCHANGED <<vars, ghvars, pvvars, prvars, sevars>>
       \/ moving = "github" /\ GHNext /\ UNCHANGED <<vars, cdvars, pvvars, prvars, sevars>>
       \/ moving = "playable" /\ PVNext /\ UNCHANGED <<vars, cdvars, ghvars, prvars, sevars>>
       \/ moving = "proposal" /\ PRNext /\ UNCHANGED <<vars, cdvars, ghvars, pvvars, sevars>>
       \/ moving = "stage" /\ SENext /\ UNCHANGED <<vars, cdvars, ghvars, pvvars, prvars>>

MCStudioSpec == MCStudioInit /\ [][MCStudioNext]_<<moving, vars, cdvars, ghvars, pvvars, prvars, sevars>>

\* Bound of the model: a second person acts on the game only where no process was
\* killed and nothing else changed it.
MCStudioBound == (\A q \in Requests : ask[q].is # "new") => events = 0

\* Bound of the model: the second result is validated after the first; two calls
\* are under way while nobody raises the limit or escalates.
MCCallsBound ==
    /\ checks[2] # <<>> => Len(checks[1]) = Categories
    /\ (\A c \in Calls : call[c] # NoCall) =>
          increase = 0 /\ loop.max = MaxRepairs /\ loop.status # "escalated"

\* Bound of the model: plans are recorded and accepted while no call is under way;
\* one build is rejected.
MCPlayableBound ==
    /\ plans # <<>> => \A p \in Processes : offer[p] = NoOffer
    /\ Len(SelectSeq(promotions, LAMBDA n : n.outcome = "rejected")) <= 1

\* Bound of the model: people review and accept where the engine's run is over, one
\* artifact; a pause comes while one execution was started at most.
MCStageBound ==
    /\ (evidence # <<>> \/ \E i \in 1..Len(artifacts) : artifacts[i].status # "pending") =>
          job.at = "over" /\ job.by = "engine"
    /\ \A k \in 1..Len(evidence) : evidence[k].artifact = 1
    /\ \A i \in 2..Len(artifacts) : artifacts[i].status = "pending"
    /\ job.paused => Len(calls) <= 1

\* The workflow's run alone.
MCStagesMove == moving = "stage"

Alike == Permutations(Requests)
=============================================================================
