--------------------------- MODULE GithubMutations ---------------------------
(* Mutations of a GitHub repository (storage.py, application.py, github.py):  *)
(* a plan is previewed, a gate for it is decided by a person, and an apply    *)
(* claims the gate, runs the plan's operations that no report has completed   *)
(* before, and stores its report. Nothing retries an apply.                   *)
EXTENDS Naturals, Sequences, FiniteSets

CONSTANTS
    Plans,          \* github_mutation_plans: immutable, one per SHA-256
    Operations,     \* idempotency keys of each plan's operations, in order
    Candidates,     \* the plans among them that open a candidate's pull request
    Previewers,     \* calls of preview_github_plan and plan_pull_request
    Appliers,       \* processes that run apply_github_plan
    MaxGates        \* bound of the model

ASSUME MutationsAssumption ==
    \A p \in Plans : /\ Len(Operations[p]) \in Nat
                     /\ DOMAIN Operations[p] = 1..Len(Operations[p])

VARIABLES
    previewing, \* the plan a preview asks a gate for, and the gate
    bound,      \* candidate_pr_plans: the gate of a candidate's plan
    mutationGates, \* github_mutation_gates: plan and status
    completed,  \* github_idempotency: keys of the repository
    reports,    \* github_mutation_reports.status, by gate
    applying,   \* what each applier is at
    effects,    \* the gates each operation took effect under, on GitHub
    reported,   \* history: keys an apply reported as done when it finished
    knew        \* history: what was reported when a gate was claimed

ghvars == <<previewing, bound, mutationGates, completed, reports, applying, effects, reported, knew>>

Keys == UNION {{Operations[p][n] : n \in DOMAIN Operations[p]} : p \in Plans}
NoPreview == [plan |-> 0, gate |-> 0]
Idle == [at |-> "idle", gate |-> 0, skip |-> {}, next |-> 0, done |-> {}, failed |-> {}]

GHInit ==
    /\ previewing = [v \in Previewers |-> NoPreview]
    /\ bound = [p \in {} |-> 0]
    /\ mutationGates = <<>>
    /\ completed = {}
    /\ reports = [g \in {} |-> 0]
    /\ applying = [a \in Appliers |-> Idle]
    /\ effects = [k \in Keys |-> {}]
    /\ reported = {}
    /\ knew = [g \in {} |-> 0]

-----------------------------------------------------------------------------
\* preview_github_plan: an undecided or approved gate of the plan is shown again,
\* else a new one is requested; plan_pull_request asks once per candidate. Two
\* calls may both find none.
OpenGates(p) == {g \in DOMAIN mutationGates : mutationGates[g].plan = p /\ mutationGates[g].status \in {"pending", "approved"}}

Preview(v, p) ==
    /\ previewing[v] = NoPreview
    /\ IF p \in Candidates THEN p \notin DOMAIN bound ELSE OpenGates(p) = {}
    /\ previewing' = [previewing EXCEPT ![v].plan = p]
    /\ UNCHANGED <<bound, mutationGates, completed, reports, applying, effects, reported, knew>>

RequestGithub(v) ==
    /\ previewing[v].plan # 0 /\ previewing[v].gate = 0 /\ Len(mutationGates) < MaxGates
    /\ mutationGates' = Append(mutationGates, [plan |-> previewing[v].plan, status |-> "pending"])
    /\ previewing' = [previewing EXCEPT ![v] =
                        IF @.plan \in Candidates THEN [@ EXCEPT !.gate = Len(mutationGates) + 1]
                        ELSE NoPreview]
    /\ UNCHANGED <<bound, completed, reports, applying, effects, reported, knew>>

\* plan_pull_request stores the gate it asked for; a second call's is refused
\* by the table and its gate stays open to a decision.
BindCandidate(v) ==
    /\ previewing[v].gate # 0
    /\ bound' = IF previewing[v].plan \in DOMAIN bound THEN bound
                ELSE [p \in DOMAIN bound \cup {previewing[v].plan} |->
                        IF p \in DOMAIN bound THEN bound[p] ELSE previewing[v].gate]
    /\ previewing' = [previewing EXCEPT ![v] = NoPreview]
    /\ UNCHANGED <<mutationGates, completed, reports, applying, effects, reported, knew>>

\* decide_github_gate.
DecideGithub(g, decision) ==
    /\ mutationGates[g].status = "pending"
    /\ mutationGates' = [mutationGates EXCEPT ![g].status = decision]
    /\ UNCHANGED <<previewing, bound, completed, reports, applying, effects, reported, knew>>

\* claim_github_gate.
ClaimGithub(a, g) ==
    /\ applying[a] = Idle
    /\ mutationGates[g].status = "approved"
    /\ mutationGates' = [mutationGates EXCEPT ![g].status = "claimed"]
    /\ applying' = [applying EXCEPT ![a] = [Idle EXCEPT !.at = "claimed", !.gate = g]]
    /\ knew' = [h \in DOMAIN knew \cup {g} |-> IF h = g THEN reported ELSE knew[h]]
    /\ UNCHANGED <<previewing, bound, completed, reports, effects, reported>>

\* The keys are read once, after the claim; the client verifies the target.
Verify(a) ==
    /\ applying[a].at = "claimed"
    /\ \E at \in {"running", "ended"} :
          applying' = [applying EXCEPT ![a] = [@ EXCEPT !.at = at, !.skip = completed, !.next = 1]]
    /\ UNCHANGED <<previewing, bound, mutationGates, completed, reports, effects, reported, knew>>

PlanOf(a) == Operations[mutationGates[applying[a].gate].plan]

\* One operation of client.apply: skipped as completed, done, failed, or done
\* and taken for failed. A failure does not stop the ones after it.
RunOperation(a) ==
    /\ applying[a].at = "running" /\ applying[a].next <= Len(PlanOf(a))
    /\ LET key == PlanOf(a)[applying[a].next]
           step == [applying[a] EXCEPT !.next = @ + 1]
       IN  \/ /\ key \in applying[a].skip
              /\ applying' = [applying EXCEPT ![a] = [step EXCEPT !.done = @ \cup {key}]]
              /\ UNCHANGED effects
           \/ /\ key \notin applying[a].skip
              /\ \E took, ok \in BOOLEAN :
                    /\ ok => took
                    /\ applying' = [applying EXCEPT ![a] =
                                      IF ok THEN [step EXCEPT !.done = @ \cup {key}]
                                      ELSE [step EXCEPT !.failed = @ \cup {key}]]
                    /\ effects' = IF took THEN [effects EXCEPT ![key] = @ \cup {applying[a].gate}]
                                  ELSE effects
    /\ UNCHANGED <<previewing, bound, mutationGates, completed, reports, reported, knew>>

Outcome(a) ==
    IF applying[a].failed # {} /\ applying[a].done # {} THEN "partial"
    ELSE IF applying[a].failed # {} \/ applying[a].at = "ended" THEN "failed"
    ELSE "succeeded"

\* Mutant: only a complete report is recorded.
RecordedIfComplete(a) == IF Outcome(a) = "succeeded" THEN applying[a].done ELSE {}

\* The keys finish_github_apply stores: every success, of a partial report too.
Recorded(a) == applying[a].done

\* finish_github_apply.
FinishApply(a) ==
    /\ \/ applying[a].at = "ended"
       \/ applying[a].at = "running" /\ applying[a].next > Len(PlanOf(a))
    /\ mutationGates[applying[a].gate].status = "claimed"
    /\ completed' = completed \cup Recorded(a)
    /\ reports' = [h \in DOMAIN reports \cup {applying[a].gate} |->
                     IF h = applying[a].gate THEN Outcome(a) ELSE reports[h]]
    /\ mutationGates' = [mutationGates EXCEPT ![applying[a].gate].status = "consumed"]
    /\ reported' = reported \cup applying[a].done
    /\ applying' = [applying EXCEPT ![a] = Idle]
    /\ UNCHANGED <<previewing, bound, effects, knew>>

\* The gate stays claimed: neither a report nor another apply follows.
KillApplier(a) ==
    /\ applying[a] # Idle
    /\ applying' = [applying EXCEPT ![a] = Idle]
    /\ UNCHANGED <<previewing, bound, mutationGates, completed, reports, effects, reported, knew>>

GHNext ==
    \/ \E v \in Previewers : RequestGithub(v) \/ BindCandidate(v) \/ \E p \in Plans : Preview(v, p)
    \/ \E g \in DOMAIN mutationGates :
          \/ \E decision \in {"approved", "rejected"} : DecideGithub(g, decision)
          \/ \E a \in Appliers : ClaimGithub(a, g)
    \/ \E a \in Appliers : Verify(a) \/ RunOperation(a) \/ FinishApply(a) \/ KillApplier(a)

GHSpec == GHInit /\ [][GHNext]_ghvars

-----------------------------------------------------------------------------
\* An operation reported as done is not run again under a gate claimed after
\* the report, whatever else of that apply failed (finish_github_apply,
\* docs/github-integration.md).
CompletedKeysSkipped ==
    \A k \in Keys : \A g \in effects[k] : g \in DOMAIN knew /\ k \notin knew[g]

AppliersTyped ==
    applying \in [Appliers -> [at : {"idle", "claimed", "running", "ended"}, gate : Nat,
                               skip : SUBSET Keys, next : Nat, done : SUBSET Keys,
                               failed : SUBSET Keys]]

GHTypeOK ==
    /\ previewing \in [Previewers -> [plan : Plans \cup {0}, gate : Nat]]
    /\ mutationGates \in Seq([plan : Plans,
                              status : {"pending", "approved", "rejected", "claimed", "consumed"}])
    /\ completed \subseteq Keys /\ reported \subseteq Keys
    /\ effects \in [Keys -> SUBSET Nat]
    /\ AppliersTyped

\* What makes it inductive: a report is stored with its keys; who runs operations has
\* a gate of its own that was claimed, and leaves out what was reported before that;
\* and effects come from claimed gates, whose row cannot be claimed again.
ClaimedGates ==
    {g \in DOMAIN mutationGates \cap DOMAIN knew :
        mutationGates[g].status \in {"claimed", "consumed"}}

MutationsInv ==
    /\ GHTypeOK
    /\ reported \subseteq completed
    /\ \A a \in Appliers :
          /\ applying[a].at # "idle" => applying[a].gate \in ClaimedGates
                                /\ knew[applying[a].gate] \subseteq completed
          /\ applying[a].at = "running" => /\ knew[applying[a].gate] \subseteq applying[a].skip
                                           /\ applying[a].next # 0
    /\ \A k \in Keys : \A g \in effects[k] : g \in ClaimedGates /\ k \notin knew[g]
=============================================================================
