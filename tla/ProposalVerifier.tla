--------------------------- MODULE ProposalVerifier ---------------------------
(* What an autonomous plan goes through before people are asked about it: the  *)
(* schemas its roles' answers are held to (PlanningArtifactSchemas, backlog.py)*)
(* and the deterministic verifier (autonomous_proposal_verifier.py), and how   *)
(* the delivery picks the items of the backlog that was approved.              *)
(*                                                                             *)
(* Texts are left out; of each the plan keeps what a check can tell: whether   *)
(* it is missing, repeated or not measurable ("flaws").                        *)
EXTENDS Naturals, Sequences

CONSTANT Proposals  \* the documents the roles come up with

\* The items of a document are listed, and their stable ids are ordered.
ProposalsAssumption ==
    \A p \in Proposals :
        /\ Len(p.items) \in Nat /\ DOMAIN p.items = 1..Len(p.items)
        /\ \A n \in DOMAIN p.items : p.items[n].id \in Nat
ASSUME ProposalsAssumption

VARIABLES
    proposal, \* the artifacts of the four roles
    stage,    \* how far the plan got
    built     \* stable ids of the executable items delivered, in order

prvars == <<proposal, stage, built>>

\* Names a requirement may have; what else an item may refer to.
RequirementNames == {"REQ-1", "REQ-2"}
SourceRoots == {"specification"}

PRInit == proposal \in Proposals /\ stage = "requirements" /\ built = <<>>

-----------------------------------------------------------------------------
Ids(items) == {items[n].id : n \in DOMAIN items}
ItemOf(items, id) == items[CHOOSE n \in DOMAIN items : items[n].id = id]
Executables(items) == {id \in Ids(items) : ItemOf(items, id).executable}
Parent(item) == IF item.parent = 0 THEN {} ELSE {item.parent}

\* Mutant: parents do not come before what they hold.
NoParents(items, id) == ItemOf(items, id).deps

\* What canonical_item_ids and _validate_graph put before an item.
Prerequisites(items, id) == ItemOf(items, id).deps \cup Parent(ItemOf(items, id))

\* _validate_graph: no id twice, no unknown item, nothing that refers to itself,
\* no cycle (a set of items that each wait for another of the set).
GraphValid(items) ==
    /\ \A m, n \in DOMAIN items : items[m].id = items[n].id => m = n
    /\ \A id \in Ids(items) : Prerequisites(items, id) \subseteq Ids(items) \ {id}
    /\ \A waiting \in (SUBSET Ids(items)) \ {{}} :
          \E id \in waiting : Prerequisites(items, id) \cap waiting = {}

\* _item: schema 2 asks more of executable items.
ItemComplete(item) == "incomplete" \notin item.flaws

\* proposal_from_document
Parses(items) ==
    /\ items # <<>>
    /\ \A n \in DOMAIN items : ItemComplete(items[n])
    /\ GraphValid(items)

Placed(items, n) == {items[k].id : k \in 1..(n - 1)}

\* The heap of canonical_item_ids: what waits for nothing but what was placed.
Heap(items, n) ==
    {id \in Ids(items) \ Placed(items, n) : Prerequisites(items, id) \subseteq Placed(items, n)}

\* canonical_item_ids: the least item of the heap is always the next.
InCanonicalOrder(items) ==
    \A n \in DOMAIN items :
        items[n].id \in Heap(items, n) /\ \A id \in Heap(items, n) : items[n].id <= id

\* _measurable and the uniqueness of criteria, of the items people will build.
Measurable(items) ==
    \A n \in DOMAIN items :
        items[n].executable => items[n].flaws \cap {"repeatsCriterion", "vague"} = {}

\* _infrastructure_order: a setup task is labelled so and names what it sets up.
SetsUp(item, name) == item.executable /\ item.infrastructure /\ name \in item.mentions \cup item.needs

\* Through dependencies only: what a parent waits for does not count.
Ancestors(items, id) ==
    {a \in Ids(items) : \A found \in SUBSET Ids(items) :
        ItemOf(items, id).deps \cup UNION {ItemOf(items, f).deps : f \in found} \subseteq found
            => a \in found}

InfrastructureOrdered(p) ==
    \A name \in p.bootstrap :
        LET setups == {id \in Ids(p.items) : SetsUp(ItemOf(p.items, id), name)}
        IN  /\ setups # {}
            /\ \A id \in Executables(p.items) \ setups :
                  name \in ItemOf(p.items, id).needs => Ancestors(p.items, id) \cap setups # {}

-----------------------------------------------------------------------------
\* normalized_requirements; architecture with _references.
RequirementsValid(p) == p.ids # {}
ArchitectureValid(p) == p.complete /\ p.cites \subseteq p.ids

\* PlanningArtifactSchemas.backlog: unknown names of requirements are refused,
\* and items that are not executable count for coverage.
BacklogValid(p) ==
    /\ Parses(p.items) /\ Executables(p.items) # {}
    /\ InCanonicalOrder(p.items)
    /\ \A n \in DOMAIN p.items :
          /\ p.items[n].executable => p.items[n].refs \cap p.ids # {}
          /\ p.items[n].refs \cap RequirementNames \subseteq p.ids
    /\ Measurable(p.items)
    /\ p.ids \subseteq UNION {p.items[n].refs : n \in DOMAIN p.items}
    /\ InfrastructureOrdered(p)

\* _validate_semantics: each role's answer is held to those before it; an answer
\* that fails every attempt ends the run of the plan.
Answer(at, valid, next) ==
    /\ stage = at
    /\ stage' = IF valid THEN next ELSE "refused"
    /\ UNCHANGED <<proposal, built>>

AnalystAnswers == Answer("requirements", RequirementsValid(proposal), "architecture")
ArchitectAnswers == Answer("architecture", ArchitectureValid(proposal), "backlog")
PlannerAnswers == Answer("backlog", BacklogValid(proposal), "review")
ReviewerAnswers == Answer("review", TRUE, "planned")

\* evaluate: what stands against an item. An executable item refers to a
\* requirement, and every item to nothing outside the source.
ItemBlocks(p, item) ==
    \/ item.flaws \cap {"repeatsDependency", "repeatsCriterion"} # {}
    \/ /\ item.executable
       /\ \/ item.flaws \cap {"priority", "vague"} # {}
          \/ item.refs \cap p.ids = {}
          \/ ~(item.refs \subseteq p.ids \cup SourceRoots)

\* evaluate: what stands against a finding of the reviewer.
FindingBlocks(f) ==
    \/ ~f.known
    \/ f.status # "RESOLVED" /\ ~f.shown
    \/ f.status = "OPEN" /\ f.severe

\* evaluate: only executable items cover a requirement.
Evaluates(p) ==
    /\ RequirementsValid(p) /\ p.ids \subseteq p.traced
    /\ ArchitectureValid(p)
    /\ Parses(p.items) /\ InCanonicalOrder(p.items)
    /\ \A n \in DOMAIN p.items : ~ItemBlocks(p, p.items[n])
    /\ p.ids \subseteq UNION {ItemOf(p.items, id).refs : id \in Executables(p.items)}
    /\ InfrastructureOrdered(p)
    /\ p.verdict = "READY"
    /\ \A f \in p.findings : ~FindingBlocks(f)

VerifyProposal ==
    /\ stage = "planned"
    /\ stage' = IF Evaluates(proposal) THEN "approved" ELSE "blocked"
    /\ UNCHANGED <<proposal, built>>

-----------------------------------------------------------------------------
Delivered == {built[n] : n \in DOMAIN built}

\* items and _unsatisfied_dependencies: only executable items have to be done.
ReadyItem(id) ==
    id \notin Delivered /\ ItemOf(proposal.items, id).deps \cap Executables(proposal.items) \subseteq Delivered

\* prepare_next_child: the first item that is ready, in the order of the rows.
Deliver ==
    /\ stage = "approved"
    /\ \E n \in DOMAIN proposal.items :
          LET eligible(k) == proposal.items[k].executable /\ ReadyItem(proposal.items[k].id)
          IN  /\ eligible(n) /\ \A k \in 1..(n - 1) : ~eligible(k)
              /\ built' = Append(built, proposal.items[n].id)
    /\ UNCHANGED <<proposal, stage>>

PRNext ==
    \/ AnalystAnswers \/ ArchitectAnswers \/ PlannerAnswers \/ ReviewerAnswers \/ VerifyProposal
    \/ Deliver

PRSpec == PRInit /\ [][PRNext]_prvars

-----------------------------------------------------------------------------
\* Orders of the items in which nothing comes before what it stands on.
Orders(items) ==
    {o \in [DOMAIN items -> Ids(items)] :
        /\ \A id \in Ids(items) : \E n \in DOMAIN items : o[n] = id
        /\ \A m, n \in DOMAIN items :
              o[n] \in ItemOf(items, o[m]).deps \cup Parent(ItemOf(items, o[m])) => n < m}

Before(o, p) == \E n \in DOMAIN o : o[n] < p[n] /\ \A k \in 1..(n - 1) : o[k] = p[k]

\* A plan that people are asked to approve can be carried out as it stands: its
\* items are in the one order that any two planners would give them (the least
\* that respects dependencies and parents), every requirement has work behind it,
\* the delivery never runs out of ready items before all are done, and nothing is
\* built before the infrastructure it needs was set up.
ApprovedCanBeBuilt ==
    stage = "approved" =>
        /\ LET order == [n \in DOMAIN proposal.items |-> proposal.items[n].id]
           IN  order \in Orders(proposal.items) /\ \A o \in Orders(proposal.items) : ~Before(o, order)
        /\ \A r \in proposal.ids : \E id \in Executables(proposal.items) : r \in ItemOf(proposal.items, id).refs
        /\ Delivered # Executables(proposal.items) => \E id \in Executables(proposal.items) : ReadyItem(id)
        /\ \A n \in DOMAIN built, name \in proposal.bootstrap :
              name \in ItemOf(proposal.items, built[n]).needs =>
                  \E k \in 1..n : SetsUp(ItemOf(proposal.items, built[k]), name)
=============================================================================
