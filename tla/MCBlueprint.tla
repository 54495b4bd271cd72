------------------------------- MODULE MCBlueprint -------------------------------
(* An intake in whose sources two active ones differ, with a risk, and drafts *)
(* of which one is traced.                                                     *)
EXTENDS BlueprintLifecycle

MCSource(key, content) == [key |-> key, subject |-> "scope", authority |-> "authoritative",
                           content |-> content, superseded |-> FALSE]
MCIntake == [sources |-> {MCSource("brief", "a"), MCSource("mail", "b")},
             findings |-> {[kind |-> "high_risk", detail |-> "data loss"]}]

MCDecision(section, risks) ==
    [section |-> section, sources |-> {"brief", "mail"}, risks |-> risks,
     assumptions |-> {"local"}, alternatives |-> {"cloud"}]
MCDraft(risks, changed, impact) ==
    [decisions |-> {MCDecision(s, risks) : s \in RequiredSections},
     assumptions |-> {"local"}, alternatives |-> {"cloud"}, changed |-> changed, impact |-> impact]
MCDrafts == {MCDraft({"data loss"}, {"tools"}, {"tools"}), MCDraft({}, {"tools"}, {"tools"}),
             MCDraft({"data loss"}, {"tools", "budgets"}, {"tools"})}
=============================================================================
