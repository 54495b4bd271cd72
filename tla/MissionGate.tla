------------------------------ MODULE MissionGate ------------------------------
(***************************************************************************)
(* What the mission-wide scheduling fence promises, without tokens, leases *)
(* or commands.  Work enters while the mission runs.  A pause keeps new    *)
(* work out and lets the rest finish; a stop is lifted, and the epoch      *)
(* replaced, only when nothing that was let in is still at work.           *)
(***************************************************************************)
EXTENDS Naturals

CONSTANT Workers

VARIABLES
    gate,       \* "open", "held" by a pause or "shut" by a stop
    inside,     \* the work under way
    age         \* the number of the execution epoch

vars == <<gate, inside, age>>

Init == gate = "open" /\ inside = {} /\ age = 1

Enter(w) == gate = "open" /\ inside' = inside \cup {w} /\ UNCHANGED <<gate, age>>

Leave(w) == inside' = inside \ {w} /\ UNCHANGED <<gate, age>>

Turn ==
    /\ \/ gate = "open" /\ gate' \in {"held", "shut"}
       \/ gate = "held" /\ gate' \in {"open", "shut"}
       \/ gate = "shut" /\ gate' = "open" /\ inside = {}
    /\ UNCHANGED <<inside, age>>

Replace ==
    /\ gate = "shut" /\ inside = {}
    /\ age' = age + 1
    /\ UNCHANGED <<gate, inside>>

Next == (\E w \in Workers : Enter(w) \/ Leave(w)) \/ Turn \/ Replace

Spec == Init /\ [][Next]_vars
=============================================================================
