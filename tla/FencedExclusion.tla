--------------------------- MODULE FencedExclusion ---------------------------
(***************************************************************************)
(* What the scheduler's leases promise, stated without tables, clocks or   *)
(* statuses.  A grant is a token and the scope it protects.  Grants that   *)
(* are outstanding at the same time have disjoint scopes, tokens only ever *)
(* grow, and a write is accepted only from an outstanding grant whose      *)
(* scope no newer grant has written to.  Grants may be lost at any moment, *)
(* also in the very step that grants or writes (a lease expires when the   *)
(* next transaction looks at the clock).                                   *)
(***************************************************************************)
EXTENDS Integers

CONSTANTS
    Domains,        \* what a grant can protect
    Scopes,         \* the scopes a grant may cover, a set of sets of domains
    Overlap(_, _)   \* when two domains contend

VARIABLES
    granted,        \* the outstanding grants
    issued,         \* every token issued so far
    high            \* the newest token that wrote to each domain

vars == <<granted, issued, high>>

Contend(s, r) == \E d \in s, e \in r : Overlap(d, e)

Init ==
    /\ granted = {}
    /\ issued = {}
    /\ high = [d \in Domains |-> 0]

\* A fresh token for a scope that contends with none of the grants kept.
Grant(kept) ==
    /\ \E new \in granted' :
          /\ new \in [token : Nat, scope : Scopes]
          /\ \A i \in issued : i < new.token
          /\ \A g \in kept : ~Contend(new.scope, g.scope)
          /\ granted' = kept \cup {new}
          /\ issued' = issued \cup {new.token}
    /\ UNCHANGED high

\* A write by one of the grants kept, never behind a newer one.
Write(kept) ==
    /\ \E g \in kept :
          /\ \A d \in g.scope, e \in Domains : Overlap(d, e) => high[e] <= g.token
          /\ high' = [d \in Domains |-> IF d \in g.scope THEN g.token ELSE high[d]]
    /\ granted' = kept
    /\ UNCHANGED issued

Lose(kept) ==
    /\ granted' = kept
    /\ UNCHANGED <<issued, high>>

Next == \E kept \in SUBSET granted : Grant(kept) \/ Write(kept) \/ Lose(kept)

Spec == Init /\ [][Next]_vars
=============================================================================
