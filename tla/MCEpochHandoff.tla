---------------------------- MODULE MCEpochHandoff ----------------------------
(* Handoffs killed at any step, one operation, and an owner who sends commands *)
(* meanwhile.                                                                  *)
EXTENDS EpochHandoff, TLC

CONSTANTS a, r1, r2, c1, c2, h1, h2, x1, x2, x3, s1, s2, u1, u2

MCDoes == [r \in Runners |-> a]
MCOf == [x \in Activities |-> IF x = x3 THEN h2 ELSE h1]
MCStopOf == [h \in Handoffs |-> IF h = h1 THEN s1 ELSE s2]
MCResumeOf == [h \in Handoffs |-> IF h = h1 THEN u1 ELSE u2]
=============================================================================
