--------------------------- MODULE MCMissionControl ---------------------------
(* Two operations, one of them the child's; the first is executed again after *)
(* it was killed.                                                             *)
EXTENDS MissionControl, TLC

CONSTANTS a, b, r1, r2, r3, c1, c2, c3

MCDoes == [r \in Runners |-> IF r = r3 THEN b ELSE a]
Alike == Permutations(Commands)
=============================================================================
