----------------------------- MODULE MCPlanJob -----------------------------
(* Small instances of PlanJob: two runs on a replica each, and one or     *)
(* two addresses of one target.                                             *)
EXTENDS PlanJob, TLC

CONSTANTS r1, r2, p1, p2, t1, u1, u2

\* Each run on a replica of its own.
HomeApart == [r \in Run |-> IF r = r1 THEN p1 ELSE p2]

OneTarget == [u \in Unit |-> t1]
=============================================================================
