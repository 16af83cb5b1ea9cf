---------------------------- MODULE MCSensorPlan ----------------------------
(* Small instances of SensorPlan: two deliveries, hence at most two         *)
(* dispatches, one sweeper, and one or two addresses of one target.         *)
EXTENDS SensorPlan

CONSTANTS m1, m2, s1, t1, u1, u2

OneTarget == [u \in Unit |-> t1]
=============================================================================
