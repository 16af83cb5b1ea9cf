-------------------------- MODULE MCUnitScheduler --------------------------
(* Three tenants on one replica that has slots for two of them: a runs a    *)
(* sweep of one job and two units of another, b and c a sweep each; the     *)
(* sweeps would use more workers than a tenant may.                         *)
EXTENDS UnitScheduler

CONSTANTS a, b, c, aSweep, aUnit, aUnit2, bSweep, cSweep

RequestsOf == [r \in Request |-> CASE r \in {aSweep, aUnit, aUnit2} -> a
                                   [] r = bSweep -> b
                                   [] OTHER -> c]
Wants == [r \in Request |-> IF r \in {aSweep, bSweep, cSweep} THEN 5 ELSE 1]
=============================================================================
