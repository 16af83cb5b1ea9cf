-------------------------- MODULE MCEvalCoalescers --------------------------
(* Small instances of EvalCoalescers: two requests for an asset, or none,    *)
(* and two callers for its tenant.                                           *)
EXTENDS EvalCoalescers

CONSTANTS q1, q2, k1, k2
=============================================================================
