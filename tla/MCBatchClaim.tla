---------------------------- MODULE MCBatchClaim ----------------------------
(* A small instance of BatchClaim: two workers and two rows of one batch,   *)
(* the second folded into the first when a read finds both.                *)
EXTENDS BatchClaim

CONSTANTS w1, w2, b1

OneBatch    == [r \in Row |-> b1]
SecondFolds == [r \in Row |-> IF r = 2 THEN 1 ELSE r]
=============================================================================
