--------------------------- MODULE MCDeliveryRetry ---------------------------
(* Small instances of DeliveryRetry: two workers and two channels.           *)
EXTENDS DeliveryRetry

CONSTANTS w1, w2, c1, c2
=============================================================================
