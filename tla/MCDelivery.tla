----------------------------- MODULE MCDelivery -----------------------------
(***************************************************************************)
(* A small delivery for TLC: two files and one the policy refuses.         *)
(***************************************************************************)
EXTENDS DeliveryProps

CONSTANTS f1, f2, env
=============================================================================
