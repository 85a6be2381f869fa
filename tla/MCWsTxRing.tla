------------------------------ MODULE MCWsTxRing ------------------------------
(***************************************************************************)
(* WsTxRing for TLC: two producers, a ring of two slots and indices that   *)
(* wrap after four, so that the ring fills, both indices wrap, payloads    *)
(* are cut and every wake-up races another producer within a few steps.    *)
(***************************************************************************)
EXTENDS WsTxRing
===============================================================================
