-------------------------------- MODULE MCAuth --------------------------------
(***************************************************************************)
(* Auth for TLC: two session slots and three logins, so that slots are     *)
(* reused, expire and are evicted; two counters for three addresses, so    *)
(* that entries are recycled, also while every one is locked out.          *)
(***************************************************************************)
EXTENDS Auth, TLC

Symm == Permutations(Addrs)
===============================================================================
