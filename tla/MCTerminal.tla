------------------------------ MODULE MCTerminal ------------------------------
(***************************************************************************)
(* Terminal for TLC: three sockets and client entries for three            *)
(* connections, so that socket numbers are reused while other terminals    *)
(* stay open; one session slot for two logins, so that a login evicts;     *)
(* half-second ticks, so that the one-second throttle and the whole        *)
(* seconds of auth.c do not coincide.                                      *)
(***************************************************************************)
EXTENDS Terminal, TLC

Symm == Permutations(Fds)
===============================================================================
