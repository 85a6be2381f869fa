-------------------------------- MODULE MCWifi --------------------------------
(***************************************************************************)
(* Wifi for TLC: one retry before the watchdog takes over, two access      *)
(* point configurations.                                                   *)
(***************************************************************************)
EXTENDS Wifi
===============================================================================
