------------------------------- MODULE MCDevice -------------------------------
(* Instances of Device: one relay interval of two ticks, uploads of up to two
   reads, two faults. *)
EXTENDS Device
=============================================================================
