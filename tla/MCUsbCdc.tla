------------------------------- MODULE MCUsbCdc -------------------------------
(***************************************************************************)
(* The hot-plugged port on a small instance: a queue that fills, and three *)
(* devices in turn, so that a connect that is already out of date opens a  *)
(* later device.                                                           *)
(***************************************************************************)
EXTENDS UsbCdc
===============================================================================
