------------------------------- MODULE MCSensor -------------------------------
(***************************************************************************)
(* A sensor with a ring of four slots, which wraps around, started twice.  *)
(***************************************************************************)
EXTENDS Sensor
=============================================================================
