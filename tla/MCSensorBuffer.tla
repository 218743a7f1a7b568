---------------------------- MODULE MCSensorBuffer ----------------------------
(***************************************************************************)
(* SensorBuffer on small sets of threads.  Threads of one role are         *)
(* interchangeable, but the temporal properties rule a symmetry set out.   *)
(***************************************************************************)
EXTENDS SensorBuffer
=============================================================================
