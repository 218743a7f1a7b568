------------------------------ MODULE MCAblation -------------------------------
(***************************************************************************)
(* The gateway's threads with one sensor, and the experiment's counter.    *)
(***************************************************************************)
EXTENDS Ablation
=============================================================================
