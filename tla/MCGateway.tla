------------------------------- MODULE MCGateway -------------------------------
(***************************************************************************)
(* The gateway's threads with two sensors.                                 *)
(***************************************************************************)
EXTENDS Gateway
=============================================================================
