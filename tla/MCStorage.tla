------------------------------- MODULE MCStorage -------------------------------
(***************************************************************************)
(* Storage with two callers.  The second frame starts a new hour.          *)
(***************************************************************************)
EXTENDS Storage

MCHourOf == [f \in 1 .. MaxFrames |-> IF f = 2 THEN 2 ELSE 1]
=============================================================================
