------------------------------- MODULE MCQueries -------------------------------
(***************************************************************************)
(* Queries with one caller of persist_frame.  The second frame starts a    *)
(* new hour, and the clock is set back for the third; or all frames are of *)
(* one hour.                                                               *)
(***************************************************************************)
EXTENDS Queries

MCHourOf == [f \in 1 .. MaxFrames |-> IF f = 2 THEN 2 ELSE 1]

MCOneHour == [f \in 1 .. MaxFrames |-> 1]

MCRequests ==
  {[kind |-> k, first |-> 1, last |-> MaxFrames] : k \in Kinds \ {"window"}}
    \cup {[kind |-> "window", first |-> 0, last |-> 0]}
=============================================================================
