----------------------------- MODULE MCRoundQueue -----------------------------
(***************************************************************************)
(* RoundQueue with a ring of four slots, which wraps around twice.         *)
(***************************************************************************)
EXTENDS RoundQueue
=============================================================================
