-------------------------------- MODULE MCBench --------------------------------
(***************************************************************************)
(* A sweep has a buffer too small for what a raised flag leaves behind,    *)
(* then one that just holds it.                                            *)
(***************************************************************************)
EXTENDS Bench

MCGrids == [c \in Commands |-> IF c \in Sweeps THEN <<3, 4>> ELSE <<4>>]
=============================================================================
