----------------------------- MODULE MCAggregation -----------------------------
(***************************************************************************)
(* Aggregation with two workers: readings alternate between them.          *)
(***************************************************************************)
EXTENDS Aggregation

MCHash == [r \in 1 .. Readings |-> 1 + (r % 2)]
=============================================================================
