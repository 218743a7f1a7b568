------------------------------- MODULE MCControl -------------------------------
(***************************************************************************)
(* Control with a coarse governor: ratios in quarters, sleeps of a few     *)
(* units, thresholds in the order of the defaults.                         *)
(***************************************************************************)
EXTENDS Control

MCGiven ==
  [min_sleep |-> 2, nominal_sleep |-> 3, max_sleep |-> 6,
   low |-> 0, target |-> 1, high |-> 2, alpha |-> 2,
   soft |-> 2, hard |-> 4, step_up |-> 1, step_down |-> 1,
   kp |-> 4, ki |-> 8, integral_limit |-> 1]
=============================================================================
