------------------------------- MODULE WindowLog -------------------------------
(***************************************************************************)
(* What aggregation promises to those who read its frames                  *)
(* (docs/report_azure.tex 130), without a worker, a message or a report to *)
(* be late: frames are windows of the readings, in the order in which they *)
(* were pushed.  A frame begins with the first reading no frame has yet    *)
(* and ends with any that has been pushed, is numbered with the place it   *)
(* has, and waits in a channel that holds so many.  The log may end at any *)
(* frame; nothing is ever left out before that.                            *)
(***************************************************************************)
EXTENDS Naturals, Sequences

CONSTANT OutCap      \* cfg.output_capacity

VARIABLES
  fed,               \* readings pushed: 1 .. fed
  frames,            \* frames published, in order
  taken              \* frames the consumer has received

Covered == UNION {frames[k].readings : k \in DOMAIN frames}

Init == fed = 0 /\ frames = <<>> /\ taken = 0

Push == fed' = fed + 1 /\ UNCHANGED <<frames, taken>>

Emit ==
  /\ Len(frames) - taken < OutCap
  /\ \E c \in 0 .. fed : \E m \in c .. fed :
       /\ Covered = 1 .. c
       /\ frames' = Append(frames, [id |-> Len(frames), readings |-> c + 1 .. m])
  /\ UNCHANGED <<fed, taken>>

Take == taken < Len(frames) /\ taken' = taken + 1 /\ UNCHANGED <<fed, frames>>

Next == Push \/ Emit \/ Take

Spec == Init /\ [][Next]_<<fed, frames, taken>>
=============================================================================
