-------------------------------- MODULE Ablation --------------------------------
(***************************************************************************)
(* The gateway of the ablation experiment (Ablation experiment/gateway):   *)
(* the threads of Gateway, and a counter of "lost" readings its report is  *)
(* made of.  The storage, aggregation, governor and buffer of the          *)
(* experiment are copies of the gateway's; its main differs by what        *)
(* follows, by a sleep of 10 microseconds in a turn, and by taking sensor  *)
(* rate, buffer capacity, workers and sleeps from the environment.         *)
(*                                                                         *)
(* The counter steers nothing, so a behaviour of Gateway is one of this    *)
(* module without it: what holds here of Gateway's variables holds there.  *)
(***************************************************************************)
EXTENDS Gateway

VARIABLE lost   \* SENSOR_LOST_READINGS, of all sensors

ablationVars == <<vars, lost>>

\* get_overflow_threshold gives the same for every sensor.
OverflowThreshold == 0

\* Mutant: what is left after the turn is counted, too.
CountedTwice(r) ==
  IF rpc[r] \in {"flag", "join_in_flag", "status"} /\ rpc'[r] \in {"read", "commands"}
  THEN ring[r] - OverflowThreshold ELSE 0

\* A turn's available_before, taken between the test of the flag and the loop
\* that empties the ring, counts as lost as far as it is over the threshold.
Counted(r) ==
  IF rpc[r] \in {"flag", "join_in_flag"} /\ rpc'[r] = "read"
  THEN ring[r] - OverflowThreshold ELSE 0

Turn(r) == Reader(r) /\ lost' = lost + Counted(r)

GeneratorOrStage ==
  /\ \/ \E r \in Readers : Generator(r)
     \/ SchedulerEnds \/ Dispatcher \/ Consumer
     \/ Signal \/ Main
     \/ Terminated
  /\ UNCHANGED lost

AblationInit == Init /\ lost = 0

AblationNext == (\E r \in Readers : Turn(r)) \/ GeneratorOrStage

AblationSpec == AblationInit /\ [][AblationNext]_ablationVars

\* The counter does not hold a thread up: the fairness is the gateway's.
AblationFairSpec == AblationSpec /\ Fairness

-----------------------------------------------------------------------------
\* What main reports at the end.
TotalPushed == buf + popped
TotalGenerated == TotalPushed + lost
LostTotal == lost + (TotalPushed - popped)

\* No reading is counted twice, and what was counted is read and pushed
\* afterwards, unless a push is refused: the ring may give up the counted
\* readings for newer ones, but holds no fewer until the reader comes.  So the
\* "data loss rate" of a run in which no stage failed is at most one half - and
\* may be that when every reading was delivered.
CountedIsRead ==
  LET toRead == [r \in Readers |-> InHand(r)
                   + IF rpc[r] \in {"read", "push"} THEN ring[r] ELSE 0]
  IN  /\ (\A r \in Readers : refused[r] = 0) => lost <= TotalPushed + Total(toRead)
      /\ mpc = "done" /\ ~failed => 2 * LostTotal <= TotalGenerated
=============================================================================
