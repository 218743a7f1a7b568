--------------------------------- MODULE Bench ---------------------------------
(***************************************************************************)
(* azure_bench (gateway/src/bin/azure_bench.rs): experiments that run the  *)
(* buffer between logical sensors, whose ring is a counter, and a          *)
(* consumer, and write what they counted to a file.                        *)
(*                                                                         *)
(* Sleeps may take any time, so a governor that chooses how long (policy   *)
(* "adaptive", and gov_trace) makes no difference here.  A ring counter is *)
(* loaded, then added to; the buffer, never shut down here, is what        *)
(* BoundedChannel allows.                                                  *)
(***************************************************************************)
EXTENDS Naturals, Sequences, FiniteSets, FiniteSetsExt

CONSTANTS
  Sensors,
  RingCap,     \* RING_CAP
  Grids,       \* per command: the buffer capacities it goes through
  MaxMade      \* readings generated in one run: bounds it

Sweeps == {"sweep-pareto", "sweep-load", "sweep-governor"}
Commands == Sweeps \cup {"gov-trace", "zero-loss"}

ASSUME BenchAssumption ==
  /\ IsFiniteSet(Sensors)
  /\ RingCap \in Nat \ {0} /\ MaxMade \in Nat
  /\ \A c \in Commands : Grids[c] \in Seq(Nat \ {0}) /\ Grids[c] # <<>>
  /\ \A c \in Commands \ Sweeps : Len(Grids[c]) = 1

VARIABLES
  command,              \* the first argument
  mpc,                  \* main: "begin", "spawn", "measure", "join", "write" or "done"
  run,                  \* the run of the grid that is under way
  file,                 \* rows in the experiment's file; 0: of an earlier experiment
  stop,
  avail, spc, made,     \* per sensor: ring counter, its thread, readings generated
  overwrites,
  rpc, cur,             \* per sensor: its reader, and the count it loaded
  buf, watermark, popped, \* the buffer and its metrics
  cpc                   \* the consumer

mainVars == <<command, mpc, run, file>>
sensorVars == <<avail, spc, made, overwrites>>
readerVars == <<rpc, cur>>
bufferVars == <<buf, watermark, popped>>
vars == <<mainVars, stop, sensorVars, readerVars, bufferVars, cpc>>

Grid == Grids[command]
Capacity == Grid[run]
Put(f, s, v) == [f EXCEPT ![s] = v]
Total(f) == MapThenSumSet(LAMBDA s : f[s], Sensors)

-----------------------------------------------------------------------------
\* A sensor: look at the flag, load the counter, add to it, sleep.

SensorCheck(s) ==
  /\ spc[s] = "check"
  /\ \/ stop /\ spc' = Put(spc, s, "exited")
     \/ ~stop /\ Total(made) < MaxMade /\ spc' = Put(spc, s, "load")
  /\ UNCHANGED <<mainVars, stop, avail, made, overwrites, readerVars, bufferVars, cpc>>

SensorLoad(s) ==
  /\ spc[s] = "load"
  /\ spc' = Put(spc, s, IF avail[s] < RingCap THEN "add" ELSE "overwrite")
  /\ UNCHANGED <<mainVars, stop, avail, made, overwrites, readerVars, bufferVars, cpc>>

\* Mutant: the flag is looked at only after the sensor's last reading.
SensorAddGoesOn(s) ==
  /\ spc[s] \in {"add", "overwrite"}
  /\ IF spc[s] = "add"
     THEN avail' = Put(avail, s, avail[s] + 1) /\ UNCHANGED overwrites
     ELSE overwrites' = overwrites + 1 /\ UNCHANGED avail
  /\ made' = Put(made, s, made[s] + 1)
  /\ spc' = Put(spc, s, IF Total(made') < MaxMade THEN "load" ELSE "check")
  /\ UNCHANGED <<mainVars, stop, readerVars, bufferVars, cpc>>

SensorAdd(s) ==
  /\ spc[s] \in {"add", "overwrite"}
  /\ IF spc[s] = "add"
     THEN avail' = Put(avail, s, avail[s] + 1) /\ UNCHANGED overwrites
     ELSE overwrites' = overwrites + 1 /\ UNCHANGED avail
  /\ made' = Put(made, s, made[s] + 1)
  /\ spc' = Put(spc, s, "check")
  /\ UNCHANGED <<mainVars, stop, readerVars, bufferVars, cpc>>

Sensor(s) == SensorCheck(s) \/ SensorLoad(s) \/ SensorAdd(s)

-----------------------------------------------------------------------------
\* A reader: leave, or sleep and empty the ring into the buffer.

\* Mutant: the flag is enough to leave.
ReaderTopOnFlag(s) ==
  /\ rpc[s] = "top"
  /\ rpc' = Put(rpc, s, IF stop THEN "exited" ELSE "loop")
  /\ UNCHANGED <<mainVars, stop, sensorVars, cur, bufferVars, cpc>>

ReaderTop(s) ==
  /\ rpc[s] = "top"
  /\ rpc' = Put(rpc, s, IF stop /\ avail[s] = 0 THEN "exited" ELSE "loop")
  /\ UNCHANGED <<mainVars, stop, sensorVars, cur, bufferVars, cpc>>

\* Nobody else takes from the counter, so the second load is not zero either.
ReaderLoad(s) ==
  /\ rpc[s] = "loop"
  /\ IF avail[s] = 0
     THEN rpc' = Put(rpc, s, "top") /\ UNCHANGED cur
     ELSE rpc' = Put(rpc, s, "cas") /\ cur' = Put(cur, s, avail[s])
  /\ UNCHANGED <<mainVars, stop, sensorVars, bufferVars, cpc>>

\* Mutant: a store in place of the compare-and-exchange.
ReaderStore(s) ==
  /\ rpc[s] = "cas"
  /\ avail' = Put(avail, s, cur[s] - 1)
  /\ rpc' = Put(rpc, s, "push")
  /\ cur' = Put(cur, s, 0)
  /\ UNCHANGED <<mainVars, stop, spc, made, overwrites, bufferVars, cpc>>

\* compare_exchange_weak, which may fail for no reason.
ReaderCas(s) ==
  /\ rpc[s] = "cas"
  /\ \/ /\ avail[s] = cur[s]
        /\ avail' = Put(avail, s, cur[s] - 1)
        /\ rpc' = Put(rpc, s, "push")
     \/ rpc' = Put(rpc, s, "loop") /\ UNCHANGED avail
  /\ cur' = Put(cur, s, 0)
  /\ UNCHANGED <<mainVars, stop, spc, made, overwrites, bufferVars, cpc>>

\* buf.push waits while the buffer is full.
ReaderPush(s) ==
  /\ rpc[s] = "push"
  /\ buf < Capacity
  /\ buf' = buf + 1
  /\ watermark' = Max({watermark, buf + 1})
  /\ rpc' = Put(rpc, s, "loop")
  /\ UNCHANGED <<mainVars, stop, sensorVars, cur, popped, cpc>>

Reader(s) == ReaderTop(s) \/ ReaderLoad(s) \/ ReaderCas(s) \/ ReaderPush(s)

-----------------------------------------------------------------------------
\* The consumer: while !stop || len() > 0, pop_timeout.

\* Mutant: the consumer waits for as many readings as were generated.
ConsumerCheckAll ==
  /\ cpc = "check"
  /\ cpc' = IF stop /\ popped = Total(made) THEN "exited" ELSE "pop"
  /\ UNCHANGED <<mainVars, stop, sensorVars, readerVars, bufferVars>>

ConsumerCheck ==
  /\ cpc = "check"
  /\ cpc' = IF stop /\ buf = 0 THEN "exited" ELSE "pop"
  /\ UNCHANGED <<mainVars, stop, sensorVars, readerVars, bufferVars>>

ConsumerPop ==
  /\ cpc = "pop"
  /\ IF buf > 0 THEN buf' = buf - 1 /\ popped' = popped + 1 ELSE UNCHANGED <<buf, popped>>
  /\ cpc' = "check"
  /\ UNCHANGED <<mainVars, stop, sensorVars, readerVars, watermark>>

Consumer == ConsumerCheck \/ ConsumerPop

-----------------------------------------------------------------------------
\* The experiment.

Begin ==
  /\ mpc = "begin"
  /\ mpc' = "spawn"
  /\ file' = IF command \in Sweeps THEN <<>> ELSE file
  /\ UNCHANGED <<command, run, stop, sensorVars, readerVars, bufferVars, cpc>>

\* run_micro: a new buffer, new counters, new threads.
Fresh ==
  /\ stop' = FALSE
  /\ avail' = [s \in Sensors |-> 0] /\ spc' = [s \in Sensors |-> "check"]
  /\ made' = [s \in Sensors |-> 0] /\ overwrites' = 0
  /\ rpc' = [s \in Sensors |-> "top"] /\ cur' = [s \in Sensors |-> 0]
  /\ buf' = 0 /\ watermark' = 0 /\ popped' = 0
  /\ cpc' = "check"

Spawn == mpc = "spawn" /\ mpc' = "measure" /\ Fresh /\ UNCHANGED <<command, run, file>>

\* The duration is over.
RaiseStop ==
  /\ mpc = "measure"
  /\ mpc' = "join"
  /\ stop' = TRUE
  /\ UNCHANGED <<command, run, file, sensorVars, readerVars, bufferVars, cpc>>

AllEnded ==
  /\ \A s \in Sensors : spc[s] = "exited" /\ rpc[s] = "exited"
  /\ cpc = "exited"

JoinAll ==
  /\ mpc = "join"
  /\ AllEnded
  /\ mpc' = "write"
  /\ UNCHANGED <<command, run, file, stop, sensorVars, readerVars, bufferVars, cpc>>

\* write_line, or the whole file at once; then the next run of the grid.
WriteRow ==
  /\ mpc = "write"
  /\ file' = IF command \in Sweeps THEN Append(file, run) ELSE <<run>>
  /\ IF run < Len(Grid) THEN mpc' = "spawn" /\ run' = run + 1
                        ELSE mpc' = "done" /\ UNCHANGED run
  /\ UNCHANGED <<command, stop, sensorVars, readerVars, bufferVars, cpc>>

Main == Begin \/ Spawn \/ RaiseStop \/ JoinAll \/ WriteRow

-----------------------------------------------------------------------------
\* No thread yet; the file may be there from an earlier experiment.
Init ==
  /\ command \in Commands
  /\ mpc = "begin" /\ run = 1 /\ file \in {<<>>, <<0>>}
  /\ stop = FALSE
  /\ avail = [s \in Sensors |-> 0] /\ spc = [s \in Sensors |-> "exited"]
  /\ made = [s \in Sensors |-> 0] /\ overwrites = 0
  /\ rpc = [s \in Sensors |-> "exited"] /\ cur = [s \in Sensors |-> 0]
  /\ buf = 0 /\ watermark = 0 /\ popped = 0
  /\ cpc = "exited"

Next == (\E s \in Sensors : Sensor(s) \/ Reader(s)) \/ Consumer \/ Main

\* Every thread goes on; a compare-and-exchange does not fail for ever.
Fairness ==
  /\ WF_vars(Main) /\ WF_vars(Consumer)
  /\ \A s \in Sensors :
       /\ WF_vars(Sensor(s)) /\ WF_vars(Reader(s))
       /\ SF_vars(ReaderCas(s) /\ rpc'[s] = "push")

Spec == Init /\ [][Next]_vars /\ Fairness

-----------------------------------------------------------------------------
InHand(s) == IF rpc[s] = "push" THEN 1 ELSE 0

\* What a row counts adds up, whatever was between a load and an add: readings
\* generated are overwritten, in the ring, with a reader, in the buffer, or popped.
RowAddsUp ==
  Total(made) = overwrites + Total([s \in Sensors |-> avail[s] + InHand(s)]) + buf + popped

\* When the row is written a ring holds one reading at most: that of a sensor
\* that had looked at the flag before it was raised, and added to the ring
\* after its reader had left.  Neither the overwrites nor the throughput count it.
OneLeftAtMost ==
  mpc = "write" => \A s \in Sensors : avail[s] <= 1

\* The consumer has left, on a raised flag and an empty buffer, before the
\* readers filled the buffer again: they wait for ever, and main for them.
Stuck == cpc = "exited" /\ buf = Capacity /\ \E s \in Sensors : rpc[s] = "push"

\* That takes a buffer that cannot hold what is left then: a full ring, the
\* reading in the reader's hand and one that the sensor still adds, per sensor.
RoomyIsNeverStuck ==
  Capacity >= Cardinality(Sensors) * (RingCap + 2) => ~(mpc = "join" /\ Stuck)

\* An experiment comes to its end, unless it gets stuck.
ExperimentEnds == <>(mpc = "done" \/ (mpc = "join" /\ Stuck))
=============================================================================
