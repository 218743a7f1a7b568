-------------------------------- MODULE Sensor --------------------------------
(***************************************************************************)
(* A sensor of sensor_sim (thermometer.rs, accelerometer.rs and            *)
(* force_sensor.rs are the same but for the reading): the ring of          *)
(* RoundQueue, a generator thread that owns the ring's writer while it     *)
(* runs, and the owner, the one thread that starts, stops, counts and      *)
(* reads.                                                                  *)
(***************************************************************************)
EXTENDS RoundQueue

CONSTANT MaxStarts    \* calls of start: bounds the run

ASSUME SensorAssumption == MaxStarts \in Nat

VARIABLES
  running,     \* the flag the generator looks at
  handle,      \* a generator to be joined: its JoinHandle is there
  home,        \* the writer is in the struct, not with a generator
  gpc,         \* the generator: "none", "check", "write" or "exited"
  opc,         \* the owner: "up", in available ("len") or in stop ("join")
  lenIdx,      \* read_idx as available loaded it
  avail,       \* what available returned last
  starts,      \* calls of start so far
  panicked     \* "start called twice"

life == <<running, handle, home, gpc>>
owner == <<opc, lenIdx, avail>>
sensorVars == <<vars, life, owner, starts, panicked>>

-----------------------------------------------------------------------------
\* The generator thread: look at the flag, write one value, sleep.

GeneratorCheck ==
  /\ gpc = "check"
  /\ gpc' = IF running THEN "write" ELSE "exited"
  /\ UNCHANGED <<vars, running, handle, home, owner, starts, panicked>>

\* Past MaxWrites a generator only looks at the flag.
GeneratorWrite ==
  /\ gpc = "write"
  /\ \/ Writer /\ gpc' = IF wpc' = "idle" THEN "check" ELSE "write"
     \/ wpc = "idle" /\ written = MaxWrites /\ gpc' = "check" /\ UNCHANGED vars
  /\ UNCHANGED <<running, handle, home, owner, starts, panicked>>

Generator == GeneratorCheck \/ GeneratorWrite

-----------------------------------------------------------------------------
\* The owner, between two reads.
Free == opc = "up" /\ rpc = "idle"

\* start_thread: nothing to do with a handle, else take the writer and spawn.
Start ==
  /\ Free
  /\ starts < MaxStarts
  /\ starts' = starts + 1
  /\ \/ handle /\ UNCHANGED <<life, panicked>>
     \/ /\ ~handle
        /\ running' = TRUE
        /\ IF home
           THEN home' = FALSE /\ handle' = TRUE /\ gpc' = "check" /\ UNCHANGED panicked
           ELSE panicked' = TRUE /\ UNCHANGED <<handle, home, gpc>>
  /\ UNCHANGED <<vars, owner>>

\* stop: clear the flag; join the generator, if there is one.
Stop ==
  /\ Free
  /\ running' = FALSE
  /\ opc' = IF handle THEN "join" ELSE "up"
  /\ UNCHANGED <<vars, handle, home, gpc, lenIdx, avail, starts, panicked>>

\* Mutant: the writer that join returns is dropped.
JoinedDropsWriter ==
  /\ opc = "join"
  /\ gpc = "exited"
  /\ gpc' = "none" /\ handle' = FALSE
  /\ opc' = "up"
  /\ UNCHANGED <<vars, running, home, lenIdx, avail, starts, panicked>>

Joined ==
  /\ opc = "join"
  /\ gpc = "exited"
  /\ gpc' = "none" /\ handle' = FALSE
  /\ home' = TRUE
  /\ opc' = "up"
  /\ UNCHANGED <<vars, running, lenIdx, avail, starts, panicked>>

\* available: the ring's len, two loads.
AvailableLoadRead ==
  /\ Free
  /\ lenIdx' = readIdx
  /\ opc' = "len"
  /\ UNCHANGED <<vars, life, avail, starts, panicked>>

\* Mutant: an index that has wrapped around is not brought back.
AvailableNoWrap ==
  /\ opc = "len"
  /\ avail' = IF writeIdx >= lenIdx THEN writeIdx - lenIdx ELSE 0
  /\ opc' = "up"
  /\ UNCHANGED <<vars, life, lenIdx, starts, panicked>>

Available ==
  /\ opc = "len"
  /\ avail' = (IF writeIdx >= lenIdx THEN 0 ELSE Capacity) + writeIdx - lenIdx
  /\ opc' = "up"
  /\ UNCHANGED <<vars, life, lenIdx, starts, panicked>>

\* read: one step of try_read.
ReadStep ==
  /\ opc = "up"
  /\ Bounded /\ Reader
  /\ UNCHANGED <<life, owner, starts, panicked>>

Owner == Start \/ Stop \/ Joined \/ AvailableLoadRead \/ Available \/ ReadStep

-----------------------------------------------------------------------------
SensorInit ==
  /\ Init
  /\ running = TRUE /\ handle = FALSE /\ home = TRUE /\ gpc = "none"
  /\ opc = "up" /\ lenIdx = 0 /\ avail = 0
  /\ starts = 0 /\ panicked = FALSE

\* A panic ends the owner.
SensorNext == Generator \/ (~panicked /\ Owner)

SensorSpec == SensorInit /\ [][SensorNext]_sensorVars

\* The generator runs, and the owner reads on: the reader thread's loop.
SensorFairSpec ==
  /\ SensorSpec
  /\ WF_sensorVars(Generator)
  /\ WF_sensorVars(Joined \/ Available)
  /\ SF_sensorVars(ReadStep)

-----------------------------------------------------------------------------
\* The writer is in exactly one place, so start never finds it gone ("start
\* called twice"), stop joins whoever has it, and no two generators write.
OneWriter ==
  /\ ~panicked
  /\ home = (gpc = "none")
  /\ handle = (gpc # "none")

\* stop halts (thermometer.rs 157-175): once it has returned, nothing is
\* written until start is called again.
StoppedIsSilent == [][written' # written => running \/ opc = "join"]_sensorVars

\* What available returns of a stopped sensor is exact: a reader that drains
\* (main.rs 468-475) takes 0 to mean that nothing is left.  Of a running one
\* it may be anything: a write to a full ring between the two loads makes a
\* full ring look empty.
StoppedCountIsExact ==
  [][opc = "len" /\ opc' = "up" /\ gpc = "none" => avail' = Length]_sensorVars

\* Through stops and restarts, whatever is written is read, or given up for
\* something newer that is read.
NewestIsRead ==
  \A n \in 1 .. MaxWrites :
    written = n ~> got # <<>> /\ got[Len(got)][1] >= n
=============================================================================
