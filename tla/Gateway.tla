-------------------------------- MODULE Gateway --------------------------------
(***************************************************************************)
(* The threads of gateway/src/main.rs and how they end: a generator thread *)
(* per sensor (sensor_sim), a reader thread per sensor, the scheduler, the *)
(* aggregation dispatcher, the consumer, and main, which on Ctrl+C or      *)
(* SIGTERM joins them in order.                                            *)
(*                                                                         *)
(* Readings are counted, not told apart.  A sensor's ring is what          *)
(* SampleQueue allows, the buffer what BoundedChannel allows; Aggregation  *)
(* and Storage have the inside of the last two stages, of which only what  *)
(* couples them is here: the window in progress, and the bounded channel   *)
(* of frames.  Of the commands the scheduler sends, only ShutdownDrain     *)
(* changes the state kept here.                                            *)
(***************************************************************************)
EXTENDS Naturals, FiniteSets, FiniteSetsExt

CONSTANTS
  Readers,            \* one reader, and one sensor, each
  RingUsable,         \* readings a ring holds (MAX_QUEUE_SIZE - 1)
  Capacity,           \* of the buffer
  OutCap,             \* of the channel from the dispatcher to the consumer
  MaxMade,            \* readings the sensors generate together: bounds the run
  AggregationFails,   \* the engine may fail closed
  PersistFails,       \* persist_frame may return an error
  DrainTimesOut       \* DRAIN_TIMEOUT may pass before a ring is drained

ASSUME GatewayAssumption ==
  /\ IsFiniteSet(Readers)
  /\ RingUsable \in Nat \ {0} /\ Capacity \in Nat \ {0} /\ OutCap \in Nat \ {0}
  /\ MaxMade \in Nat
  /\ {AggregationFails, PersistFails, DrainTimesOut} \subseteq BOOLEAN

VARIABLES
  stop,                   \* the flag main, readers and consumer share
  running, gpc, made,     \* per sensor: its flag, its generator, readings generated
  ring, overwritten,      \* per sensor: readings in the ring, and given up by it
  rpc, draining, stopped, \* per reader: place, draining, sensor_stopped
  refused,                \* per reader: readings push gave back
  command,                \* per reader: ShutdownDrain is in its channel
  buf, closed, popped,    \* the buffer, its shutdown flag, readings the dispatcher took
  inWindow,               \* saw_data_in_window: a reading is in the window in progress
  frames,                 \* frames in the channel to the consumer
  spc, apc, cpc, mpc,     \* scheduler, dispatcher, consumer, main
  failed                  \* history: a stage failed or was cut short, or a drain timed out

sensorVars == <<running, gpc, made, ring, overwritten>>
readerVars == <<rpc, draining, stopped, refused>>
bufferVars == <<buf, closed, popped>>
outputVars == <<inWindow, frames>>
otherVars == <<outputVars, spc, apc, cpc, mpc, failed>>
vars == <<stop, sensorVars, readerVars, command, bufferVars, otherVars>>

Set(f, r, v) == [f EXCEPT ![r] = v]

Total(f) == MapThenSumSet(LAMBDA r : f[r], Readers)

-----------------------------------------------------------------------------
\* A sensor's generator thread: while running, write a reading and sleep.

\* Past MaxMade no reading is begun any more, and a write already begun makes none.
GeneratorCheck(r) ==
  /\ gpc[r] = "check"
  /\ running[r] => Total(made) < MaxMade
  /\ gpc' = Set(gpc, r, IF running[r] THEN "write" ELSE "exited")
  /\ UNCHANGED <<stop, running, made, ring, overwritten, readerVars, command,
                 bufferVars, otherVars>>

GeneratorWrite(r) ==
  /\ gpc[r] = "write"
  /\ gpc' = Set(gpc, r, "check")
  /\ \/ /\ Total(made) < MaxMade
        /\ made' = Set(made, r, made[r] + 1)
        /\ IF ring[r] < RingUsable
           THEN ring' = Set(ring, r, ring[r] + 1) /\ UNCHANGED overwritten
           ELSE overwritten' = Set(overwritten, r, overwritten[r] + 1) /\ UNCHANGED ring
     \/ Total(made) = MaxMade /\ UNCHANGED <<made, ring, overwritten>>
  /\ UNCHANGED <<stop, running, readerVars, command, bufferVars, otherVars>>

Generator(r) == GeneratorCheck(r) \/ GeneratorWrite(r)

-----------------------------------------------------------------------------
\* A reader thread.

\* Mutant: the generator is joined without being told to stop.
StartDrainingJoinOnly(r, join, next) ==
  /\ draining' = Set(draining, r, TRUE)
  /\ stopped' = Set(stopped, r, TRUE)
  /\ rpc' = Set(rpc, r, IF stopped[r] THEN next ELSE join)
  /\ UNCHANGED running

\* Enter draining at one of the three places that do: stop the sensor, unless
\* that was done, which joins its generator; then go on at `next`.
StartDraining(r, join, next) ==
  /\ draining' = Set(draining, r, TRUE)
  /\ stopped' = Set(stopped, r, TRUE)
  /\ IF stopped[r]
     THEN rpc' = Set(rpc, r, next) /\ UNCHANGED running
     ELSE rpc' = Set(rpc, r, join) /\ running' = Set(running, r, FALSE)

\* The command loop.
TakeCommand(r) ==
  /\ rpc[r] = "commands"
  /\ command[r]
  /\ command' = Set(command, r, FALSE)
  /\ stop' = TRUE
  /\ StartDraining(r, "join_in_commands", "commands")
  /\ UNCHANGED <<gpc, made, ring, overwritten, refused, bufferVars, otherVars>>

NoCommand(r) ==
  /\ rpc[r] = "commands"
  /\ ~command[r]
  /\ rpc' = Set(rpc, r, "flag")
  /\ UNCHANGED <<stop, sensorVars, draining, stopped, refused, command, bufferVars,
                 otherVars>>

\* stop.load() && !draining
TestStop(r) ==
  /\ rpc[r] = "flag"
  /\ IF stop /\ ~draining[r]
     THEN StartDraining(r, "join_in_flag", "read")
     ELSE rpc' = Set(rpc, r, "read") /\ UNCHANGED <<running, draining, stopped>>
  /\ UNCHANGED <<stop, gpc, made, ring, overwritten, refused, command, bufferVars,
                 otherVars>>

\* sensor.stop() returns once the generator is gone.
JoinGenerator(r) ==
  /\ gpc[r] = "exited"
  /\ \/ rpc[r] = "join_in_commands" /\ rpc' = Set(rpc, r, "commands")
     \/ rpc[r] = "join_in_flag" /\ rpc' = Set(rpc, r, "read")
     \/ rpc[r] = "join_in_push" /\ rpc' = Set(rpc, r, "status")
  /\ UNCHANGED <<stop, sensorVars, draining, stopped, refused, command, bufferVars,
                 otherVars>>

\* while let Some(r) = sensor.read()
Read(r) ==
  /\ rpc[r] = "read"
  /\ IF ring[r] > 0
     THEN ring' = Set(ring, r, ring[r] - 1) /\ rpc' = Set(rpc, r, "push")
     ELSE rpc' = Set(rpc, r, "status") /\ UNCHANGED ring
  /\ UNCHANGED <<stop, running, gpc, made, overwritten, draining, stopped, refused,
                 command, bufferVars, otherVars>>

\* Mutant: try_push in place of push, its Err(Err(item)) ignored.
PushDrops(r) ==
  /\ rpc[r] = "push"
  /\ ~closed
  /\ buf' = IF buf < Capacity THEN buf + 1 ELSE buf
  /\ rpc' = Set(rpc, r, "read")
  /\ UNCHANGED <<stop, sensorVars, draining, stopped, refused, command, closed, popped,
                 otherVars>>

\* buf.push waits here while the buffer is full and not shut down.
Push(r) ==
  /\ rpc[r] = "push"
  /\ ~closed /\ buf < Capacity
  /\ buf' = buf + 1
  /\ rpc' = Set(rpc, r, "read")
  /\ UNCHANGED <<stop, sensorVars, draining, stopped, refused, command, closed, popped,
                 otherVars>>

\* Mutant: a refused reader drains, but leaves its sensor running.
PushRefusedKeepsSensor(r) ==
  /\ rpc[r] = "push"
  /\ closed
  /\ refused' = Set(refused, r, refused[r] + 1)
  /\ stop' = TRUE
  /\ draining' = Set(draining, r, TRUE)
  /\ rpc' = Set(rpc, r, "status")
  /\ UNCHANGED <<sensorVars, stopped, command, bufferVars, otherVars>>

\* Err(Shutdown): this reading is gone, the rest of the ring is left for the
\* next turn of the loop.
PushRefused(r) ==
  /\ rpc[r] = "push"
  /\ closed
  /\ refused' = Set(refused, r, refused[r] + 1)
  /\ stop' = TRUE
  /\ StartDraining(r, "join_in_push", "status")
  /\ UNCHANGED <<gpc, made, ring, overwritten, command, bufferVars, otherVars>>

\* available_after, and whether a draining reader is through.
Status(r) ==
  /\ rpc[r] = "status"
  /\ \/ /\ draining[r] /\ (ring[r] = 0 \/ DrainTimesOut)
        /\ rpc' = Set(rpc, r, "exited")
        /\ failed' = (failed \/ ring[r] > 0)
     \/ /\ ~(draining[r] /\ ring[r] = 0)
        /\ rpc' = Set(rpc, r, "commands")
        /\ UNCHANGED failed
  /\ UNCHANGED <<stop, sensorVars, draining, stopped, refused, command, bufferVars,
                 outputVars, spc, apc, cpc, mpc>>

Reader(r) == \/ TakeCommand(r) \/ NoCommand(r) \/ TestStop(r) \/ JoinGenerator(r)
             \/ Read(r) \/ Push(r) \/ PushRefused(r) \/ Status(r)

-----------------------------------------------------------------------------
\* The scheduler leaves its loop on the flag and tells every reader to drain.
SchedulerEnds ==
  /\ spc = "loop"
  /\ stop
  /\ command' = [r \in Readers |-> rpc[r] # "exited"]
  /\ spc' = "exited"
  /\ UNCHANGED <<stop, sensorVars, readerVars, bufferVars, outputVars, apc, cpc, mpc, failed>>

\* The dispatcher pops readings and sends a frame when the window's time is up,
\* which may be after any pop.
DispatcherPop ==
  /\ apc = "up"
  /\ buf > 0
  /\ buf' = buf - 1
  /\ popped' = popped + 1
  /\ inWindow' = TRUE
  /\ apc' \in {"up", "send"}
  /\ UNCHANGED <<stop, sensorVars, readerVars, command, closed, frames, spc, cpc, mpc, failed>>

\* pop_timeout found nothing, and the window's time is up; a pop that waits when
\* the buffer is shut down began before that.
WindowElapses ==
  /\ apc = "up"
  /\ buf = 0 /\ ~closed
  /\ apc' = "send"
  /\ UNCHANGED <<stop, sensorVars, readerVars, command, bufferVars, outputVars,
                 spc, cpc, mpc, failed>>

\* frames_tx.send waits while the channel is full.  The receiver lives until the
\* dispatcher is joined, so that send does not fail.
SendFrame ==
  /\ apc \in {"send", "send_last"}
  /\ frames < OutCap
  /\ frames' = frames + 1
  /\ inWindow' = FALSE
  /\ apc' = IF apc = "send" THEN "up" ELSE "exited"
  /\ UNCHANGED <<stop, sensorVars, readerVars, command, bufferVars, spc, cpc, mpc, failed>>

\* The buffer is closed and empty: a window with readings in it is the last frame.
DispatcherEnds ==
  /\ apc = "up"
  /\ closed /\ buf = 0
  /\ apc' = IF inWindow THEN "send_last" ELSE "exited"
  /\ UNCHANGED <<stop, sensorVars, readerVars, command, bufferVars, outputVars,
                 spc, cpc, mpc, failed>>

\* A window cannot be completed, or engine.shutdown() has raised the engine's flag,
\* on which the workers leave, and the dispatcher too.
FailClosed ==
  /\ AggregationFails \/ cpc = "join"
  /\ apc = "up"
  /\ apc' = "exited"
  /\ failed' = TRUE
  /\ UNCHANGED <<stop, sensorVars, readerVars, command, bufferVars, outputVars, spc, cpc, mpc>>

Dispatcher == DispatcherPop \/ WindowElapses \/ SendFrame \/ DispatcherEnds \/ FailClosed

\* The consumer takes a frame and persists it ...
ReceiveFrame ==
  /\ cpc = "receive"
  /\ frames > 0
  /\ frames' = frames - 1
  /\ cpc' = "persist"
  /\ UNCHANGED <<stop, sensorVars, readerVars, command, bufferVars, inWindow,
                 spc, apc, mpc, failed>>

Persisted ==
  /\ cpc = "persist"
  /\ cpc' = "receive"
  /\ UNCHANGED <<stop, sensorVars, readerVars, command, bufferVars, outputVars,
                 spc, apc, mpc, failed>>

PersistFailed ==
  /\ PersistFails
  /\ cpc = "persist"
  /\ stop' = TRUE
  /\ cpc' = "close"
  /\ failed' = TRUE
  /\ UNCHANGED <<sensorVars, readerVars, command, bufferVars, outputVars, spc, apc, mpc>>

ConsumerCloses ==
  /\ cpc = "close"
  /\ closed' = TRUE
  /\ cpc' = "join"
  /\ UNCHANGED <<stop, sensorVars, readerVars, command, buf, popped, outputVars,
                 spc, apc, mpc, failed>>

\* ... or there were four idle rounds, a second, after the flag and the buffer's
\* shutdown; if the dispatcher is not through by then, the engine is cut short.
ConsumerIdle ==
  /\ cpc = "receive"
  /\ frames = 0
  /\ stop /\ closed
  /\ cpc' = "join"
  /\ failed' = (failed \/ apc # "exited")
  /\ UNCHANGED <<stop, sensorVars, readerVars, command, bufferVars, outputVars, spc, apc, mpc>>

\* engine.shutdown() joins the dispatcher and only then drops the receiver, which
\* nobody reads any more; storage.shutdown().
ConsumerEnds ==
  /\ cpc = "join"
  /\ apc = "exited"
  /\ cpc' = "exited"
  /\ UNCHANGED <<stop, sensorVars, readerVars, command, bufferVars, outputVars,
                 spc, apc, mpc, failed>>

Consumer == \/ ReceiveFrame \/ Persisted \/ PersistFailed
            \/ ConsumerCloses \/ ConsumerIdle \/ ConsumerEnds

-----------------------------------------------------------------------------
\* main: wait for the signal, join, close the buffer, join.

Signal ==
  /\ mpc = "signal"
  /\ stop' = TRUE
  /\ mpc' = "join_scheduler"
  /\ UNCHANGED <<sensorVars, readerVars, command, bufferVars, outputVars, spc, apc, cpc, failed>>

MainStep(from, to) ==
  /\ mpc = from
  /\ mpc' = to
  /\ UNCHANGED <<stop, sensorVars, readerVars, command, buf, popped, outputVars,
                 spc, apc, cpc, failed>>

JoinScheduler == MainStep("join_scheduler", "join_readers")
                   /\ spc = "exited" /\ UNCHANGED closed

\* Mutant: the readers are not joined before the buffer is closed.
JoinReadersLater == MainStep("join_readers", "close") /\ UNCHANGED closed

JoinReaders == MainStep("join_readers", "close")
                 /\ (\A r \in Readers : rpc[r] = "exited") /\ UNCHANGED closed

CloseBuffer == MainStep("close", "join_consumer") /\ closed' = TRUE

JoinConsumer == MainStep("join_consumer", "done") /\ cpc = "exited" /\ UNCHANGED closed

Main == JoinScheduler \/ JoinReaders \/ CloseBuffer \/ JoinConsumer

-----------------------------------------------------------------------------
Init ==
  /\ stop = FALSE
  /\ running = [r \in Readers |-> TRUE]
  /\ gpc = [r \in Readers |-> "check"]
  /\ made = [r \in Readers |-> 0]
  /\ ring = [r \in Readers |-> 0] /\ overwritten = [r \in Readers |-> 0]
  /\ rpc = [r \in Readers |-> "commands"]
  /\ draining = [r \in Readers |-> FALSE] /\ stopped = [r \in Readers |-> FALSE]
  /\ refused = [r \in Readers |-> 0]
  /\ command = [r \in Readers |-> FALSE]
  /\ buf = 0 /\ closed = FALSE /\ popped = 0
  /\ inWindow = FALSE /\ frames = 0
  /\ spc = "loop" /\ apc = "up" /\ cpc = "receive" /\ mpc = "signal"
  /\ failed = FALSE

Terminated == mpc = "done" /\ UNCHANGED vars

Next == \/ \E r \in Readers : Generator(r) \/ Reader(r)
        \/ SchedulerEnds \/ Dispatcher \/ Consumer
        \/ Signal \/ Main
        \/ Terminated

Spec == Init /\ [][Next]_vars

\* Every thread goes on; nothing has to fail, no window's time has to be up, and
\* nobody has to press Ctrl+C.
\* A drain that could time out does so in the end.
Fairness ==
  /\ \A r \in Readers : WF_vars(Generator(r)) /\ WF_vars(Reader(r))
  /\ WF_vars(SchedulerEnds) /\ WF_vars(DispatcherPop \/ SendFrame \/ DispatcherEnds)
  /\ WF_vars(ReceiveFrame \/ Persisted \/ ConsumerCloses \/ ConsumerIdle \/ ConsumerEnds)
  /\ WF_vars(Main)

FairSpec == Spec /\ Fairness

-----------------------------------------------------------------------------
\* The type invariant.
TypeOK ==
  /\ stop \in BOOLEAN /\ closed \in BOOLEAN
  /\ running \in [Readers -> BOOLEAN]
  /\ gpc \in [Readers -> {"check", "write", "exited"}]
  /\ made \in [Readers -> Nat]
  /\ ring \in [Readers -> 0 .. RingUsable]
  /\ overwritten \in [Readers -> Nat] /\ refused \in [Readers -> Nat]
  /\ rpc \in [Readers -> {"commands", "flag", "read", "push", "status", "exited",
                          "join_in_commands", "join_in_flag", "join_in_push"}]
  /\ draining \in [Readers -> BOOLEAN] /\ stopped \in [Readers -> BOOLEAN]
  /\ command \in [Readers -> BOOLEAN]
  /\ buf \in 0 .. Capacity /\ popped \in Nat
  /\ inWindow \in BOOLEAN /\ frames \in 0 .. OutCap
  /\ spc \in {"loop", "exited"} /\ apc \in {"up", "send", "send_last", "exited"}
  /\ cpc \in {"receive", "persist", "close", "join", "exited"}
  /\ mpc \in {"signal", "join_scheduler", "join_readers", "close", "join_consumer", "done"}
  /\ failed \in BOOLEAN

InHand(r) == IF rpc[r] = "push" THEN 1 ELSE 0

\* Every reading a sensor generated is somewhere: given up by its ring, still
\* in it, in the reader's hand, refused, in the buffer, or with the dispatcher.
ReadingsAccounted ==
  LET here == [r \in Readers |-> overwritten[r] + ring[r] + InHand(r) + refused[r]]
  IN  Total(made) = Total(here) + buf + popped

\* The shutdown order (docs/report_azure.tex 241) loses nothing when no stage
\* fails: no push is refused, and when main returns, no sensor generates, the rings,
\* the buffer and the window in progress are empty, and every frame was persisted.
NothingLeftBehind ==
  ~failed =>
    /\ \A r \in Readers : refused[r] = 0
    /\ mpc = "done" =>
         /\ buf = 0 /\ ~inWindow /\ frames = 0
         /\ \A r \in Readers : ring[r] = 0 /\ gpc[r] = "exited"

\* A reader that drains has its sensor stopped for good, so the ring it is
\* about to empty cannot fill again.
DrainsAStoppedSensor ==
  \A r \in Readers :
    /\ draining[r] => stopped[r] /\ ~running[r]
    /\ draining[r] /\ rpc[r] \in {"flag", "read", "push", "status", "exited"}
         => gpc[r] = "exited"

\* After the signal main returns ("Stops cleanly on Ctrl+C or SIGTERM", README.md 34).
ShutdownCompletes == mpc = "join_scheduler" ~> mpc = "done"

\* It does, whatever fails, but for two states.  In one the dispatcher is gone, the
\* buffer is full and not shut down, and a reader that main joins waits for room in
\* it.
DeadEnd ==
  /\ mpc = "join_readers" /\ apc = "exited" /\ ~closed /\ buf = Capacity
  /\ \E r \in Readers : rpc[r] = "push"

\* In the other the consumer joins the dispatcher, which waits for room in the
\* channel that only the consumer empties.
Wedged == cpc = "join" /\ apc \in {"send", "send_last"} /\ frames = OutCap

AllEnded ==
  /\ \A r \in Readers : rpc[r] = "exited" /\ gpc[r] = "exited"
  /\ spc = "exited" /\ apc = "exited" /\ cpc = "exited"
  /\ mpc \in {"signal", "done"}

\* Whatever raised the flag - the signal, or a frame that could not be persisted
\* (main.rs 1471) - ends every thread for good, and main after the signal, unless the
\* gateway stays in one of those two.
ShutdownEnds == stop ~> [](AllEnded \/ DeadEnd \/ Wedged)
=============================================================================
