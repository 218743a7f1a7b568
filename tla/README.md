# Verification of the Project Azure gateway

TLA+ models of the sensor pipeline in this repository, the TLC runs that check
them on small instances, and TLAPS proofs of their safety properties for every
value of their constants. Paths are relative to the repository root.

## The system

A generator thread per sensor writes readings into a small lock-free ring. A
reader thread per sensor drains its ring, appends the readings to a text file
and pushes them into one bounded blocking buffer; between two rounds it sleeps
as long as its governor says. A scheduler polls the readers' statuses and sends
them modes. The aggregation dispatcher pops the buffer, routes readings to
workers by a hash of the sensor id, and closes a window every second by
collecting one report from every worker. A consumer thread takes the frames and
hands each to the storage worker, which publishes it as five files that the web
server and the dashboard read.

| Part | Code | State | Operations | Hard because |
|---|---|---|---|---|
| Ring `RWRoundQueue` | `os_lib/src/queue.rs` | slots, `read_idx`, `write_idx` | `try_read`, `write_overwrite`, `len` | lock-free, both threads move `read_idx`, overruns |
| Sensor generators | `sensor_sim/src/*.rs` | running flag, thread handle, writer | `start`, `stop`, `available`, `read` | start, stop, restart; join; a count made of two loads |
| Buffer `SensorBufferManager` | `gateway/src/buffer.rs` | queue, shutdown flag, counters | `push`, `try_push`, `try_pop`, `pop_blocking`, `pop_timeout`, `shutdown`, `stats` | condition variables, notify after unlock, timeouts, spurious wakeups |
| Reader threads | `gateway/src/main.rs` 343-505 | control mode, draining, drain deadline, file | command loop, drain loop, append, push, status | three ways into draining, backpressure, drain timeout, torn lines |
| Governor | `gateway/src/governor.rs` | mode, sleep, integral, counters | `update_with_override` | mode switches, clamping, totals shared by all readers |
| Scheduler | `gateway/src/main.rs` 208-341 | latest status, hit counters, last command | poll, command, final drain | stale status, commands in flight |
| Aggregation engine | `gateway/src/aggregation.rs` | channels, buckets, window id, shutdown flag | route, rotate, report, reduce, publish, shutdown | window boundaries over message passing, timeouts, fail-closed exits, joins |
| Statistics | `gateway/src/types.rs` | count, min, max, mean, m2 | `update`, `merge` | empty operands, order of merging |
| Storage worker | `gateway/src/storage.rs` | hour, lines in memory, files, metrics | `persist_frame`, `shutdown`, five renames | errors in the middle, process death, shutdown races |
| Gateway `main` | `gateway/src/main.rs` 1303-1518 | stop flag, join handles | signal, joins, `buffer.shutdown`, consumer loop | order of joins while stages fail |
| Web server, dashboard | `gateway/src/main.rs` 530-1300, `dashboard/src` | none of their own | list and read files | read while the worker writes |
| `azure_bench` | `gateway/src/bin/azure_bench.rs` | counters, the file of rows | sensor, reader, consumer, sweep | plain atomics instead of the ring, a consumer that may leave first |
| Ablation experiment | `Ablation experiment/gateway/src/main.rs` | as the gateway, and a counter of lost readings | as the gateway, report | what its figures count |

Calls and shared state: generator -> ring -> reader (`Sensor::read`), reader ->
buffer (`push`), dispatcher <- buffer (`pop_timeout`), dispatcher <-> workers
(bounded channels), dispatcher -> consumer (bounded channel), consumer -> storage
(`persist_frame`, synchronous), scheduler <-> readers (unbounded channels),
storage worker -> web server and dashboard (files replaced by rename), readers ->
web server (text files that grow), and the flags: `stop` (main, readers,
consumer), the buffer's `is_shutdown`, the engine's and the storage worker's
`shutdown`.

What makes each part correct:

* ring: values come out in the order they went in, untorn, and only an overwritten value is lost;
* sensor: one writer at a time, nothing generated after `stop`, an exact count once stopped;
* buffer: a bounded closable FIFO; nobody sleeps over work; shutdown ends every wait;
* control: a command reaches its reader and is obeyed; nobody stays throttled without load; the sleep stays within its configuration;
* aggregation: a published frame holds exactly its window, from every worker; no gap; a clean shutdown publishes everything;
* statistics: what is updated or merged is what the definition gives, in any order;
* storage: what was acknowledged stays on disk; files never point ahead; every caller gets an answer;
* queries: what was known when a request came in is in the answer;
* gateway: after the signal every thread ends, and nothing that was read is lost;
* bench and experiment: the figures they report add up.

## Modules

| Module | Models | State and actions |
|---|---|---|
| `BoundedChannel` | what the buffer promises (comments at `buffer.rs` 72-77, 133-135) | `accepted`, `delivered`, `closed`; Accept, Deliver, Close, Refuse, End |
| `SensorBuffer` | `buffer.rs`, as a monitor | a critical section is an action; the `notify_one` after the unlock is another; `pc` says where a thread is parked |
| `SampleQueue` | what the ring promises (comments at `queue.rs` 10-14, 434-438) | Write, GiveUpOldest, Read |
| `RoundQueue` | `queue.rs` | one action per atomic load or store; a value is written and read in two halves |
| `Sensor` | `sensor_sim/src`, on top of `RoundQueue` | generator thread, `start`, `stop` with its join, `available` with its two loads |
| `Governor` | `governor.rs` | a governor is a record, an update a function |
| `Control` | scheduler and the control side of a reader; composes `Governor` | statuses and commands in flight, hit counts, modes; `LoadEnds` is the load going away |
| `Aggregation` | `aggregation.rs`, with the consumer loop of `main.rs` 1447-1495 | dispatcher places `top` to `exited`, workers, the report channel, frames; `Feed` and `CloseSource` are the buffer's other side |
| `WindowLog` | what aggregation promises to those who read its frames (`docs/report_azure.tex` 130) | `fed`, `frames`, `taken`; Push, Emit, Take |
| `SensorStats` | `types.rs` | `Update`, `Merge`, and `StatsOf`, the definition they are compared with |
| `FrameLog` | what publication promises (`docs/report_azure.tex` 131, 220) | Store, PublishLatest, PublishStats, PublishSnapshot, PublishIndex, Acknowledge |
| `Storage` | `storage.rs` | callers, worker, one action per renamed file, `Crash` |
| `Queries` | the web server's and the dashboard's reads; composes `Storage` | list the hours that have files, then read one per step, while the worker goes on; an answer is the set of frames it has |
| `RawFiles` | the readers' text files and their queries; uses `SensorStats` | a line is written in two steps; a file is read in pieces while the last line has no end yet, and a read may fail; faults, restarts |
| `Gateway` | the threads of `main.rs`, and a sensor's generator thread | composes generators, readers, buffer, dispatcher, frame channel, consumer, scheduler's end and main; the buffer is a counter with the behaviour of `BoundedChannel`, the ring one with the behaviour of `SampleQueue`, the bounded frame channel one of what is in it |
| `Ablation` | the experiment's `main.rs`; composes `Gateway` | the counter of lost readings beside every step of a reader, and the report |
| `Bench` | `azure_bench.rs` | sensors and readers over a plain counter, consumer, main with its sweeps and its file |
| `SensorBufferProofs`, `ControlProofs`, `AggregationProofs`, `BenchProofs` | - | theorems about the module of that name |
| `SensorProofs` | - | theorems about `RoundQueue` and `Sensor` |
| `StorageProofs` | - | theorems about `Storage`, `Queries`, `RawFiles` and `SensorStats` |
| `GatewayProofs` | - | theorems about `Gateway` and `Ablation` |
| `SumTheorems` | - | lemmas about sums over finite sets, about finite sets of numbers, and about what a recursion puts together step by step |
| `MC*` | - | small instances |

Operators marked "Mutant" are deliberate mistakes: each replaces one definition,
and the property it is paired with in `PROJECT.json` then fails. They show that
the property depends on the code, and nothing else uses them.

Abstractions:

* A reading, an item and a frame are numbers. In `Aggregation`, statistics and anomaly scores are the readings they summarise; what statistics do with values is `SensorStats`.
* `SensorBuffer` keeps the wait counters only up to `MaxWaits`, and not the nanosecond totals. The mutex is never poisoned, since no critical section can panic.
* `RoundQueue` interleaves sequentially consistently: the loads and stores are Acquire/Release, so the real ring has at most more behaviours, stale loads of the other thread's index. A stale index makes the ring look emptier to the reader and fuller to the writer.
* `Sensor` stands for all three generators, which differ in what a reading holds.
* `Governor` has ratios as whole multiples of `1/Unit`, rounded down where the code has an f64, and of the wait totals only whether they grew since the last update.
* `Governor`: a command to clamp is one to `max(nominal, min)` of the configuration the reader was given (`main.rs` 371-372), also when `new()` then works with the default one (`ClampLimit`, of `Given`).
* `Control` keeps the last status of each reader, since the scheduler empties the channel into a map; a status may be late at any poll, unless the load is gone.
* `Aggregation`: a window elapses whenever it likes (`Tick`), a report is late whenever it likes (`ReportsLate`), channels are sequences with the capacities given to `start()`. The consumer's four idle rounds of 250 ms may be over as soon as the source is closed, whatever the dispatcher still has to do (`Idle`).
* `SensorStats` computes with exact fractions of `1/Unit`; anomaly records are left out. Rounding of f64 is not modelled.
* `Storage`: death of the process, not loss of power: renamed files survive. An error may come at any step. Temporary files are left out. The hour of a frame is any function, so the clock may be set back.
* `Queries`: a file is read whole, since it is replaced by rename. A request asks for a range of frames. An hour has one file and a file no frame twice (`HourFilesInOrder`), so a list is a set of hours and an answer a set of frames; the order of reading is in `Newest` and `Oldest`.
* `Gateway`: of the scheduler's commands only `ShutdownDrain` changes the state kept there; the other modes change how long a reader sleeps, which is `Control`. `DRAIN_TIMEOUT` passes whenever it likes, and so do the consumer's idle rounds once the flag is up and the buffer closed; a consumer that leaves a dispatcher at work counts as a stage cut short. A window's time is up whenever it likes, with readings in it or without (`WindowElapses`). `FailClosed` stands for every way out of a window that cannot be completed, and sends nothing.
* `RawFiles`: what a `write_all` appended is seen whole or not at all. A reader of the file that finds its last line without an end gives that text and looks at the file again, so what came meanwhile is part of the answer. Sensors' files are read in any order, as they share nothing. A read may fail at any point (`ReadFails`): what was parsed is given up and the sensor has an empty list in the answer; the raw API answers an error, which no property speaks of.
* `Ablation`: the load of `available_before` joins the test of the flag before it; its module comment lists what else differs from the gateway.
* `Bench`: sleeps take any time, so the governor's choice of them makes no difference; CPU times and lags are left out.

## Runs

| Run | Question | Bounds |
|---|---|---|
| `SensorBuffer` | Do the counters agree, is a wakeup ever lost, does the monitor implement the channel, does a blocked push return unless others overtake it, do the other calls end? | 2 producers of 2 items, 2 consumers, capacity 2: both condition variables have two waiters while notifies are due |
| `Sensor` | Is the ring the promised queue, through stops, restarts and counts, while no read overlaps a write to a full ring? | 4 slots, 5 values, 2 starts: the indices wrap around, the ring fills and overwrites |
| `RoundQueueRace` | ... and when one does? Counterexample, see Findings | 4 slots, 5 values |
| `Control` | Do scheduler and reader agree, are modes obeyed, does calm restore automatic polling, is every governor sound? | 1 reader (readers share nothing but `stop`), 3 backlogs, 2 fills, 2 warnings: every threshold is crossed from both sides |
| `AggregationFaults` | Complete frames, each the next window of the readings, whatever comes late; an end after the buffer's shutdown | 2 workers, 3 readings alternating between them, inboxes of one message, an output channel of one frame, 2 windows and the final one |
| `StorageQueries` | What is on disk after errors and a death of the process, is it the log that was promised, and what do requests find meanwhile? | 1 caller, 3 frames, the second in the next hour and the third back in the first, one death, answers of 2 frames |
| `StorageShutdown` | Who is discarded, who is left waiting? | 2 callers, either may call `shutdown()`, 2 frames, errors, one death |
| `LatestFrames` | Has the answer to "latest" the latest frame? Counterexample | 3 frames of one hour, answers of 2 |
| `RawFiles` | What does a fault cost, is a full answer still given when the file has grown, are the statistics those of their definition? | 1 sensor (files share nothing), 4 readings of 3 values, 2 failed writes and 2 restarts: a line may be joined twice, and left without an end again |
| `Gateway` | Is every reading accounted for, does the shutdown order lose nothing, does everything end but for two named states, is what the experiment counts as lost read? | 1 sensor, 4 readings, one more than ring, hand and buffer hold; a frame channel of one; every fault |
| `GatewayStuck` | Does main return after the engine failed closed? Counterexample | 2 sensors, 2 readings, a frame channel with room for all of the run's frames, so that only the buffer can hold a thread up |
| `Bench` | Do the figures of a row add up, does an experiment end? | 1 sensor, a ring of 2, sweeps over capacities 3 and 4, one below and one at what `RoomyIsNeverStuck` asks for |

`Gateway` is checked through `MCAblation`, which has the experiment's counter
beside it. The counter never restrains a step: every behaviour of `Gateway`
extends to one of `Ablation`, so the run covers the gateway, and by the theorem
`AblationIsGateway` every behaviour of `Ablation` is one of `Gateway`, so what
is proved of the gateway holds for the experiment.

`Gateway` has one sensor, which can fill everything between it and the storage
worker; with two, TLC cannot check `ShutdownEnds` in reasonable time. Readers share
the flag, the buffer and nothing else, the four invariants are proved for any number
of them, and `GatewayStuck` runs with two. `MaxMade` bounds the readings: a running
generator stops before it begins one more, and ends as usual when it is stopped.

The bounds are small because the code has no constants of its own that matter:
capacities, thread counts and window counts are parameters, and the smallest
values at which a queue is full, wraps around or has two waiters already show
each case. The bounds that are not parameters of the code are named:
`MaxPush`, `MaxWaits`, `MaxWrites`, `MaxStarts`, `MaxSwitches`, `MaxWindows`,
`MaxFrames`, `MaxCrashes`, `MaxMade`, `MaxReadings`, `MaxFailures`, `MaxRestarts`, `MaxCount`.

`CHECK_DEADLOCK FALSE` stands where the system really stops: all calls made and
threads ended (`StorageShutdown`, `RawFiles`, `Bench`), threads that may wait
for ever in a state a property names (`AggregationFaults`, `Gateway`, `Bench`),
and the counterexamples in which that is the point.

## Fairness

Every liveness property assumes weak fairness of each thread's own steps, and
nothing of the environment: nobody has to push, call `shutdown`, press Ctrl+C or
fail, and no wait has to end spuriously. The threads are operating-system
threads, each of which is scheduled again and again.

* `SensorBuffer`: a call that was started goes on (but nothing makes a producer that is woken win the lock against one that just arrives), and consumers call again and again, as the dispatcher loop does (`aggregation.rs` 262-312). The mutex needs no fairness of its own: a critical section is one action of its thread.
* `Sensor`: the generator goes on, and the owner completes its calls and keeps reading. Reading is strongly fair: counting and stopping in between must not starve the loop that reads, and it does not, as they are calls of the same thread.
* `Control`: the scheduler and each reader.
* `Aggregation`: dispatcher, each worker, and the consumer. A window need never elapse.
* `Storage`: the worker, and a caller inside `shutdown()`.
* `Gateway`: each generator, reader, the scheduler, dispatcher with its sends (but it need not fail, and no window's time need be up), consumer (but no persist need fail) and main.
* `Bench`: each thread; and a reader's compare-and-exchange, which the sensor's stores may defeat, does not fail for ever (strong fairness of its success).

Liveness properties and what they allow: `EngineEnds` excepts one state by name,
`Wedged`, and `ShutdownEnds` two, `Wedged` and `DeadEnd`, where threads do wait for
ever (see Findings and Observations); `ExperimentEnds` excepts `Stuck`.
`PushReturnsOrIsOvertaken` excepts a push beside which other pushes are accepted
again and again.

## Findings

* `RoundQueueRace`: a write to a full ring may hit the slot the reader is copying, so a reading may be torn; `queue.rs` 168 says the split prevents data races.
* `GatewayStuck`: when the engine has failed closed, nobody pops the buffer and nobody sets `stop`. Once the buffer is full, readers wait in `push`; on Ctrl+C main joins them before it calls `buffer.shutdown()`, and never gets there.
* `LatestFrames`: once an hour has more than 20 frames, `/api/frames/latest` answers with its oldest 20.

## Observations

Behaviour of the code the models show or allow, of which no comment promises the opposite:

* Buffer: a push that waits may starve beside readers that push without end. The notify wakes it, but a push that arrives before it has the lock takes the free slot, and it waits again; neither `Mutex` nor `Condvar` is fair.
* Ring: `commit_read` and an overwriting `commit_write` both advance `read_idx` by a load and a store, and one may undo the other; with `Overrun = TRUE` the reader may get older values after newer ones. In the gateway the ring overruns while a reader is blocked in `push`.
* Ring: `available()` of a running sensor is two loads, and a write to a full ring between them makes it look empty. A reader that drains has stopped its sensor first (`DrainsAStoppedSensor`), and then the count is exact (`StoppedCountIsExact`).
* Engine: when a persist fails while the output channel is full, `engine.shutdown()` joins a dispatcher that waits for room in a channel whose receiver lives until after the join (`Wedged`, of `Aggregation` and of `Gateway`). Main then waits for the consumer.
* Engine: the consumer may also leave, after a second without a frame (`main.rs` 1484-1488), before the dispatcher has collected the final window. `engine.shutdown()` then sends the workers away, and a window whose reports do not come, or readings still in the buffer, are not stored. `CleanExitPublishesAll` is about a dispatcher that left with the flag down, `NothingLeftBehind` about runs in which the engine was not cut short.
* Governor: in Economy the sleep may fall below the nominal one, by the wound-up integral. `new()` does not check `integral_limit`; a negative one would make `f64::clamp` panic.
* Control: a command taken by a reader that drains on its own may set its mode back to Automatic; it drains on, at the automatic pace.
* Queries: a scan of the dashboard goes through the hours oldest first and may have a hole where the hour changes. With `since` but no `until`, `/sensor` answers 400 "range too large", though the parameter is marked optional (`dashboard/src/lib.rs` 98-113). Window ids start at 0 again after a restart, so `/window` may find the older frame of that id. The raw API returns the first `limit` readings of a file, not the last.
* Raw API: a reading may be in an answer and not in a later one. A text whose end was not written still parses, as the last line of its file, until the next text is joined to it; then neither does (`RawIsStable`). And an answer read while the file is written may have a text that was joined to a line already given: it is then parsed on its own, which no later answer does.
* Experiment: the counter `lost` counts readings that wait when a turn begins, and which that turn then reads. The threshold it compares with is always 0. `total_generated` is pushed plus lost, so a reading that waited and was delivered counts twice: a run without loss may report a loss rate of up to one half (`CountedIsRead`), and overwritten readings are in no figure.
* `azure_bench`: with `Sensors * (RingCap + 2)` slots an experiment always ends; the sweeps with 256 slots, two sensors and rings of 128 are 4 short of that. A reading the sensor adds after its reader has left is in no figure (`OneLeftAtMost`).

## Proofs

All theorems hold for every value of the constants that the modules' assumptions
allow: any finite sets of threads, any capacities, any bounds.

| Module | Theorem | States |
|---|---|---|
| `SensorBufferProofs` | `Typing`, `AccountingHolds`, `ParkedHolds`, `NoLostWakeupHolds` | `TypeOK`; `Accounting` and `WaitedMeansFull`; `NobodyParkedAfterShutdown`; `NoLostWakeup` |
| | `Implements` | `Spec => ImplementsChannel` |
| `SensorProofs` | `RingTyping`; `RingRaceFree`, `RingImplementsQueue`, both for `~Overrun` | `TypeOK`; `NoDataRace`; `ImplementsQueue` |
| | `SensorRaceFree`, `SensorImplementsQueue`, for `~Overrun` | the same of a sensor |
| | `OneWriterHolds`, `StoppedIsSilentHolds`, `StoppedCountIsExactHolds` | the writer's owner, silence and exact count after `stop` |
| `ControlProofs` | `ControlTyping`, `GovernorsSoundHolds`, `CommandObeyedHolds`, `CommandsAgreeHolds` | `TypeOK` and the three invariants |
| `AggregationProofs` | `NoPartialFrameHolds`, `NoGapHolds`, `CleanExitPublishesAllHolds` | the invariants of the frames |
| | `ImplementsWindowsHolds` | `Spec => ImplementsWindows` |
| `StorageProofs` | `AckedIsStoredHolds`, `HourFilesInOrderHolds`, `FilesFollowEachOtherHolds`, `OnlyLateIsDroppedHolds`, `OneAnswerEachHolds` | the five invariants of the files, the shutdown and the callers |
| | `ImplementsLogHolds` | `Spec => ImplementsLog` |
| | `KnownIsFoundHolds`, `NoHoleHolds`, `QueriesKeepStorage` | the two invariants of the answers; `QueriesSpec => Spec` |
| | `FilesLoseLittle`, `RawAnswersAreStable` | `LossIsBounded`, `RawIsStable` |
| | `UpdateExact`, `MergeExact`; `AnswersAreExact`, `PartsMergeExactly` | `update` and `merge` for any sequences; `AggregateIsExact`, `MergeIsExact` |
| `GatewayProofs` | `GatewayTyping`, `DrainsAStoppedSensorHolds`, `NothingLeftBehindHolds`, `ReadingsAccountedHolds` | `TypeOK` and the three invariants |
| | `AblationIsGateway`, `AblationLeavesNothing`, `CountedIsReadHolds` | the experiment implements the gateway, inherits its invariants, and counts what it reads |
| `BenchProofs` | `RowAddsUpHolds`, `OneLeftAtMostHolds`, `RoomyIsNeverStuckHolds` | the three invariants of an experiment |

The assumptions are those the modules declare and TLC evaluates in the runs. What
a proof needs beyond a type: the ring's capacity is more than one; the buffer's is
positive (`new()` asserts it); the governor's default configuration is valid (any
given one is replaced by it unless it is valid); no frame has hour 0, the model's
sign of "no hour yet" (`None` in the code); hours are numbers, by whose order the
web server sorts the names of its files; the benchmark's sensors are finitely many;
`Unit` is a multiple of every count up to `MaxCount`, so that no division of the
statistics leaves a rest, and no more than `MaxCount` readings are made.

**Buffer.** `TypeOK` is inductive by itself. `Accounting` and `WaitedMeansFull`
are inductive together with it: a push that parks has seen a full queue, and the
length never exceeds the watermark. `NoLostWakeup` counts: while a consumer is
parked, the queue is no longer than the set of threads that owe a notify or have
been woken. An enqueue adds an item and a thread that owes a notify. A notify
either wakes a parked thread, which takes the notifier's place in the set, or
finds none parked. A dequeue removes an item and at most one helper. The
symmetric count of free slots covers producers. `Implements` maps `accepted` to
`delivered \o q`, and every step is a step of the channel or leaves it unchanged.

**Ring.** `NoDataRace` is not inductive. `Exclusion` is, while no write to a full
ring overlaps a read: such a write has the reader idle all along, and any other is
of a slot outside the contents, which stays outside, since only the reader moves
`read_idx` then, and away from it. `InHand` adds what the two threads hold: the
writer's slot is filled as far as the writer has come, the ring stays full until
an overwriting writer gives up the oldest value, and the reader has copied the
oldest value as far as it has come. With these a half-written value is invisible,
the store of `write_idx` is SampleQueue's Write, a store of `read_idx` its Read or
GiveUpOldest, and every other step a stutter. `ContentsRead` and `ContentsWrite`
are the facts about indices modulo the capacity this rests on.

**Sensor.** Every step of a sensor is a step of its ring or none
(`SensorStepIsRingStep`), so the ring's theorems carry over. `Life` ties the
generator's place, the join handle, the writer's home and the owner's place to
each other.

**Gateway.** `Drained`: a reader that drains has stopped its sensor, past the join
the generator is gone, and a reader that has left with no stage failed left an
empty ring. `InOrder`: with no stage failed, main alone closes the buffer, after
the last reader has left; the dispatcher leaves a closed and empty buffer, its last
window sent, the consumer leaves after it with the channel empty, and main after the
consumer.

**Accounting.** `ReadingsAccounted`, `CountedIsRead` and `RowAddsUp` compare sums
over any number of sensors. A step changes the summand of one sensor, by one, and
one other counter: `SumChange` says what that does to the sum, `SumLeq` and
`SumConstant` bound it. The sum is the community modules' `MapThenSumSet`, a
recursive function over subsets, and the induction theorems of the library cannot
be used on it (they take an operator as a parameter). `SumTheorems` does without:
if the equation were wrong for some subset there would be a smallest such subset
(`Smallest`, from the well-foundedness of the strict subsets of a finite set), and
one element less gives the contradiction. `CountedIsRead` adds that the ring a
reader has counted holds no fewer readings until the reader comes; `NoneRefused`
is a hypothesis of its first half, and no push is refused unless a stage failed.

**Benchmark.** `InRing`: a sensor that is about to add has seen room, and only it
adds, so a ring is never over its capacity. `Left`: a reader leaves an empty ring on
the raised flag, so at most the reading of a sensor past its look at the flag comes
after it (`OneLeftAtMost`). `Roomy`: once the consumer has left, on the raised flag
and an empty buffer, what may still come, per sensor a full ring, a reading in hand
and one to be added, never grows; `RoomyIsNeverStuck` follows, since a stuck reader
has the buffer full and one reading in its hand.

**Aggregation.** `Routing`: readings are popped in their order, each is routed once
and to the open window. `Window`: while the dispatcher is in its loop, the workers
that owe a report and the reports in the channel are together as many as it still
waits for; `Rotate` is the last message in an inbox, since the dispatcher routes
nothing before all reports are in, and a worker that was asked and owes nothing has
nothing left. Any report that does not come ends the loop for good, so none is ever
merged into a later window. `Places`: a reading of the open window is in exactly one
place, its worker's inbox or bucket, a report, or the merged data, and no other is in
any. When the last report is merged there is no place left but the merged data:
`NoPartialFrame`. `Sequel` counts windows, `Ending` follows the last one, which is
emitted only after the source was found closed and empty. For `ImplementsWindows`,
`Covers` says that the readings in frames are the first so many. What `Publish` adds
are the readings routed in the open window: all that were popped, by `Routing`, less
those in frames, by `NoPartialFrame` and the numbering. So a frame goes on where the
last one ended (`PublishIs`), and the readings in frames are then all that were
popped. `Publish` is Emit, `Feed` is Push, `ReceiveFrame` is Take, and every other
step is a stutter.

**Control.** `Governed` is `Sound` of a reader's governor, and that it obeyed the
mode in force when the reader last chose its sleep. `UpdateIs` reduces a call of
`update_with_override` to it (a clamped sleep is bounded by `ClampBound`, the limit
the command carries or the governor's own minimum, whichever is more), one lemma per branch (`SetModeIs`, `RecoverIs`,
`LimitedIs`, `SteerIs`), and `SmoothedIs` bounds the weighted mean, the only place
with a division. `Known` adds to `CommandsAgree` that only a draining reader leaves:
a command the scheduler cannot send any more is one nobody needs.

**Storage.** `Typed` and `AtWork` (a worker at a file has a request at hand).
`Ordered`: frames are worked on in the order of their numbers, so what is in a
file or in memory is older than the request at hand, and that than what is queued;
and the lines in memory, when they are of an hour, have all of the hour's file, so
a rewrite loses nothing. `Published`: how far the request at hand is published,
and that no file is ahead of one that is written before it. `DrainsLate`: the
worker leaves its second loop only after `shutdown()` was called, and what comes
into the empty channel after that is late. `Answers` says without cardinalities what
`OneAnswerEach` says with them: a caller waits exactly when its request is at the
worker or at one place of the channel, and never at two. `ImplementsLogHolds` maps
`stored` to the frames in the hourly files: `WriteHour` is Store (`DiskGrows`, below),
the other renames and the acknowledgement are the log's actions, for the request at
hand is then the newest on disk (`AtHandIsNewest`), and every other step, a failure
or a death among them, is a stutter. The run checks `ImplementsLog`, of which
`AckedIsStored` is a consequence.

**Queries.** The storage goes on as it is (`QueriesKeepStorage`), so its invariants
hold while requests are answered. `DiskGrows`: a line on disk stays there, and one
that comes is newer than all the others; this needs `Unwritten`, that a line a failed
write left in memory is newer than what is on disk. `KnownInReach`: as long as there
is room in the answer, a known frame that belongs to it is found or its hour is still
to be read. For `NoHole`, `ListedFirst`: a file that was listed had a line then, so a
frame of an earlier hour whose file was not listed is newer than that line, and with
the clock never set back there is no such frame. `OlderInReach` carries that through
the scan: newest first, what is older than a frame found is found or still to be
read. `MatchingIs`, from `FirstOnes`, is what a limited read takes of a file.

**Text files.** `LossIsBounded` is not inductive: a line that is open still parses,
and is lost only when the next text joins it. `Owed` adds to what a sensor has lost
what is bound to be lost: the reading in hand when its text was not written, and,
when the last line was left without an end, the next text, together with the
reading the line still gives back. A failed write owes at most two more, a death of
the process at most one more per sensor, and a text that joins a line pays what was
owed for it: `Owed` never exceeds `2 * failed + restarts` (`OwedText`, `OwedNoText`,
`OwedEnd`, `OwedPush`, `OwedRestart`). TLC checked this invariant before it was
proved. It is why `LossIsBounded` is a bound for each sensor: a death of the process
may cost every sensor a reading, so no bound on all of them together can count it
once. `LastLineInv` says what the last line and the reader have to do with each
other. `RawAnswersAreStable` says what an answer can still become. One that has the limit's
number of readings, of a file with more, stays as it is; to any other, what is written
later is added at the end, except that its last reading is taken back when a fault
left the line without an end and the next text joins it (`FileStep`, from
`ReadingsAppend` and the lemmas after it). `AnswerInv` is about an answer that is being
read while the file grows: the readings seen and the pieces of lines still to read
are together no more than the readings made (`AnswerStep`, `TextRead`), so statistics
of an answer stay within `MaxCount`.

**Statistics.** By definition they depend on a sequence only through its count, sum,
sum of squares and extrema (`StatsOfIs`). With `Share(n)`, the `Unit` divided by `n`,
a mean is sum times share, so every division in `Update` and `Merge` is exact, and
what is left is the identity of Welford and that of Chan, as polynomials in the sums
and shares (`UpdateIs`, `MergeIs`). `UpdateExact` and `MergeExact` put them together
with what a sum over a sequence does when a value is added, or two sequences are
joined.

What is said of a file of any length, and of a recursive function over its lines,
would be an induction, whose theorems in the library take an operator as a parameter.
`NumbersUpTo` stands for it: a set of numbers with 0 in it, and with each number the
next, holds all numbers up to `n`. It takes a set, not an operator, and follows from
`Smallest`. `StepByStep` and `Recursion` give the recursive functions their equations.

Only model-checked:

* liveness, which is beyond the prover, as is `ENABLED`: `PushReturnsOrIsOvertaken`, `EveryItemDelivered`, `ShutdownEndsConsumers`, `NewestIsRead`, `EngineEnds`, `CallsReturn`, `ShutdownEnds`, `CalmRestores`, `ExperimentEnds`;
* `NoDataRace` and `ImplementsQueue` with `Overrun`: there they fail (`RoundQueueRace`);
* that `StatsOf` is what `Update` and `Merge` compute when `Unit` is not a multiple of a count: then the model rounds down where the code has an f64, and no exact statement holds.

## Not modelled

* Loss of power: the only `sync_all` comes when the storage worker ends, and the code promises nothing about it.
* HTTP, HTML, routing, formatting, resource lookup, `build.rs`, the snapshot for the statistics page, the statistics cache: they change no state another part depends on.
* `update_max` (`main.rs` 97): a compare-and-exchange loop for a statistic nobody acts on.
* Rounding of f64, anomaly scores, nanosecond totals, CPU times and lags.
* The ring's weak memory order, `read_batch` and the raw-pointer calls, which repeat or split the modelled steps.
* The experiment's buffer, storage, governor, aggregation, types and benchmark: copies of the gateway's, byte for byte.
* Figures, reports and the dashboard's page: no behaviour.

## Plan

Every component of the running system has a module, and every safety property a
run checks is proved. What could follow:

1. `Bench` and `Gateway` against `BoundedChannel`, where they have a counter with its behaviour.
2. The ring with stale loads of the other thread's index, instead of sequential consistency.
3. Liveness, with a prover that has `ENABLED`.
