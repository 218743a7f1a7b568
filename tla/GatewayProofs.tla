----------------------------- MODULE GatewayProofs -----------------------------
(***************************************************************************)
(* What holds of the gateway's threads for any readers, ring and buffer    *)
(* sizes, and whichever stages may fail: types, that a draining reader's   *)
(* sensor is stopped for good, that a shutdown in which nothing failed     *)
(* leaves nothing behind, that every reading is accounted for, and what    *)
(* the counter of the ablation experiment may say.                         *)
(***************************************************************************)
EXTENDS Ablation, SumTheorems, TLAPS

LEMMA InitTyped == Init => TypeOK
<1> SUFFICES ASSUME Init PROVE TypeOK
  OBVIOUS
<1>1. stop \in BOOLEAN /\ closed \in BOOLEAN /\ failed \in BOOLEAN /\ inWindow \in BOOLEAN
  BY Zenon DEF Init
<1>2. /\ running \in [Readers -> BOOLEAN] /\ draining \in [Readers -> BOOLEAN]
      /\ stopped \in [Readers -> BOOLEAN] /\ command \in [Readers -> BOOLEAN]
  BY DEF Init
<1>3. /\ ring \in [Readers -> 0 .. RingUsable] /\ buf \in 0 .. Capacity /\ popped \in Nat
      /\ made \in [Readers -> Nat] /\ overwritten \in [Readers -> Nat]
      /\ refused \in [Readers -> Nat] /\ frames \in 0 .. OutCap
  BY GatewayAssumption DEF Init
<1> QED BY <1>1, <1>2, <1>3 DEF Init, TypeOK

\* Where a reader may be.
Places == {"commands", "flag", "read", "push", "status", "exited",
           "join_in_commands", "join_in_flag", "join_in_push"}

LEMMA StartDrainingTyped ==
  ASSUME TypeOK, NEW r \in Readers, NEW next \in Places, NEW join \in Places,
         StartDraining(r, join, next)
  PROVE  /\ running' \in [Readers -> BOOLEAN] /\ draining' \in [Readers -> BOOLEAN]
         /\ stopped' \in [Readers -> BOOLEAN]
         /\ rpc' \in [Readers -> Places]
<1>1. draining' \in [Readers -> BOOLEAN] /\ stopped' \in [Readers -> BOOLEAN]
  BY DEF StartDraining, Set, TypeOK
<1>2. running' \in [Readers -> BOOLEAN] BY DEF StartDraining, Set, TypeOK
<1>3. rpc' \in [Readers -> Places] BY DEF StartDraining, Set, TypeOK, Places
<1> QED BY <1>1, <1>2, <1>3

LEMMA NextTyped == TypeOK /\ [Next]_vars => TypeOK'
<1> SUFFICES ASSUME TypeOK, [Next]_vars PROVE TypeOK'
  OBVIOUS
<1> USE GatewayAssumption DEF TypeOK, Places, Set, sensorVars, readerVars, bufferVars,
           outputVars, otherVars
<1>1. ASSUME NEW r \in Readers, Generator(r) PROVE TypeOK'
  <2>1. CASE GeneratorCheck(r) BY <2>1 DEF GeneratorCheck
  <2>2. CASE GeneratorWrite(r) BY <2>2 DEF GeneratorWrite
  <2> QED BY <1>1, <2>1, <2>2 DEF Generator
<1>2. ASSUME NEW r \in Readers, Reader(r) PROVE TypeOK'
  <2>1. CASE TakeCommand(r)
    <3>1. command' \in [Readers -> BOOLEAN] BY <2>1 DEF TakeCommand
    <3>2. StartDraining(r, "join_in_commands", "commands") BY <2>1 DEF TakeCommand
    <3> QED BY <2>1, <3>1, <3>2, StartDrainingTyped DEF TakeCommand
  <2>2. CASE NoCommand(r) BY <2>2 DEF NoCommand
  <2>3. CASE TestStop(r)
    <3>1. CASE StartDraining(r, "join_in_flag", "read")
      BY <2>3, <3>1, StartDrainingTyped DEF TestStop
    <3>2. CASE rpc' = Set(rpc, r, "read") /\ UNCHANGED <<running, draining, stopped>>
      BY <2>3, <3>2 DEF TestStop
    <3> QED BY <2>3, <3>1, <3>2 DEF TestStop
  <2>4. CASE JoinGenerator(r) BY <2>4 DEF JoinGenerator
  <2>5. CASE Read(r) BY <2>5 DEF Read
  <2>6. CASE Push(r) BY <2>6 DEF Push
  <2>7. CASE PushRefused(r)
    <3>1. refused' \in [Readers -> Nat] BY <2>7 DEF PushRefused
    <3>2. StartDraining(r, "join_in_push", "status") BY <2>7 DEF PushRefused
    <3> QED BY <2>7, <3>1, <3>2, StartDrainingTyped DEF PushRefused
  <2>8. CASE Status(r)
    <3>1. failed' \in BOOLEAN BY <2>8, Zenon DEF Status
    <3> QED BY <2>8, <3>1 DEF Status
  <2> QED BY <1>2, <2>1, <2>2, <2>3, <2>4, <2>5, <2>6, <2>7, <2>8 DEF Reader
<1>3. CASE SchedulerEnds BY <1>3 DEF SchedulerEnds
<1>4. CASE Dispatcher
  <2>1. CASE DispatcherPop BY <2>1 DEF DispatcherPop
  <2>2. CASE DispatcherEnds BY <2>2 DEF DispatcherEnds
  <2>3. CASE WindowElapses BY <2>3 DEF WindowElapses
  <2>4. CASE SendFrame
    <3>1. inWindow' \in BOOLEAN BY <2>4, Zenon DEF SendFrame
    <3>2. frames' \in 0 .. OutCap BY <2>4 DEF SendFrame
    <3> QED BY <2>4, <3>1, <3>2 DEF SendFrame
  <2>5. CASE FailClosed
    <3>1. failed' \in BOOLEAN BY <2>5, Zenon DEF FailClosed
    <3> QED BY <2>5, <3>1 DEF FailClosed
  <2> QED BY <1>4, <2>1, <2>2, <2>3, <2>4, <2>5 DEF Dispatcher
<1>5. CASE Consumer
  <2>1. CASE PersistFailed BY <2>1 DEF PersistFailed
  <2>2. CASE ConsumerCloses BY <2>2 DEF ConsumerCloses
  <2>3. CASE ConsumerIdle
    <3>1. failed' \in BOOLEAN BY <2>3, Zenon DEF ConsumerIdle
    <3> QED BY <2>3, <3>1 DEF ConsumerIdle
  <2>4. CASE ConsumerEnds BY <2>4 DEF ConsumerEnds
  <2>5. CASE ReceiveFrame BY <2>5 DEF ReceiveFrame
  <2>6. CASE Persisted BY <2>6 DEF Persisted
  <2> QED BY <1>5, <2>1, <2>2, <2>3, <2>4, <2>5, <2>6 DEF Consumer
<1>6. CASE Signal BY <1>6 DEF Signal
<1>7. CASE Main
  <2>1. \E to \in {"join_readers", "close", "join_consumer", "done"} : mpc' = to
    BY <1>7 DEF Main, MainStep, JoinScheduler, JoinReaders, CloseBuffer, JoinConsumer
  <2>2. closed' \in BOOLEAN /\ UNCHANGED <<stop, sensorVars, readerVars, command, buf, popped,
                                         outputVars, spc, apc, cpc, failed>>
    BY <1>7 DEF Main, MainStep, JoinScheduler, JoinReaders, CloseBuffer, JoinConsumer
  <2> QED BY <2>1, <2>2
<1>8. CASE UNCHANGED vars BY <1>8 DEF vars
<1> QED
  BY <1>1, <1>2, <1>3, <1>4, <1>5, <1>6, <1>7, <1>8 DEF Next, Terminated

\* The type invariant, with the buffer and every ring within their capacity.
THEOREM GatewayTyping == Spec => []TypeOK
BY InitTyped, NextTyped, PTL DEF Spec

-----------------------------------------------------------------------------
\* A reader that drains has stopped its sensor, and past the join its generator
\* is gone; so it is when the reader leaves, and until a stage fails the ring is
\* empty then.
Drained(r) ==
  /\ draining[r] <=> stopped[r]
  /\ draining[r] => ~running[r]
  /\ draining[r] => \/ gpc[r] = "exited"
                    \/ rpc[r] \in {"join_in_commands", "join_in_flag", "join_in_push"}
  /\ rpc[r] = "exited" => draining[r] /\ (~failed => ring[r] = 0)

LEMMA NextDrained ==
  ASSUME TypeOK, [Next]_vars, NEW q \in Readers, Drained(q)
  PROVE  Drained(q)'
<1> USE DEF TypeOK, Drained, Set, sensorVars, readerVars, bufferVars, outputVars,
           otherVars
<1>1. ASSUME NEW r \in Readers, Generator(r) PROVE Drained(q)'
  <2>1. CASE GeneratorCheck(r) BY <2>1 DEF GeneratorCheck
  <2>2. CASE GeneratorWrite(r) BY <2>2 DEF GeneratorWrite
  <2> QED BY <1>1, <2>1, <2>2 DEF Generator
<1>2. ASSUME NEW r \in Readers, Reader(r) PROVE Drained(q)'
  <2>1. CASE TakeCommand(r) BY <2>1 DEF TakeCommand, StartDraining
  <2>2. CASE NoCommand(r) BY <2>2 DEF NoCommand
  <2>3. CASE TestStop(r) BY <2>3 DEF TestStop, StartDraining
  <2>4. CASE JoinGenerator(r) BY <2>4 DEF JoinGenerator
  <2>5. CASE Read(r) BY <2>5 DEF Read
  <2>6. CASE Push(r) BY <2>6 DEF Push
  <2>7. CASE PushRefused(r) BY <2>7 DEF PushRefused, StartDraining
  <2>8. CASE Status(r) BY <2>8 DEF Status
  <2> QED BY <1>2, <2>1, <2>2, <2>3, <2>4, <2>5, <2>6, <2>7, <2>8 DEF Reader
<1>3. CASE SchedulerEnds BY <1>3 DEF SchedulerEnds
<1>4. CASE Dispatcher
  BY <1>4 DEF Dispatcher, DispatcherPop, WindowElapses, SendFrame, DispatcherEnds, FailClosed
<1>5. CASE Consumer
  BY <1>5 DEF Consumer, ReceiveFrame, Persisted, PersistFailed, ConsumerCloses,
              ConsumerIdle, ConsumerEnds
<1>6. CASE Signal \/ Main
  BY <1>6 DEF Signal, Main, MainStep, JoinScheduler, JoinReaders, CloseBuffer, JoinConsumer
<1>7. CASE UNCHANGED vars BY <1>7 DEF vars
<1> QED
  BY <1>1, <1>2, <1>3, <1>4, <1>5, <1>6, <1>7 DEF Next, Terminated

LEMMA DrainedHolds == Spec => [](\A r \in Readers : Drained(r))
<1>1. Init => \A r \in Readers : Drained(r)
  BY DEF Init, Drained
<1>2. TypeOK /\ (\A r \in Readers : Drained(r)) /\ [Next]_vars
        => (\A r \in Readers : Drained(r))'
  BY NextDrained
<1> QED BY <1>1, <1>2, GatewayTyping, PTL DEF Spec

\* A reader that drains has its sensor stopped for good, so the ring it is about
\* to empty cannot fill again.
THEOREM DrainsAStoppedSensorHolds == Spec => []DrainsAStoppedSensor
<1>1. (\A r \in Readers : Drained(r)) => DrainsAStoppedSensor
  BY DEF Drained, DrainsAStoppedSensor
<1> QED BY <1>1, DrainedHolds, PTL

-----------------------------------------------------------------------------
\* The order of a shutdown in which nothing has failed: main closes the buffer,
\* nobody else, after the last reader has left; the dispatcher leaves a closed
\* and empty buffer and no readings in its window; the consumer stops receiving when
\* the dispatcher has left and no frame is waiting; main leaves after the consumer.
InOrder ==
  /\ cpc = "close" => failed
  /\ ~failed /\ closed => mpc \in {"join_consumer", "done"}
  /\ mpc \in {"close", "join_consumer", "done"} => \A r \in Readers : rpc[r] = "exited"
  /\ ~failed => \A r \in Readers : refused[r] = 0
  /\ apc = "send_last" => closed /\ buf = 0
  /\ ~failed /\ apc = "exited" => closed /\ buf = 0 /\ ~inWindow
  /\ ~failed /\ cpc \in {"join", "exited"} => apc = "exited" /\ frames = 0
  /\ cpc = "exited" => apc = "exited"
  /\ mpc = "done" => cpc = "exited"

LEMMA NextInOrder ==
  ASSUME TypeOK, InOrder, [Next]_vars
  PROVE  InOrder'
<1> USE DEF TypeOK, InOrder, Set, sensorVars, readerVars, bufferVars, outputVars,
           otherVars
<1>1. ASSUME NEW r \in Readers, Generator(r) PROVE InOrder'
  BY <1>1 DEF Generator, GeneratorCheck, GeneratorWrite
<1>2. ASSUME NEW r \in Readers, Reader(r) PROVE InOrder'
  <2>1. CASE TakeCommand(r) BY <2>1 DEF TakeCommand, StartDraining
  <2>2. CASE NoCommand(r) BY <2>2 DEF NoCommand
  <2>3. CASE TestStop(r) BY <2>3 DEF TestStop, StartDraining
  <2>4. CASE JoinGenerator(r) BY <2>4 DEF JoinGenerator
  <2>5. CASE Read(r) BY <2>5 DEF Read
  <2>6. CASE Push(r) BY <2>6 DEF Push
  <2>7. CASE PushRefused(r) BY <2>7 DEF PushRefused, StartDraining
  <2>8. CASE Status(r) BY <2>8 DEF Status
  <2> QED BY <1>2, <2>1, <2>2, <2>3, <2>4, <2>5, <2>6, <2>7, <2>8 DEF Reader
<1>3. CASE SchedulerEnds BY <1>3 DEF SchedulerEnds
<1>4. CASE Dispatcher
  <2>1. CASE DispatcherPop BY <2>1 DEF DispatcherPop
  <2>2. CASE DispatcherEnds BY <2>2 DEF DispatcherEnds
  <2>3. CASE WindowElapses BY <2>3 DEF WindowElapses
  <2>4. CASE SendFrame BY <2>4 DEF SendFrame
  <2>5. CASE FailClosed BY <2>5 DEF FailClosed
  <2> QED BY <1>4, <2>1, <2>2, <2>3, <2>4, <2>5 DEF Dispatcher
<1>5. CASE Consumer
  <2>1. CASE PersistFailed BY <2>1 DEF PersistFailed
  <2>2. CASE ConsumerCloses BY <2>2 DEF ConsumerCloses
  <2>3. CASE ConsumerIdle \/ ConsumerEnds BY <2>3 DEF ConsumerIdle, ConsumerEnds
  <2>4. CASE ReceiveFrame \/ Persisted BY <2>4 DEF ReceiveFrame, Persisted
  <2> QED BY <1>5, <2>1, <2>2, <2>3, <2>4 DEF Consumer
<1>6. CASE Signal BY <1>6 DEF Signal
<1>7. CASE Main
  BY <1>7 DEF Main, MainStep, JoinScheduler, JoinReaders, CloseBuffer, JoinConsumer
<1>8. CASE UNCHANGED vars BY <1>8 DEF vars
<1> QED
  BY <1>1, <1>2, <1>3, <1>4, <1>5, <1>6, <1>7, <1>8 DEF Next, Terminated

LEMMA InOrderHolds == Spec => []InOrder
<1>1. Init => InOrder BY DEF Init, InOrder
<1>2. TypeOK /\ InOrder /\ [Next]_vars => InOrder' BY NextInOrder
<1> QED BY <1>1, <1>2, GatewayTyping, PTL DEF Spec

\* The shutdown order loses nothing when no stage fails (docs/report_azure.tex
\* 241): no push is refused, and when main returns, no sensor generates, the rings,
\* the buffer and the window in progress are empty, and every frame was persisted.
THEOREM NothingLeftBehindHolds == Spec => []NothingLeftBehind
<1>1. InOrder /\ (\A r \in Readers : Drained(r)) => NothingLeftBehind
  <2> SUFFICES ASSUME InOrder, \A r \in Readers : Drained(r), ~failed
               PROVE  NothingLeftBehind
    BY DEF NothingLeftBehind
  <2>1. \A r \in Readers : refused[r] = 0 BY DEF InOrder
  <2>2. ASSUME mpc = "done" PROVE buf = 0 /\ ~inWindow /\ frames = 0
    BY <2>2 DEF InOrder
  <2>3. ASSUME mpc = "done", NEW r \in Readers PROVE ring[r] = 0 /\ gpc[r] = "exited"
    <3>1. rpc[r] = "exited" BY <2>3 DEF InOrder
    <3> QED BY <3>1 DEF Drained
  <2> QED BY <2>1, <2>2, <2>3 DEF NothingLeftBehind
<1> QED BY <1>1, InOrderHolds, DrainedHolds, PTL

-----------------------------------------------------------------------------
\* The steps of the dispatcher that pop nothing.
DispatcherStays == WindowElapses \/ SendFrame \/ DispatcherEnds \/ FailClosed

\* Where the readings of a sensor are that are not with the buffer yet.
Here == [r \in Readers |-> overwritten[r] + ring[r] + InHand(r) + refused[r]]

LEMMA TotalIs == ASSUME NEW f PROVE Total(f) = SumOf(f, Readers)
BY DEF Total, SumOf, MapThenSumSet, MapThenFoldSet

LEMMA Balance ==
  ASSUME NEW m \in Int, NEW h \in Int, NEW b \in Int, NEW p \in Int, NEW d \in Int,
         NEW x \in Int, NEW y \in Int, m = h + b + p
  PROVE  m + (d + x + y) = (h + d) + (b + x) + (p + y)
OBVIOUS

\* What a step puts with one sensor's readings, and into the buffer and out of it,
\* are readings that the sensor generated.
LEMMA AccountedStep ==
  ASSUME TypeOK, ReadingsAccounted, NEW r \in Readers, NEW d \in Int, NEW x \in Int, NEW y \in Int,
         \A q \in Readers : made'[q] = IF q = r THEN made[r] + (d + x + y) ELSE made[q],
         \A q \in Readers : Here'[q] = IF q = r THEN Here[r] + d ELSE Here[q],
         buf' = buf + x, popped' = popped + y
  PROVE  ReadingsAccounted'
<1>1. IsFiniteSet(Readers) BY GatewayAssumption
<1>2. \A q \in Readers : made[q] \in Int /\ Here[q] \in Int
  BY GatewayAssumption DEF TypeOK, Here, InHand
<1>3. d + x + y \in Int OBVIOUS
<1>4. SumOf(made', Readers) = SumOf(made, Readers) + (d + x + y)
  BY <1>1, <1>2, <1>3, SumChange
<1>5. SumOf(Here', Readers) = SumOf(Here, Readers) + d BY <1>1, <1>2, SumChange
<1>6. SumOf(made, Readers) \in Int /\ SumOf(Here, Readers) \in Int
  BY <1>1, <1>2, SumType
<1>7. SumOf(made, Readers) = SumOf(Here, Readers) + buf + popped
  BY TotalIs DEF ReadingsAccounted, Here
<1>8. buf \in Int /\ popped \in Int BY GatewayAssumption DEF TypeOK
<1>9. SumOf(made, Readers) + (d + x + y)
        = (SumOf(Here, Readers) + d) + (buf + x) + (popped + y)
  BY <1>6, <1>7, <1>8, Balance
<1>10. SumOf(made', Readers) = SumOf(Here', Readers) + buf' + popped'
  BY <1>4, <1>5, <1>9
<1> QED BY <1>10, TotalIs DEF ReadingsAccounted, Here

LEMMA AccountedKept ==
  ASSUME TypeOK, ReadingsAccounted, UNCHANGED <<made, buf, popped>>,
         \A q \in Readers : Here'[q] = Here[q]
  PROVE  ReadingsAccounted'
<1>1. SumOf(Here', Readers) = SumOf(Here, Readers) BY SumSame, GatewayAssumption
<1> QED BY <1>1, TotalIs DEF ReadingsAccounted, Here

LEMMA NextAccounted ==
  ASSUME TypeOK, ReadingsAccounted, [Next]_vars
  PROVE  ReadingsAccounted'
<1> USE DEF Set, sensorVars, readerVars, bufferVars, outputVars,
           otherVars
<1>0. ASSUME UNCHANGED <<made, ring, overwritten, refused, buf, popped>>,
             \A q \in Readers : (rpc'[q] = "push") <=> (rpc[q] = "push")
      PROVE  ReadingsAccounted'
  <2>1. \A q \in Readers : Here'[q] = Here[q] BY <1>0 DEF Here, InHand
  <2> QED BY <1>0, <2>1, AccountedKept
<1>1. ASSUME NEW r \in Readers, GeneratorCheck(r) PROVE ReadingsAccounted'
  BY <1>0, <1>1 DEF GeneratorCheck
<1>2. ASSUME NEW r \in Readers, GeneratorWrite(r) PROVE ReadingsAccounted'
  <2>1. UNCHANGED <<rpc, refused, buf, popped>> BY <1>2 DEF GeneratorWrite
  <2>2. CASE UNCHANGED <<made, ring, overwritten>> BY <1>0, <2>1, <2>2
  <2>3. CASE /\ made' = [made EXCEPT ![r] = made[r] + 1]
             /\ \/ ring' = [ring EXCEPT ![r] = ring[r] + 1] /\ UNCHANGED overwritten
                \/ overwritten' = [overwritten EXCEPT ![r] = overwritten[r] + 1] /\ UNCHANGED ring
    <3>1. \A q \in Readers : made'[q] = IF q = r THEN made[r] + (1 + 0 + 0) ELSE made[q]
      BY <2>3 DEF TypeOK
    <3>2. \A q \in Readers : Here'[q] = IF q = r THEN Here[r] + 1 ELSE Here[q]
      <4>1. CASE ring' = [ring EXCEPT ![r] = ring[r] + 1] /\ UNCHANGED overwritten
        BY <2>1, <4>1, GatewayAssumption DEF Here, InHand, TypeOK
      <4>2. CASE /\ overwritten' = [overwritten EXCEPT ![r] = overwritten[r] + 1]
                 /\ UNCHANGED ring
        BY <2>1, <4>2, GatewayAssumption DEF Here, InHand, TypeOK
      <4> QED BY <2>3, <4>1, <4>2
    <3>3. buf' = buf + 0 /\ popped' = popped + 0
      BY <2>1, GatewayAssumption DEF TypeOK
    <3> QED BY <3>1, <3>2, <3>3, AccountedStep
  <2> QED BY <1>2, <2>2, <2>3 DEF GeneratorWrite
<1>3. ASSUME NEW r \in Readers, TakeCommand(r) \/ NoCommand(r) \/ TestStop(r)
                                  \/ JoinGenerator(r) \/ Status(r)
      PROVE  ReadingsAccounted'
  <2>1. /\ UNCHANGED <<made, ring, overwritten, refused, buf, popped>> /\ rpc[r] # "push"
        /\ \E p \in Places \ {"push"} : rpc' = [rpc EXCEPT ![r] = p]
    BY <1>3 DEF TakeCommand, NoCommand, TestStop, JoinGenerator, Status, StartDraining, Places
  <2>2. \A q \in Readers : (rpc'[q] = "push") <=> (rpc[q] = "push")
    BY <2>1 DEF TypeOK
  <2> QED BY <1>0, <2>1, <2>2
<1>4. ASSUME NEW r \in Readers, Read(r) PROVE ReadingsAccounted'
  <2>1. UNCHANGED <<made, overwritten, refused, buf, popped>> /\ rpc[r] = "read"
    BY <1>4 DEF Read
  <2>2. CASE ring[r] > 0
    <3>1. ring' = [ring EXCEPT ![r] = ring[r] - 1] /\ rpc' = [rpc EXCEPT ![r] = "push"]
      BY <1>4, <2>2 DEF Read
    <3>2. \A q \in Readers : Here'[q] = Here[q]
      BY <2>1, <2>2, <3>1, GatewayAssumption DEF Here, InHand, TypeOK
    <3> QED BY <2>1, <3>2, AccountedKept
  <2>3. CASE ~(ring[r] > 0)
    <3>1. ring' = ring /\ rpc' = [rpc EXCEPT ![r] = "status"] BY <1>4, <2>3 DEF Read
    <3>2. \A q \in Readers : (rpc'[q] = "push") <=> (rpc[q] = "push")
      BY <2>1, <3>1 DEF TypeOK
    <3> QED BY <1>0, <2>1, <3>1, <3>2
  <2> QED BY <2>2, <2>3
<1>5. ASSUME NEW r \in Readers, Push(r) PROVE ReadingsAccounted'
  <2>1. /\ UNCHANGED <<made, ring, overwritten, refused, popped>> /\ rpc[r] = "push"
        /\ rpc' = [rpc EXCEPT ![r] = "read"] /\ buf' = buf + 1
    BY <1>5 DEF Push
  <2>2. \A q \in Readers : Here'[q] = IF q = r THEN Here[r] + (-1) ELSE Here[q]
    BY <2>1, GatewayAssumption DEF Here, InHand, TypeOK
  <2>3. \A q \in Readers : Here[q] \in Int BY GatewayAssumption DEF TypeOK, Here, InHand
  <2>4. SumOf(Here, Readers) \in Int BY <2>3, SumType, GatewayAssumption
  <2>5. SumOf(Here', Readers) = SumOf(Here, Readers) + (-1)
    BY <2>2, <2>3, SumChange, GatewayAssumption
  <2>6. SumOf(made, Readers) = SumOf(Here, Readers) + buf + popped
    BY TotalIs DEF ReadingsAccounted, Here
  <2>7. buf \in Int /\ popped \in Int BY GatewayAssumption DEF TypeOK
  <2>8. SumOf(Here, Readers) + buf + popped = (SumOf(Here, Readers) + (-1)) + (buf + 1) + popped
    BY <2>4, <2>7
  <2>9. SumOf(made', Readers) = SumOf(Here', Readers) + buf' + popped'
    BY <2>1, <2>5, <2>6, <2>8
  <2> QED BY <2>9, TotalIs DEF ReadingsAccounted, Here
<1>6. ASSUME NEW r \in Readers, PushRefused(r) PROVE ReadingsAccounted'
  <2>1. /\ UNCHANGED <<made, ring, overwritten, buf, popped>> /\ rpc[r] = "push"
        /\ refused' = [refused EXCEPT ![r] = refused[r] + 1]
        /\ \E p \in {"join_in_push", "status"} : rpc' = [rpc EXCEPT ![r] = p]
    BY <1>6 DEF PushRefused, StartDraining
  <2>2. \A q \in Readers : Here'[q] = Here[q]
    BY <2>1, GatewayAssumption DEF Here, InHand, TypeOK
  <2> QED BY <2>1, <2>2, AccountedKept
<1>7. CASE DispatcherPop
  <2>1. UNCHANGED <<made, ring, overwritten, refused, rpc>> /\ buf' = buf - 1
          /\ popped' = popped + 1
    BY <1>7 DEF DispatcherPop
  <2>2. buf \in Int /\ popped \in Int BY GatewayAssumption DEF TypeOK
  <2>3. SumOf(Here', Readers) = SumOf(Here, Readers) BY <2>1 DEF Here, InHand
  <2>4. SumOf(Here, Readers) \in Int
    <3>1. \A q \in Readers : Here[q] \in Int BY GatewayAssumption DEF TypeOK, Here, InHand
    <3> QED BY <3>1, SumType, GatewayAssumption
  <2>5. SumOf(made, Readers) = SumOf(Here, Readers) + buf + popped
    BY TotalIs DEF ReadingsAccounted, Here
  <2>6. SumOf(Here, Readers) + buf + popped = SumOf(Here, Readers) + (buf - 1) + (popped + 1)
    BY <2>2, <2>4
  <2>7. SumOf(made', Readers) = SumOf(Here', Readers) + buf' + popped'
    BY <2>1, <2>3, <2>5, <2>6
  <2> QED BY <2>7, TotalIs DEF ReadingsAccounted, Here
<1>8. CASE SchedulerEnds \/ DispatcherStays \/ Consumer \/ Signal \/ Main
  <2>1. UNCHANGED <<made, ring, overwritten, refused, rpc, buf, popped>>
    BY <1>8 DEF SchedulerEnds, DispatcherStays, WindowElapses, SendFrame, DispatcherEnds,
                FailClosed, Consumer, ReceiveFrame, Persisted, PersistFailed,
                ConsumerCloses, ConsumerIdle, ConsumerEnds, Signal, Main, MainStep,
                JoinScheduler, JoinReaders, CloseBuffer, JoinConsumer
  <2> QED BY <1>0, <2>1
<1>9. CASE UNCHANGED vars BY <1>0, <1>9 DEF vars
<1> QED
  BY <1>1, <1>2, <1>3, <1>4, <1>5, <1>6, <1>7, <1>8, <1>9
     DEF Next, Generator, Reader, Dispatcher, DispatcherStays, Terminated

\* Every reading a sensor generated is somewhere, whatever fails: given up by its
\* ring, still in it, in the reader's hand, refused, in the buffer, or with the
\* dispatcher.
THEOREM ReadingsAccountedHolds == Spec => []ReadingsAccounted
<1>1. Init => ReadingsAccounted
  <2> SUFFICES ASSUME Init PROVE ReadingsAccounted
    OBVIOUS
  <2>1. \A q \in Readers : made[q] = 0 /\ Here[q] = 0 BY DEF Init, Here, InHand
  <2>2. Total(made) = 0 /\ Total(Here) = 0
    BY <2>1, TotalIs, SumZero, GatewayAssumption
  <2> QED BY <2>2 DEF Init, ReadingsAccounted, Here
<1>2. TypeOK /\ ReadingsAccounted /\ [Next]_vars => ReadingsAccounted'
  BY NextAccounted
<1> QED BY <1>1, <1>2, GatewayTyping, PTL DEF Spec


-----------------------------------------------------------------------------
\* The ablation experiment: the gateway with a counter beside it.

\* The counter of lost readings steers nothing: every behaviour of the experiment
\* is one of the gateway, so what holds of the gateway's variables holds there.
THEOREM AblationIsGateway == AblationSpec => Spec
<1>1. AblationInit => Init BY DEF AblationInit
<1>2. [AblationNext]_ablationVars => [Next]_vars
  BY DEF AblationNext, Turn, GeneratorOrStage, Next, ablationVars
<1> QED BY <1>1, <1>2, PTL DEF AblationSpec, Spec

\* A shutdown of the experiment in which nothing failed leaves nothing behind.
THEOREM AblationLeavesNothing == AblationSpec => []NothingLeftBehind
BY AblationIsGateway, NothingLeftBehindHolds

\* What a reader has counted and is about to push: the ring it empties, and the
\* reading in its hand.
ToRead == [r \in Readers |-> InHand(r) + IF rpc[r] \in {"read", "push"} THEN ring[r] ELSE 0]

NoneRefused == \A r \in Readers : refused[r] = 0

CountedSoFar == lost \in Nat /\ (NoneRefused => lost <= buf + popped + SumOf(ToRead, Readers))

\* The step of one reader: what it counts it is about to read, or has pushed.
LEMMA CountedStep ==
  ASSUME TypeOK, CountedSoFar, NoneRefused, NEW r \in Readers, NEW d \in Int, NEW x \in Int,
         NEW c \in Nat, c <= d + x,
         \A q \in Readers : ToRead'[q] = IF q = r THEN ToRead[r] + d ELSE ToRead[q],
         buf' = buf + x, popped' = popped, lost' = lost + c
  PROVE  lost' \in Nat /\ lost' <= buf' + popped' + SumOf(ToRead', Readers)
<1>1. \A q \in Readers : ToRead[q] \in Int BY GatewayAssumption DEF TypeOK, ToRead, InHand
<1>2. SumOf(ToRead', Readers) = SumOf(ToRead, Readers) + d
  BY <1>1, SumChange, GatewayAssumption
<1>3. SumOf(ToRead, Readers) \in Int BY <1>1, SumType, GatewayAssumption
<1>4. buf \in Int /\ popped \in Int BY GatewayAssumption DEF TypeOK
<1>5. lost \in Nat /\ lost <= buf + popped + SumOf(ToRead, Readers) BY DEF CountedSoFar
<1>6. lost + c <= (buf + x) + popped + (SumOf(ToRead, Readers) + d)
  BY <1>3, <1>4, <1>5
<1> QED BY <1>2, <1>5, <1>6

LEMMA NextCounted ==
  ASSUME TypeOK, CountedSoFar, [AblationNext]_ablationVars
  PROVE  CountedSoFar'
<1> USE DEF Set, sensorVars, readerVars, bufferVars, outputVars,
           otherVars
<1>1. lost' \in Nat /\ (NoneRefused' => NoneRefused)
  <2>1. \A r \in Readers : refused[r] \in Nat /\ ring[r] \in Nat BY GatewayAssumption DEF TypeOK
  <2>2. ASSUME NEW r \in Readers, Turn(r) PROVE lost' \in Nat
    BY <2>1, <2>2 DEF Turn, Counted, OverflowThreshold, CountedSoFar
  <2>3. lost' \in Nat
    BY <2>2 DEF AblationNext, GeneratorOrStage, CountedSoFar, ablationVars
  <2>4. ASSUME NEW r \in Readers, PushRefused(r) PROVE refused'[r] = refused[r] + 1
    BY <2>4 DEF PushRefused, TypeOK
  <2>5. refused' = refused \/ \E r \in Readers : PushRefused(r)
    BY DEF AblationNext, Turn, GeneratorOrStage, ablationVars, vars, Reader, Generator,
           GeneratorCheck, GeneratorWrite, TakeCommand, NoCommand, TestStop, JoinGenerator,
           Read, Push, Status, SchedulerEnds, Dispatcher, DispatcherPop, WindowElapses,
           SendFrame, DispatcherEnds, FailClosed, Consumer, ReceiveFrame, Persisted, PersistFailed, ConsumerCloses, ConsumerIdle, ConsumerEnds,
           Signal, Main, MainStep, JoinScheduler, JoinReaders, CloseBuffer, JoinConsumer,
           Terminated
  <2>6. ASSUME NEW r \in Readers, PushRefused(r) PROVE ~NoneRefused'
    <3>1. refused'[r] = refused[r] + 1 /\ refused[r] \in Nat BY <2>1, <2>4, <2>6
    <3>2. refused[r] + 1 # 0 BY <3>1
    <3> QED BY <3>1, <3>2 DEF NoneRefused
  <2> QED BY <2>3, <2>5, <2>6 DEF NoneRefused
<1> SUFFICES ASSUME NoneRefused'
             PROVE  lost' <= buf' + popped' + SumOf(ToRead', Readers)
  BY <1>1 DEF CountedSoFar
<1>2. NoneRefused BY <1>1
<1>3. \A q \in Readers : ToRead[q] \in Int /\ ring[q] \in Int
  BY GatewayAssumption DEF TypeOK, ToRead, InHand
<1>4. /\ buf \in Int /\ popped \in Int /\ lost \in Nat /\ SumOf(ToRead, Readers) \in Int
      /\ lost <= buf + popped + SumOf(ToRead, Readers)
  BY <1>2, <1>3, SumType, GatewayAssumption DEF TypeOK, CountedSoFar
<1>5. ASSUME \A q \in Readers : ToRead'[q] = ToRead[q], UNCHANGED <<buf, popped, lost>>
      PROVE  lost' <= buf' + popped' + SumOf(ToRead', Readers)
  <2>1. SumOf(ToRead', Readers) = SumOf(ToRead, Readers) BY <1>5, SumSame, GatewayAssumption
  <2> QED BY <1>4, <1>5, <2>1
<1>6. ASSUME NEW r \in Readers, Turn(r)
      PROVE  lost' <= buf' + popped' + SumOf(ToRead', Readers)
  <2>1. lost' = lost + Counted(r) /\ Reader(r) BY <1>6 DEF Turn
  <2>2. CASE /\ rpc[r] \in {"flag", "join_in_flag"} /\ rpc' = [rpc EXCEPT ![r] = "read"]
             /\ UNCHANGED <<ring, buf, popped>>
    <3>1. lost' = lost + ring[r]
      BY <1>3, <2>1, <2>2 DEF Counted, OverflowThreshold, TypeOK
    <3>2. \A q \in Readers : ToRead'[q] = IF q = r THEN ToRead[r] + ring[r] ELSE ToRead[q]
      BY <1>3, <2>2 DEF ToRead, InHand, TypeOK
    <3>3. ring[r] \in Nat /\ ring[r] <= ring[r] + 0 /\ buf' = buf + 0
      BY <1>4, <2>2, GatewayAssumption DEF TypeOK
    <3> QED BY <1>2, <2>2, <3>1, <3>2, <3>3, CountedStep
  <2>3. CASE /\ rpc[r] \notin {"read", "push"} /\ UNCHANGED <<ring, buf, popped>>
             /\ \E p \in Places \ {"read", "push"} : rpc' = [rpc EXCEPT ![r] = p]
    <3>1. lost' = lost BY <1>4, <2>1, <2>3 DEF Counted, TypeOK
    <3>2. \A q \in Readers : ToRead'[q] = ToRead[q]
      BY <2>3 DEF ToRead, InHand, TypeOK
    <3> QED BY <1>5, <2>3, <3>1, <3>2
  <2>4. CASE TakeCommand(r) \/ NoCommand(r) \/ Status(r)
    <3>1. /\ rpc[r] \notin {"read", "push"} /\ UNCHANGED <<ring, buf, popped>>
          /\ \E p \in Places \ {"read", "push"} : rpc' = [rpc EXCEPT ![r] = p]
      BY <2>4 DEF TakeCommand, NoCommand, Status, StartDraining, Places
    <3> QED BY <2>3, <3>1
  <2>5. CASE TestStop(r) \/ JoinGenerator(r)
    <3>1. UNCHANGED <<ring, buf, popped>> BY <2>5 DEF TestStop, JoinGenerator
    <3>2. \/ rpc[r] \in {"flag", "join_in_flag"} /\ rpc' = [rpc EXCEPT ![r] = "read"]
          \/ /\ rpc[r] \notin {"read", "push"}
             /\ \E p \in Places \ {"read", "push"} : rpc' = [rpc EXCEPT ![r] = p]
      BY <2>5 DEF TestStop, JoinGenerator, StartDraining, Places
    <3> QED BY <2>2, <2>3, <3>1, <3>2
  <2>6. CASE Read(r)
    <3>1. UNCHANGED <<buf, popped>> /\ rpc[r] = "read" BY <2>6 DEF Read
    <3>2. lost' = lost BY <1>4, <2>1, <3>1 DEF Counted
    <3>3. \A q \in Readers : ToRead'[q] = ToRead[q]
      <4>1. CASE ring[r] > 0
        <5>1. ring' = [ring EXCEPT ![r] = ring[r] - 1] /\ rpc' = [rpc EXCEPT ![r] = "push"]
          BY <2>6, <4>1 DEF Read
        <5> QED BY <1>3, <3>1, <4>1, <5>1 DEF ToRead, InHand, TypeOK
      <4>2. CASE ~(ring[r] > 0)
        <5>1. ring' = ring /\ rpc' = [rpc EXCEPT ![r] = "status"] BY <2>6, <4>2 DEF Read
        <5>2. ring[r] = 0 BY <4>2, GatewayAssumption DEF TypeOK
        <5> QED BY <3>1, <5>1, <5>2 DEF ToRead, InHand, TypeOK
      <4> QED BY <4>1, <4>2
    <3> QED BY <1>5, <3>1, <3>2, <3>3
  <2>7. CASE Push(r)
    <3>1. /\ rpc[r] = "push" /\ rpc' = [rpc EXCEPT ![r] = "read"] /\ buf' = buf + 1
          /\ UNCHANGED <<ring, popped>>
      BY <2>7 DEF Push
    <3>2. lost' = lost BY <1>4, <2>1, <3>1 DEF Counted
    <3>3. \A q \in Readers : ToRead'[q] = IF q = r THEN ToRead[r] + (-1) ELSE ToRead[q]
      BY <1>3, <3>1 DEF ToRead, InHand, TypeOK
    <3>4. SumOf(ToRead', Readers) = SumOf(ToRead, Readers) + (-1)
      BY <1>3, <3>3, SumChange, GatewayAssumption
    <3>5. lost <= (buf + 1) + popped + (SumOf(ToRead, Readers) + (-1)) BY <1>4
    <3> QED BY <3>1, <3>2, <3>4, <3>5
  <2>8. CASE PushRefused(r)
    <3>1. refused'[r] = refused[r] + 1 /\ refused[r] = 0
      BY <1>2, <2>8 DEF PushRefused, TypeOK, NoneRefused
    <3> QED BY <3>1 DEF NoneRefused
  <2> QED BY <2>1, <2>4, <2>5, <2>6, <2>7, <2>8 DEF Reader
<1>7. ASSUME NEW r \in Readers, Generator(r), lost' = lost
      PROVE  lost' <= buf' + popped' + SumOf(ToRead', Readers)
  <2>1. UNCHANGED <<rpc, buf, popped>> /\ (ring' = ring \/ ring' = [ring EXCEPT ![r] = ring[r] + 1])
    BY <1>7 DEF Generator, GeneratorCheck, GeneratorWrite
  <2>2. CASE ring' = ring \/ rpc[r] \notin {"read", "push"}
    <3>1. \A q \in Readers : ToRead'[q] = ToRead[q] BY <2>1, <2>2 DEF ToRead, InHand, TypeOK
    <3> QED BY <1>5, <1>7, <2>1, <3>1
  <2>3. CASE ring' = [ring EXCEPT ![r] = ring[r] + 1] /\ rpc[r] \in {"read", "push"}
    <3>1. \A q \in Readers : ToRead'[q] = IF q = r THEN ToRead[r] + 1 ELSE ToRead[q]
      BY <1>3, <2>1, <2>3 DEF ToRead, InHand, TypeOK
    <3>2. SumOf(ToRead', Readers) = SumOf(ToRead, Readers) + 1
      BY <1>3, <3>1, SumChange, GatewayAssumption
    <3>3. lost <= buf + popped + (SumOf(ToRead, Readers) + 1) BY <1>4
    <3> QED BY <1>7, <2>1, <3>2, <3>3
  <2> QED BY <2>1, <2>2, <2>3
<1>8. CASE DispatcherPop /\ lost' = lost
  <2>1. buf' = buf - 1 /\ popped' = popped + 1 /\ UNCHANGED <<ring, rpc>>
    BY <1>8 DEF DispatcherPop
  <2>2. SumOf(ToRead', Readers) = SumOf(ToRead, Readers) BY <2>1 DEF ToRead, InHand
  <2>3. lost <= (buf - 1) + (popped + 1) + SumOf(ToRead, Readers) BY <1>4
  <2> QED BY <1>8, <2>1, <2>2, <2>3
<1>9. CASE (SchedulerEnds \/ DispatcherStays \/ Consumer \/ Signal \/ Main) /\ lost' = lost
  <2>1. UNCHANGED <<ring, rpc, buf, popped>>
    BY <1>9 DEF SchedulerEnds, DispatcherStays, WindowElapses, SendFrame, DispatcherEnds,
                FailClosed, Consumer, ReceiveFrame, Persisted, PersistFailed,
                ConsumerCloses, ConsumerIdle, ConsumerEnds, Signal, Main, MainStep,
                JoinScheduler, JoinReaders, CloseBuffer, JoinConsumer
  <2>2. \A q \in Readers : ToRead'[q] = ToRead[q] BY <2>1 DEF ToRead, InHand
  <2> QED BY <1>5, <1>9, <2>1, <2>2
<1>10. CASE UNCHANGED <<vars, lost>>
  <2>1. \A q \in Readers : ToRead'[q] = ToRead[q] BY <1>10 DEF vars, ToRead, InHand
  <2> QED BY <1>5, <1>10, <2>1 DEF vars
<1> QED
  BY <1>6, <1>7, <1>8, <1>9, <1>10
     DEF AblationNext, GeneratorOrStage, Dispatcher, DispatcherStays, Terminated, ablationVars

\* No reading is counted twice, and what was counted is read and pushed afterwards,
\* unless a push is refused; so the "data loss rate" of a run in which no stage failed
\* is at most one half.
THEOREM CountedIsReadHolds == AblationSpec => []CountedIsRead
<1>1. AblationInit /\ TypeOK => CountedSoFar
  <2> SUFFICES ASSUME AblationInit, TypeOK PROVE CountedSoFar
    OBVIOUS
  <2>1. \A q \in Readers : ToRead[q] = 0 BY DEF AblationInit, Init, ToRead, InHand
  <2>2. SumOf(ToRead, Readers) = 0 BY <2>1, SumZero, GatewayAssumption
  <2> QED BY <2>2 DEF AblationInit, Init, CountedSoFar
<1>2. TypeOK /\ CountedSoFar /\ [AblationNext]_ablationVars => CountedSoFar'
  BY NextCounted
<1>3. TypeOK /\ CountedSoFar /\ InOrder /\ NothingLeftBehind => CountedIsRead
  <2> SUFFICES ASSUME TypeOK, CountedSoFar, InOrder, NothingLeftBehind PROVE CountedIsRead
    OBVIOUS
  <2>1. Total(ToRead) = SumOf(ToRead, Readers) BY TotalIs
  <2>2. (\A r \in Readers : refused[r] = 0) => lost <= TotalPushed + Total(ToRead)
    BY <2>1 DEF CountedSoFar, NoneRefused, TotalPushed
  <2>3. ASSUME mpc = "done", ~failed PROVE 2 * LostTotal <= TotalGenerated
    <3>1. buf = 0 /\ NoneRefused /\ \A r \in Readers : rpc[r] = "exited"
      BY <2>3 DEF NothingLeftBehind, InOrder, NoneRefused
    <3>2. \A r \in Readers : ToRead[r] = 0 BY <3>1 DEF ToRead, InHand
    <3>3. SumOf(ToRead, Readers) = 0 BY <3>2, SumZero, GatewayAssumption
    <3>4. lost \in Nat /\ popped \in Nat /\ lost <= popped
      BY <3>1, <3>3 DEF CountedSoFar, TypeOK
    <3> QED BY <3>1, <3>4 DEF LostTotal, TotalGenerated, TotalPushed
  <2> QED BY <2>2, <2>3 DEF CountedIsRead, ToRead
<1> QED
  BY <1>1, <1>2, <1>3, AblationIsGateway, GatewayTyping, InOrderHolds, NothingLeftBehindHolds,
     PTL DEF AblationSpec

=============================================================================
