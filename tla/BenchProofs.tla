------------------------------ MODULE BenchProofs ------------------------------
(***************************************************************************)
(* What holds of an experiment of azure_bench for any sensors, ring and    *)
(* buffer capacities: a row adds up, a run leaves one reading per ring at  *)
(* most, and a buffer with room for what a raised flag leaves behind never *)
(* stops a reader.                                                         *)
(***************************************************************************)
EXTENDS Bench, SumTheorems, TLAPS

LEMMA TotalIs == ASSUME NEW f PROVE Total(f) = SumOf(f, Sensors)
BY DEF Total, SumOf, MapThenSumSet, MapThenFoldSet

\* Types of what is counted.
SensorPlaces == {"check", "load", "add", "overwrite", "exited"}
ReaderPlaces == {"top", "loop", "cas", "push", "exited"}

Typed ==
  /\ avail \in [Sensors -> Nat] /\ made \in [Sensors -> Nat] /\ cur \in [Sensors -> Nat]
  /\ spc \in [Sensors -> SensorPlaces] /\ rpc \in [Sensors -> ReaderPlaces]
  /\ overwrites \in Nat /\ buf \in Nat /\ popped \in Nat
  /\ command \in Commands /\ run \in 1 .. Len(Grid)

\* A ring is never over its capacity, and a reader that is about to take has seen
\* something to take.
InRing ==
  \A s \in Sensors : /\ avail[s] <= RingCap
                     /\ spc[s] = "add" => avail[s] < RingCap
                     /\ rpc[s] = "cas" => cur[s] # 0

\* A sensor past its look at the flag will add one reading.
Pending(s) == IF spc[s] \in {"load", "add", "overwrite"} THEN 1 ELSE 0

\* A reader leaves an empty ring, on the raised flag.
Left ==
  \A s \in Sensors : rpc[s] = "exited" => /\ avail[s] + Pending(s) <= 1
                                          /\ stop \/ spc[s] = "exited"

\* What is still to come into the buffer.
Load == [s \in Sensors |-> avail[s] + InHand(s) + Pending(s)]

\* When the consumer has left, what is to come and what is in the buffer is no more
\* than was there on the raised flag.
Roomy ==
  cpc = "exited" => /\ buf + SumOf(Load, Sensors) <= Cardinality(Sensors) * (RingCap + 2)
                    /\ stop \/ \A s \in Sensors : spc[s] = "exited"

Ended == mpc = "write" => \A s \in Sensors : rpc[s] = "exited"

-----------------------------------------------------------------------------
LEMMA GridIs ==
  ASSUME NEW c \in Commands
  PROVE  Grids[c] \in Seq(Nat \ {0}) /\ Len(Grids[c]) \in Nat \ {0}
BY BenchAssumption

LEMMA InitTyped == Init => Typed /\ InRing
<1> SUFFICES ASSUME Init PROVE Typed /\ InRing
  OBVIOUS
<1>1. run \in 1 .. Len(Grid) BY GridIs DEF Init, Grid
<1>2. Typed BY <1>1 DEF Init, Typed, SensorPlaces, ReaderPlaces
<1>3. InRing BY BenchAssumption DEF Init, InRing
<1> QED BY <1>2, <1>3

LEMMA NextTyped ==
  ASSUME Typed, InRing, [Next]_vars
  PROVE  Typed' /\ InRing'
<1> USE DEF mainVars, sensorVars, readerVars, bufferVars, Put
<1>1. ASSUME NEW s \in Sensors, Sensor(s) PROVE Typed' /\ InRing'
  <2>1. UNCHANGED <<command, run, rpc, cur, buf, popped>>
    BY <1>1 DEF Sensor, SensorCheck, SensorLoad, SensorAdd
  <2>2. CASE SensorCheck(s)
    <3>1. UNCHANGED <<avail, made, overwrites>>
          /\ \E p \in {"exited", "load"} : spc' = [spc EXCEPT ![s] = p]
      BY <2>2 DEF SensorCheck
    <3> QED BY <2>1, <3>1 DEF Typed, InRing, SensorPlaces, Grid
  <2>3. CASE SensorLoad(s)
    BY <2>1, <2>3 DEF SensorLoad, Typed, InRing, SensorPlaces, Grid
  <2>4. CASE SensorAdd(s)
    <3>1. made' \in [Sensors -> Nat] /\ spc' \in [Sensors -> SensorPlaces]
      BY <2>4 DEF SensorAdd, Typed, SensorPlaces
    <3>2. CASE spc[s] = "add"
      <4>1. /\ avail' = [avail EXCEPT ![s] = avail[s] + 1] /\ UNCHANGED overwrites
            /\ spc' = [spc EXCEPT ![s] = "check"]
        BY <2>4, <3>2 DEF SensorAdd
      <4>2. avail[s] + 1 <= RingCap BY <3>2, BenchAssumption DEF InRing, Typed
      <4> QED BY <2>1, <3>1, <4>1, <4>2 DEF Typed, InRing, Grid
    <3>3. CASE spc[s] # "add"
      <4>1. /\ UNCHANGED avail /\ overwrites' = overwrites + 1
            /\ spc' = [spc EXCEPT ![s] = "check"]
        BY <2>4, <3>3 DEF SensorAdd
      <4> QED BY <2>1, <3>1, <4>1 DEF Typed, InRing, Grid
    <3> QED BY <3>2, <3>3
  <2> QED BY <1>1, <2>2, <2>3, <2>4 DEF Sensor
<1>2. ASSUME NEW s \in Sensors, Reader(s) PROVE Typed' /\ InRing'
  <2>1. UNCHANGED <<command, run, spc, made, overwrites, popped>>
    BY <1>2 DEF Reader, ReaderTop, ReaderLoad, ReaderCas, ReaderPush
  <2>2. CASE ReaderTop(s)
    BY <2>1, <2>2 DEF ReaderTop, Typed, InRing, ReaderPlaces, Grid
  <2>3. CASE ReaderLoad(s)
    BY <2>1, <2>3 DEF ReaderLoad, Typed, InRing, ReaderPlaces, Grid
  <2>4. CASE ReaderCas(s)
    <3>1. cur[s] \in Nat \ {0} BY <2>4 DEF ReaderCas, Typed, InRing
    <3>2. /\ UNCHANGED buf /\ cur' = [cur EXCEPT ![s] = 0]
          /\ \E p \in {"push", "loop"} : rpc' = [rpc EXCEPT ![s] = p]
      BY <2>4 DEF ReaderCas
    <3>3. cur' \in [Sensors -> Nat] /\ rpc' \in [Sensors -> ReaderPlaces]
          /\ \A q \in Sensors : rpc'[q] = "cas" => cur'[q] # 0
      BY <3>2 DEF Typed, ReaderPlaces, InRing
    <3>4. CASE avail' = avail
      <4>1. InRing' BY <2>1, <3>3, <3>4 DEF InRing
      <4> QED BY <2>1, <3>2, <3>3, <3>4, <4>1 DEF Typed, Grid
    <3>5. CASE avail[s] = cur[s] /\ avail' = [avail EXCEPT ![s] = cur[s] - 1]
      <4>1. cur[s] - 1 \in Nat BY <3>1
      <4>2. avail' \in [Sensors -> Nat] BY <3>5, <4>1 DEF Typed
      <4>3. \A q \in Sensors : avail'[q] = IF q = s THEN cur[s] - 1 ELSE avail[q]
        BY <3>5 DEF Typed
      <4>4. cur[s] - 1 <= RingCap /\ (spc[s] = "add" => cur[s] - 1 < RingCap)
        BY <3>1, <3>5, BenchAssumption DEF InRing
      <4>5. InRing' BY <2>1, <3>3, <4>3, <4>4 DEF InRing
      <4> QED BY <2>1, <3>2, <3>3, <4>2, <4>5 DEF Typed, Grid
    <3> QED BY <2>4, <3>4, <3>5 DEF ReaderCas
  <2>5. CASE ReaderPush(s)
    BY <2>1, <2>5 DEF ReaderPush, Typed, InRing, ReaderPlaces, Grid
  <2> QED BY <1>2, <2>2, <2>3, <2>4, <2>5 DEF Reader
<1>3. CASE Consumer
  <2>1. UNCHANGED <<mainVars, sensorVars, readerVars>> BY <1>3 DEF Consumer, ConsumerCheck, ConsumerPop
  <2>2. buf' \in Nat /\ popped' \in Nat
    BY <1>3 DEF Consumer, ConsumerCheck, ConsumerPop, Typed
  <2> QED BY <2>1, <2>2 DEF Typed, InRing, Grid
<1>4. CASE Spawn
  BY <1>4, BenchAssumption DEF Spawn, Fresh, Typed, InRing, SensorPlaces, ReaderPlaces, Grid
<1>5. CASE Begin \/ RaiseStop \/ JoinAll \/ WriteRow
  <2>1. UNCHANGED <<command, sensorVars, readerVars, bufferVars>>
    BY <1>5 DEF Begin, RaiseStop, JoinAll, WriteRow
  <2>2. \/ run' = run
        \/ run < Len(Grid) /\ run' = run + 1
    BY <1>5 DEF Begin, RaiseStop, JoinAll, WriteRow
  <2>3. Len(Grid) \in Nat BY GridIs DEF Typed, Grid
  <2>4. run' \in 1 .. Len(Grid) BY <2>2, <2>3 DEF Typed
  <2> QED BY <2>1, <2>4 DEF Typed, InRing, Grid
<1>6. CASE UNCHANGED vars BY <1>6 DEF vars, Typed, InRing, Grid
<1> QED BY <1>1, <1>2, <1>3, <1>4, <1>5, <1>6 DEF Next, Main

-----------------------------------------------------------------------------
\* A run leaves one reading per ring at most.

LEMMA InitLeft == Init => Left /\ Ended
BY DEF Init, Left, Ended, Pending

LEMMA NextLeft ==
  ASSUME Typed, Left, Ended, [Next]_vars
  PROVE  Left' /\ Ended'
<1> USE DEF mainVars, sensorVars, readerVars, bufferVars, Put
<1>1. ASSUME NEW s \in Sensors, Sensor(s) PROVE Left' /\ Ended'
  <2>1. UNCHANGED <<mpc, stop, rpc>>
    BY <1>1 DEF Sensor, SensorCheck, SensorLoad, SensorAdd
  <2>2. /\ \A q \in Sensors : q # s => avail'[q] = avail[q] /\ spc'[q] = spc[q]
        /\ spc[s] # "exited"
    <3>1. CASE SensorCheck(s) BY <3>1 DEF SensorCheck, Typed
    <3>2. CASE SensorLoad(s) BY <3>2 DEF SensorLoad, Typed
    <3>3. CASE SensorAdd(s) BY <3>3 DEF SensorAdd, Typed
    <3> QED BY <1>1, <3>1, <3>2, <3>3 DEF Sensor
  <2>3. CASE rpc[s] = "exited"
    <3>1. stop /\ avail[s] + Pending(s) <= 1 BY <2>2, <2>3 DEF Left
    <3>2. avail[s] \in Nat BY DEF Typed
    <3>3. avail'[s] + Pending(s)' <= 1
      <4>1. CASE SensorCheck(s)
        BY <3>1, <3>2, <4>1 DEF SensorCheck, Typed, Pending
      <4>2. CASE SensorLoad(s)
        BY <3>1, <3>2, <4>2 DEF SensorLoad, Typed, Pending
      <4>3. CASE SensorAdd(s)
        <5>1. spc'[s] = "check" /\ Pending(s) = 1 /\ avail[s] = 0
          BY <3>1, <3>2, <4>3 DEF SensorAdd, Typed, Pending
        <5>2. avail'[s] \in {avail[s], avail[s] + 1} BY <4>3 DEF SensorAdd, Typed
        <5> QED BY <5>1, <5>2 DEF Pending
      <4> QED BY <1>1, <4>1, <4>2, <4>3 DEF Sensor
    <3> QED BY <2>1, <2>2, <3>1, <3>3 DEF Left, Ended, Pending
  <2>4. CASE rpc[s] # "exited" BY <2>1, <2>2, <2>4 DEF Left, Ended, Pending
  <2> QED BY <2>3, <2>4
<1>2. ASSUME NEW s \in Sensors, Reader(s) PROVE Left' /\ Ended'
  <2>1. UNCHANGED <<mpc, stop, spc>> /\ rpc[s] # "exited"
    BY <1>2 DEF Reader, ReaderTop, ReaderLoad, ReaderCas, ReaderPush
  <2>2. \A q \in Sensors : q # s => avail'[q] = avail[q] /\ rpc'[q] = rpc[q]
    BY <1>2 DEF Reader, ReaderTop, ReaderLoad, ReaderCas, ReaderPush, Typed
  <2>3. rpc'[s] = "exited" => stop /\ avail'[s] = 0
    BY <1>2 DEF Reader, ReaderTop, ReaderLoad, ReaderCas, ReaderPush, Typed
  <2>4. Ended' BY <2>1 DEF Ended
  <2> QED BY <2>1, <2>2, <2>3, <2>4 DEF Left, Pending
<1>3. CASE Consumer
  BY <1>3 DEF Consumer, ConsumerCheck, ConsumerPop, Left, Ended, Pending
<1>4. CASE Spawn BY <1>4 DEF Spawn, Fresh, Left, Ended
<1>5. CASE Begin \/ RaiseStop \/ JoinAll \/ WriteRow
  <2>1. UNCHANGED <<sensorVars, readerVars>> /\ (stop => stop')
    BY <1>5 DEF Begin, RaiseStop, JoinAll, WriteRow
  <2>2. Ended' BY <1>5, <2>1 DEF Begin, RaiseStop, JoinAll, WriteRow, AllEnded, Ended
  <2> QED BY <2>1, <2>2 DEF Left, Pending
<1>6. CASE UNCHANGED vars BY <1>6 DEF vars, Left, Ended, Pending
<1> QED BY <1>1, <1>2, <1>3, <1>4, <1>5, <1>6 DEF Next, Main

\* When a row is written, a ring holds the reading at most of a sensor that had
\* looked at the flag before it was raised.
THEOREM OneLeftAtMostHolds == Spec => []OneLeftAtMost
<1>1. Init => Typed /\ InRing /\ Left /\ Ended BY InitTyped, InitLeft
<1>2. Typed /\ InRing /\ Left /\ Ended /\ [Next]_vars => (Typed /\ InRing /\ Left /\ Ended)'
  BY NextTyped, NextLeft
<1>3. Typed /\ Left /\ Ended => OneLeftAtMost
  <2> SUFFICES ASSUME Typed, Left, Ended, mpc = "write", NEW s \in Sensors
               PROVE  avail[s] <= 1
    BY DEF OneLeftAtMost
  <2>1. avail[s] + Pending(s) <= 1 BY DEF Left, Ended
  <2>2. avail[s] \in Nat /\ Pending(s) \in Nat BY DEF Typed, Pending
  <2> QED BY <2>1, <2>2
<1> QED BY <1>1, <1>2, <1>3, PTL DEF Spec

-----------------------------------------------------------------------------
\* A buffer with room for all that is left.

LEMMA LoadTyped ==
  ASSUME Typed
  PROVE  \A s \in Sensors : Load[s] \in Int
BY DEF Typed, Load, InHand, Pending

LEMMA InitRoomy == Init => Roomy
<1> SUFFICES ASSUME Init PROVE Roomy
  OBVIOUS
<1>1. \A s \in Sensors : Load[s] = 0 BY DEF Init, Load, InHand, Pending
<1>2. SumOf(Load, Sensors) = 0 BY <1>1, SumZero, BenchAssumption
<1>3. Cardinality(Sensors) \in Nat BY FS_CardinalityType, BenchAssumption
<1>4. Cardinality(Sensors) * (RingCap + 2) \in Nat BY <1>3, BenchAssumption
<1>5. buf + SumOf(Load, Sensors) <= Cardinality(Sensors) * (RingCap + 2)
  BY <1>2, <1>4 DEF Init
<1> QED BY <1>5 DEF Init, Roomy

\* No more may come than before.
LEMMA RoomyKept ==
  ASSUME Typed, Roomy, cpc' = "exited" => cpc = "exited", buf' = buf,
         \A s \in Sensors : Load'[s] \in Int /\ Load'[s] <= Load[s],
         cpc' = "exited" => (stop' \/ \A s \in Sensors : spc'[s] = "exited")
  PROVE  Roomy'
<1>1. SumOf(Load', Sensors) <= SumOf(Load, Sensors) BY LoadTyped, SumLeq, BenchAssumption
<1>2. SumOf(Load', Sensors) \in Int /\ SumOf(Load, Sensors) \in Int
  BY LoadTyped, SumType, BenchAssumption
<1>3. buf \in Int BY DEF Typed
<1>4. Cardinality(Sensors) * (RingCap + 2) \in Int
  BY FS_CardinalityType, BenchAssumption
<1>5. ASSUME cpc' = "exited"
      PROVE  buf' + SumOf(Load', Sensors) <= Cardinality(Sensors) * (RingCap + 2)
  <2>1. buf + SumOf(Load, Sensors) <= Cardinality(Sensors) * (RingCap + 2)
    BY <1>5 DEF Roomy
  <2>2. buf + SumOf(Load', Sensors) <= Cardinality(Sensors) * (RingCap + 2)
    BY <1>1, <1>2, <1>3, <1>4, <2>1
  <2> QED BY <2>2
<1> QED BY <1>5 DEF Roomy

LEMMA NextRoomy ==
  ASSUME Typed, Typed', InRing, Roomy, [Next]_vars
  PROVE  Roomy'
<1> USE DEF mainVars, sensorVars, readerVars, bufferVars, Put
<1>0. \A s \in Sensors : Load'[s] \in Int BY DEF Typed, Load, InHand, Pending
<1>1. ASSUME NEW s \in Sensors, Sensor(s) PROVE Roomy'
  <2>1. UNCHANGED <<cpc, buf, stop, rpc>> /\ spc[s] # "exited"
    BY <1>1 DEF Sensor, SensorCheck, SensorLoad, SensorAdd
  <2>2. CASE cpc = "exited"
    <3>1. stop BY <2>1, <2>2 DEF Roomy
    <3>2. \A q \in Sensors : q # s => avail'[q] = avail[q] /\ spc'[q] = spc[q]
      BY <1>1 DEF Sensor, SensorCheck, SensorLoad, SensorAdd, Typed
    <3>3. avail'[s] + Pending(s)' <= avail[s] + Pending(s)
      <4>0. avail[s] \in Nat BY DEF Typed
      <4>1. CASE SensorCheck(s)
        BY <3>1, <4>0, <4>1 DEF SensorCheck, Typed, Pending
      <4>2. CASE SensorLoad(s)
        BY <4>0, <4>2 DEF SensorLoad, Typed, Pending
      <4>3. CASE SensorAdd(s)
        <5>1. Pending(s)' = 0 /\ Pending(s) = 1
          BY <4>3 DEF SensorAdd, Typed, Pending
        <5>2. avail'[s] \in {avail[s], avail[s] + 1} BY <4>3 DEF SensorAdd, Typed
        <5> QED BY <4>0, <5>1, <5>2
      <4> QED BY <1>1, <4>1, <4>2, <4>3 DEF Sensor
    <3>4. InHand(s)' = InHand(s) /\ InHand(s) \in Nat BY <2>1 DEF InHand
    <3>5. /\ avail[s] \in Int /\ avail'[s] \in Int
          /\ Pending(s) \in Int /\ Pending(s)' \in Int
      BY DEF Typed, Pending
    <3>6. Load'[s] <= Load[s] BY <3>3, <3>4, <3>5 DEF Load
    <3>7. \A q \in Sensors : q # s => Load'[q] = Load[q]
      BY <2>1, <3>2 DEF Load, InHand, Pending
    <3>8. \A q \in Sensors : Load'[q] <= Load[q] BY <1>0, <3>6, <3>7, LoadTyped
    <3> QED BY <1>0, <2>1, <3>1, <3>8, RoomyKept
  <2>3. CASE cpc # "exited" BY <2>1, <2>3 DEF Roomy
  <2> QED BY <2>2, <2>3
<1>2. ASSUME NEW s \in Sensors, Reader(s) PROVE Roomy'
  <2>1. UNCHANGED <<cpc, stop, spc>>
    BY <1>2 DEF Reader, ReaderTop, ReaderLoad, ReaderCas, ReaderPush
  <2>2. CASE ReaderTop(s) \/ ReaderLoad(s)
    <3>1. UNCHANGED <<buf, avail>> /\ \A q \in Sensors : rpc'[q] = "push" <=> rpc[q] = "push"
      BY <2>2 DEF ReaderTop, ReaderLoad, Typed
    <3>2. \A q \in Sensors : Load'[q] = Load[q] BY <2>1, <3>1 DEF Load, InHand, Pending
    <3>3. \A q \in Sensors : Load'[q] <= Load[q] BY <1>0, <3>2
    <3> QED BY <1>0, <2>1, <3>1, <3>3, RoomyKept DEF Roomy
  <2>3. CASE ReaderCas(s)
    <3>1. UNCHANGED buf /\ rpc[s] = "cas" BY <2>3 DEF ReaderCas
    <3>2. \A q \in Sensors : Load'[q] = Load[q]
      <4>1. CASE avail' = avail /\ rpc' = [rpc EXCEPT ![s] = "loop"]
        BY <2>1, <3>1, <4>1 DEF Load, InHand, Pending, Typed
      <4>2. CASE /\ avail[s] = cur[s] /\ avail' = [avail EXCEPT ![s] = cur[s] - 1]
                 /\ rpc' = [rpc EXCEPT ![s] = "push"]
        <5>1. avail'[s] = avail[s] - 1 /\ InHand(s)' = 1 /\ InHand(s) = 0
          BY <3>1, <4>2 DEF Typed, InHand
        <5>2. avail[s] \in Nat /\ Pending(s)' = Pending(s) /\ Pending(s) \in Nat
          BY <2>1 DEF Typed, Pending
        <5>3. Load'[s] = avail'[s] + InHand(s)' + Pending(s)'
              /\ Load[s] = avail[s] + InHand(s) + Pending(s)
          BY DEF Load
        <5>4. Load'[s] = Load[s] BY <5>1, <5>2, <5>3
        <5>5. \A q \in Sensors : q # s => Load'[q] = Load[q]
          BY <2>1, <4>2 DEF Load, InHand, Pending, Typed
        <5> QED BY <5>4, <5>5
      <4> QED BY <2>3, <4>1, <4>2 DEF ReaderCas
    <3>3. \A q \in Sensors : Load'[q] <= Load[q] BY <1>0, <3>2
    <3> QED BY <1>0, <2>1, <3>1, <3>3, RoomyKept DEF Roomy
  <2>4. CASE ReaderPush(s)
    <3>1. /\ UNCHANGED avail /\ rpc[s] = "push" /\ rpc' = [rpc EXCEPT ![s] = "loop"]
          /\ buf' = buf + 1
      BY <2>4 DEF ReaderPush
    <3>2. \A q \in Sensors : Load'[q] = IF q = s THEN Load[s] + (-1) ELSE Load[q]
      <4>1. \A q \in Sensors : q # s => rpc'[q] = rpc[q] BY <3>1 DEF Typed
      <4>2. \A q \in Sensors : q # s => Load'[q] = Load[q]
        BY <2>1, <3>1, <4>1 DEF Load, InHand, Pending
      <4>3. InHand(s) = 1 /\ InHand(s)' = 0 BY <3>1 DEF InHand, Typed
      <4>4. Pending(s)' = Pending(s) /\ Pending(s) \in Int /\ avail[s] \in Int
        BY <2>1 DEF Pending, Typed
      <4>5. Load'[s] = avail[s] + 0 + Pending(s) /\ Load[s] = avail[s] + 1 + Pending(s)
        BY <3>1, <4>3, <4>4 DEF Load
      <4>6. Load'[s] = Load[s] + (-1) BY <4>4, <4>5
      <4> QED BY <4>2, <4>6
    <3>3. SumOf(Load', Sensors) = SumOf(Load, Sensors) + (-1)
      BY <3>2, LoadTyped, SumChange, BenchAssumption
    <3>4. SumOf(Load, Sensors) \in Int BY LoadTyped, SumType, BenchAssumption
    <3>5. (buf + 1) + (SumOf(Load, Sensors) + (-1)) = buf + SumOf(Load, Sensors)
      <4>1. buf \in Int BY DEF Typed
      <4> QED BY <3>4, <4>1
    <3>6. buf' + SumOf(Load', Sensors) = buf + SumOf(Load, Sensors) BY <3>1, <3>3, <3>5
    <3> QED BY <2>1, <3>6 DEF Roomy
  <2> QED BY <1>2, <2>2, <2>3, <2>4 DEF Reader
<1>3. CASE Consumer
  <2>1. ASSUME cpc' = "exited" PROVE Roomy'
    <3>1. /\ stop /\ buf = 0 /\ stop' /\ buf' = 0
          /\ UNCHANGED <<avail, spc, rpc>>
      BY <1>3, <2>1 DEF Consumer, ConsumerCheck, ConsumerPop
    <3> DEFINE Most == [s \in Sensors |-> RingCap + 2]
    <3>2. \A s \in Sensors : Load'[s] = Load[s] BY <3>1 DEF Load, InHand, Pending
    <3>3. ASSUME NEW s \in Sensors PROVE Load[s] <= Most[s]
      <4>1. /\ avail[s] \in Nat /\ avail[s] <= RingCap
            /\ InHand(s) \in {0, 1} /\ Pending(s) \in {0, 1}
        BY DEF InRing, Typed, InHand, Pending
      <4>2. Load[s] = avail[s] + InHand(s) + Pending(s) BY DEF Load
      <4> QED BY <4>1, <4>2, BenchAssumption
    <3>4. RingCap + 2 \in Int /\ \A s \in Sensors : Most[s] = RingCap + 2 BY BenchAssumption
    <3> HIDE DEF Most
    <3>5. SumOf(Load', Sensors) = SumOf(Load, Sensors) BY <3>2, SumSame, BenchAssumption
    <3>6. SumOf(Load, Sensors) <= SumOf(Most, Sensors)
      BY <3>3, <3>4, LoadTyped, SumLeq, BenchAssumption
    <3>7. SumOf(Most, Sensors) = Cardinality(Sensors) * (RingCap + 2)
      BY <3>4, SumConstant, BenchAssumption
    <3>8. SumOf(Load, Sensors) \in Int BY LoadTyped, SumType, BenchAssumption
    <3>9. buf' + SumOf(Load', Sensors) = SumOf(Load, Sensors) BY <3>1, <3>5, <3>8
    <3> QED BY <3>1, <3>6, <3>7, <3>9 DEF Roomy
  <2> QED BY <2>1 DEF Roomy
<1>4. CASE Spawn BY <1>4 DEF Spawn, Fresh, Roomy
<1>5. CASE Begin \/ RaiseStop \/ JoinAll \/ WriteRow \/ UNCHANGED vars
  <2>1. UNCHANGED <<avail, spc, rpc, buf, cpc>> /\ (stop => stop')
    BY <1>5 DEF Begin, RaiseStop, JoinAll, WriteRow, vars
  <2>2. \A q \in Sensors : Load'[q] = Load[q] BY <2>1 DEF Load, InHand, Pending
  <2>3. \A q \in Sensors : Load'[q] <= Load[q] BY <1>0, <2>2
  <2>4. cpc' = "exited" => (stop' \/ \A s \in Sensors : spc'[s] = "exited")
    BY <2>1 DEF Roomy
  <2> QED BY <1>0, <2>1, <2>3, <2>4, RoomyKept
<1> QED BY <1>1, <1>2, <1>3, <1>4, <1>5 DEF Next, Main

\* A reader that waits for a full buffer which nobody takes from: then there was
\* more to come than the buffer has room for.
LEMMA RoomyEnough == Typed /\ Roomy => RoomyIsNeverStuck
<1> SUFFICES ASSUME Typed, Roomy, Capacity >= Cardinality(Sensors) * (RingCap + 2), Stuck
             PROVE  FALSE
  BY DEF RoomyIsNeverStuck
<1>1. PICK s \in Sensors : rpc[s] = "push" BY DEF Stuck
<1> DEFINE One == [q \in Sensors |-> IF q = s THEN 1 ELSE 0]
<1>2. /\ \A q \in Sensors : One[q] = IF q = s THEN 1 ELSE 0
      /\ \A q \in Sensors : One[q] \in Int
  OBVIOUS
<1>3. \A q \in Sensors : One[q] <= Load[q] BY <1>1 DEF Load, InHand, Pending, Typed
<1> HIDE DEF One
<1>4. SumOf(One, Sensors) = 1
  <2>1. 1 \in Int OBVIOUS
  <2> QED BY <1>2, <2>1, SumSingle, BenchAssumption
<1>5. 1 <= SumOf(Load, Sensors) BY <1>2, <1>3, <1>4, LoadTyped, SumLeq, BenchAssumption
<1>6. SumOf(Load, Sensors) \in Int BY LoadTyped, SumType, BenchAssumption
<1>7. Cardinality(Sensors) * (RingCap + 2) \in Int BY FS_CardinalityType, BenchAssumption
<1>8. Capacity \in Nat /\ buf = Capacity BY DEF Typed, Stuck
<1>9. Capacity + SumOf(Load, Sensors) <= Cardinality(Sensors) * (RingCap + 2)
  BY <1>8 DEF Stuck, Roomy
<1> QED BY <1>5, <1>6, <1>7, <1>8, <1>9

\* A buffer with room for a full ring and two readings of every sensor never stops
\* a reader once the consumer has left.
THEOREM RoomyIsNeverStuckHolds == Spec => []RoomyIsNeverStuck
<1>1. Init => Typed /\ InRing /\ Roomy BY InitTyped, InitRoomy
<1>2. Typed /\ InRing /\ Roomy /\ [Next]_vars => (Typed /\ InRing /\ Roomy)'
  BY NextTyped, NextRoomy
<1> QED BY <1>1, <1>2, RoomyEnough, PTL DEF Spec

-----------------------------------------------------------------------------
\* Every reading generated is counted.

\* Readings in a ring or in its reader's hand.
Held == [s \in Sensors |-> avail[s] + InHand(s)]

LEMMA HeldTyped ==
  ASSUME Typed
  PROVE  \A s \in Sensors : made[s] \in Int /\ Held[s] \in Int
BY DEF Typed, Held, InHand

LEMMA RowIs ==
  RowAddsUp <=> SumOf(made, Sensors) = overwrites + SumOf(Held, Sensors) + buf + popped
BY TotalIs DEF RowAddsUp, Held

LEMMA RowTyped ==
  ASSUME Typed
  PROVE  /\ SumOf(made, Sensors) \in Int /\ SumOf(Held, Sensors) \in Int
         /\ overwrites \in Int /\ buf \in Int /\ popped \in Int
<1>1. SumOf(made, Sensors) \in Int /\ SumOf(Held, Sensors) \in Int
  BY HeldTyped, SumType, BenchAssumption
<1> QED BY <1>1 DEF Typed

LEMMA InitRow == Init => RowAddsUp
<1> SUFFICES ASSUME Init PROVE RowAddsUp
  OBVIOUS
<1>1. \A s \in Sensors : made[s] = 0 /\ Held[s] = 0 BY DEF Init, Held, InHand
<1>2. SumOf(made, Sensors) = 0 /\ SumOf(Held, Sensors) = 0
  BY <1>1, SumZero, BenchAssumption
<1> QED BY <1>2, RowIs DEF Init

\* A sensor's reading goes into its ring, or is counted as overwritten.
LEMMA RowStep ==
  ASSUME Typed, RowAddsUp, NEW s \in Sensors, NEW d \in {0, 1}, NEW o \in {0, 1}, d + o = 1,
         \A q \in Sensors : made'[q] = IF q = s THEN made[s] + 1 ELSE made[q],
         \A q \in Sensors : Held'[q] = IF q = s THEN Held[s] + d ELSE Held[q],
         overwrites' = overwrites + o, UNCHANGED <<buf, popped>>
  PROVE  RowAddsUp'
<1>1. d \in Int /\ o \in Int /\ 1 \in Int OBVIOUS
<1>2. SumOf(made', Sensors) = SumOf(made, Sensors) + 1
  BY <1>1, HeldTyped, SumChange, BenchAssumption
<1>3. SumOf(Held', Sensors) = SumOf(Held, Sensors) + d
  BY <1>1, HeldTyped, SumChange, BenchAssumption
<1>4. SumOf(made, Sensors) = overwrites + SumOf(Held, Sensors) + buf + popped BY RowIs
<1>5. SumOf(made, Sensors) + 1
        = (overwrites + o) + (SumOf(Held, Sensors) + d) + buf + popped
  BY <1>1, <1>4, RowTyped
<1>6. SumOf(made', Sensors) = overwrites' + SumOf(Held', Sensors) + buf' + popped'
  BY <1>2, <1>3, <1>5
<1> QED BY <1>6, TotalIs DEF RowAddsUp, Held

LEMMA NextRow ==
  ASSUME Typed, RowAddsUp, [Next]_vars
  PROVE  RowAddsUp'
<1> USE DEF mainVars, sensorVars, readerVars, bufferVars, Put
<1>0. ASSUME UNCHANGED <<made, overwrites, buf, popped>>,
             \A q \in Sensors : Held'[q] = Held[q]
      PROVE  RowAddsUp'
  <2>1. SumOf(Held', Sensors) = SumOf(Held, Sensors) BY <1>0, SumSame, BenchAssumption
  <2>2. SumOf(made', Sensors) = overwrites' + SumOf(Held', Sensors) + buf' + popped'
    BY <1>0, <2>1, RowIs
  <2> QED BY <2>2, TotalIs DEF RowAddsUp, Held
<1>1. ASSUME NEW s \in Sensors, Sensor(s) PROVE RowAddsUp'
  <2>1. UNCHANGED <<rpc, buf, popped>>
    BY <1>1 DEF Sensor, SensorCheck, SensorLoad, SensorAdd
  <2>2. CASE SensorCheck(s) \/ SensorLoad(s)
    <3>1. UNCHANGED <<avail, made, overwrites>> BY <2>2 DEF SensorCheck, SensorLoad
    <3> QED BY <1>0, <2>1, <3>1 DEF Held, InHand
  <2>3. CASE SensorAdd(s)
    <3>1. made' = [made EXCEPT ![s] = made[s] + 1] BY <2>3 DEF SensorAdd
    <3>2. \A q \in Sensors : made'[q] = IF q = s THEN made[s] + 1 ELSE made[q]
      BY <3>1 DEF Typed
    <3>3. CASE spc[s] = "add"
      <4>1. avail' = [avail EXCEPT ![s] = avail[s] + 1] /\ overwrites' = overwrites
        BY <2>3, <3>3 DEF SensorAdd
      <4>2. \A q \in Sensors : Held'[q] = IF q = s THEN Held[s] + 1 ELSE Held[q]
        BY <2>1, <4>1 DEF Held, InHand, Typed
      <4>3. overwrites' = overwrites + 0 BY <4>1 DEF Typed
      <4> QED BY <2>1, <3>2, <4>2, <4>3, RowStep
    <3>4. CASE spc[s] # "add"
      <4>1. avail' = avail /\ overwrites' = overwrites + 1 BY <2>3, <3>4 DEF SensorAdd
      <4>2. \A q \in Sensors : Held'[q] = IF q = s THEN Held[s] + 0 ELSE Held[q]
        BY <2>1, <4>1 DEF Held, InHand, Typed
      <4> QED BY <2>1, <3>2, <4>1, <4>2, RowStep
    <3> QED BY <3>3, <3>4
  <2> QED BY <1>1, <2>2, <2>3 DEF Sensor
<1>2. ASSUME NEW s \in Sensors, Reader(s) PROVE RowAddsUp'
  <2>1. UNCHANGED <<made, overwrites, popped>>
    BY <1>2 DEF Reader, ReaderTop, ReaderLoad, ReaderCas, ReaderPush
  <2>2. CASE ReaderTop(s) \/ ReaderLoad(s)
    <3>1. UNCHANGED <<buf, avail>> /\ \A q \in Sensors : rpc'[q] = "push" <=> rpc[q] = "push"
      BY <2>2 DEF ReaderTop, ReaderLoad, Typed
    <3> QED BY <1>0, <2>1, <3>1 DEF Held, InHand
  <2>3. CASE ReaderCas(s)
    <3>1. UNCHANGED buf /\ rpc[s] = "cas" BY <2>3 DEF ReaderCas
    <3>2. CASE avail' = avail /\ rpc' = [rpc EXCEPT ![s] = "loop"]
      <4>1. \A q \in Sensors : Held'[q] = Held[q] BY <3>1, <3>2 DEF Held, InHand, Typed
      <4> QED BY <1>0, <2>1, <3>1, <4>1
    <3>3. CASE /\ avail[s] = cur[s] /\ avail' = [avail EXCEPT ![s] = cur[s] - 1]
               /\ rpc' = [rpc EXCEPT ![s] = "push"]
      <4>1. avail'[s] = avail[s] - 1 /\ InHand(s)' = 1 /\ InHand(s) = 0
        BY <3>1, <3>3 DEF Typed, InHand
      <4>2. avail[s] \in Nat BY DEF Typed
      <4>3. Held'[s] = avail'[s] + InHand(s)' /\ Held[s] = avail[s] + InHand(s)
        BY DEF Held
      <4>4. Held'[s] = Held[s] BY <4>1, <4>2, <4>3
      <4>5. \A q \in Sensors : q # s => Held'[q] = Held[q] BY <3>3 DEF Held, InHand, Typed
      <4> QED BY <1>0, <2>1, <3>1, <4>4, <4>5
    <3> QED BY <2>3, <3>2, <3>3 DEF ReaderCas
  <2>4. CASE ReaderPush(s)
    <3>1. /\ UNCHANGED avail /\ rpc[s] = "push" /\ rpc' = [rpc EXCEPT ![s] = "loop"]
          /\ buf' = buf + 1
      BY <2>4 DEF ReaderPush
    <3>2. \A q \in Sensors : Held'[q] = IF q = s THEN Held[s] + (-1) ELSE Held[q]
      BY <3>1 DEF Held, InHand, Typed
    <3>3. SumOf(Held', Sensors) = SumOf(Held, Sensors) + (-1)
      BY <3>2, HeldTyped, SumChange, BenchAssumption
    <3>4. SumOf(made, Sensors) = overwrites + SumOf(Held, Sensors) + buf + popped BY RowIs
    <3>5. SumOf(made, Sensors)
            = overwrites + (SumOf(Held, Sensors) + (-1)) + (buf + 1) + popped
      BY <3>4, RowTyped
    <3>6. SumOf(made', Sensors) = overwrites' + SumOf(Held', Sensors) + buf' + popped'
      BY <2>1, <3>1, <3>3, <3>5
    <3> QED BY <3>6, TotalIs DEF RowAddsUp, Held
  <2> QED BY <1>2, <2>2, <2>3, <2>4 DEF Reader
<1>3. CASE Consumer
  <2>1. UNCHANGED <<avail, rpc, made, overwrites>>
    BY <1>3 DEF Consumer, ConsumerCheck, ConsumerPop
  <2>2. \A q \in Sensors : Held'[q] = Held[q] BY <2>1 DEF Held, InHand
  <2>3. CASE UNCHANGED <<buf, popped>> BY <1>0, <2>1, <2>2, <2>3
  <2>4. CASE buf' = buf - 1 /\ popped' = popped + 1
    <3>1. SumOf(Held', Sensors) = SumOf(Held, Sensors) BY <2>2, SumSame, BenchAssumption
    <3>2. SumOf(made, Sensors) = overwrites + SumOf(Held, Sensors) + buf + popped BY RowIs
    <3>3. SumOf(made, Sensors) = overwrites + SumOf(Held, Sensors) + (buf - 1) + (popped + 1)
      BY <3>2, RowTyped
    <3>4. SumOf(made', Sensors) = overwrites' + SumOf(Held', Sensors) + buf' + popped'
      BY <2>1, <2>4, <3>1, <3>3
    <3> QED BY <3>4, TotalIs DEF RowAddsUp, Held
  <2> QED BY <1>3, <2>3, <2>4 DEF Consumer, ConsumerCheck, ConsumerPop
<1>4. CASE Spawn
  <2>1. /\ \A q \in Sensors : made'[q] = 0 /\ Held'[q] = 0
        /\ overwrites' = 0 /\ buf' = 0 /\ popped' = 0
    BY <1>4 DEF Spawn, Fresh, Held, InHand
  <2>2. SumOf(made', Sensors) = 0 /\ SumOf(Held', Sensors) = 0
    BY <2>1, SumZero, BenchAssumption
  <2>3. SumOf(made', Sensors) = overwrites' + SumOf(Held', Sensors) + buf' + popped'
    BY <2>1, <2>2
  <2> QED BY <2>3, TotalIs DEF RowAddsUp, Held
<1>5. CASE Begin \/ RaiseStop \/ JoinAll \/ WriteRow \/ UNCHANGED vars
  <2>1. UNCHANGED <<avail, rpc, made, overwrites, buf, popped>>
    BY <1>5 DEF Begin, RaiseStop, JoinAll, WriteRow, vars
  <2> QED BY <1>0, <2>1 DEF Held, InHand
<1> QED BY <1>1, <1>2, <1>3, <1>4, <1>5 DEF Next, Main

\* Whatever came between a sensor's load of the counter and its add, every reading
\* generated is overwritten, in a ring, with a reader, in the buffer, or popped.
THEOREM RowAddsUpHolds == Spec => []RowAddsUp
<1>1. Init => Typed /\ InRing /\ RowAddsUp BY InitTyped, InitRow
<1>2. Typed /\ InRing /\ RowAddsUp /\ [Next]_vars => (Typed /\ InRing /\ RowAddsUp)'
  BY NextTyped, NextRow
<1> QED BY <1>1, <1>2, PTL DEF Spec
=============================================================================
