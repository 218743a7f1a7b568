----------------------------- MODULE SensorProofs -----------------------------
(***************************************************************************)
(* What holds of a sensor and its ring for every capacity, number of       *)
(* writes and number of starts.  First the ring, as long as a write to a   *)
(* full ring does not overlap a read: no data race, and it is the queue of *)
(* SampleQueue.  Then the sensor: its ring is the one of RoundQueue, its   *)
(* writer has one owner, a stopped sensor is silent and its count exact.   *)
(***************************************************************************)
EXTENDS Sensor, SequenceTheorems, TLAPS

-----------------------------------------------------------------------------
\* An index has one successor, and no two have the same.
LEMMA NextIndexIs ==
  ASSUME NEW i \in Slots
  PROVE  NextIndex(i) = IF i = Capacity - 1 THEN 0 ELSE i + 1
<1>1. Capacity \in Nat /\ Capacity > 1 BY RoundQueueAssumption
<1>2. CASE i = Capacity - 1
  BY <1>1, <1>2 DEF NextIndex, Slots
<1>3. CASE i # Capacity - 1
  <2>1. i + 1 \in 0 .. Capacity - 1 BY <1>1, <1>3 DEF Slots
  <2>2. (i + 1) % Capacity = i + 1 BY <1>1, <2>1
  <2> QED BY <1>3, <2>2 DEF NextIndex
<1> QED BY <1>2, <1>3

LEMMA NextIndexInjective ==
  ASSUME NEW i \in Slots, NEW j \in Slots
  PROVE  /\ NextIndex(i) \in Slots
         /\ NextIndex(i) # i
         /\ NextIndex(i) = NextIndex(j) => i = j
<1>1. Capacity \in Nat /\ Capacity > 1 BY RoundQueueAssumption
<1> QED BY <1>1, NextIndexIs DEF Slots

LEMMA PairExcept ==
  ASSUME NEW v \in Words \X Words, NEW h \in {1, 2}, NEW x \in Words
  PROVE  [v EXCEPT ![h] = x] \in Words \X Words
OBVIOUS

-----------------------------------------------------------------------------
\* The type invariant, with what keeps `written' within its bound.
Typed ==
  /\ TypeOK
  /\ wpc # "idle" => written < MaxWrites

LEMMA InitTyped == Init => Typed
<1>1. Capacity \in Nat /\ Capacity > 1 /\ MaxWrites \in Nat BY RoundQueueAssumption
<1>2. Init => buffer \in [Slots -> Words \X Words] /\ rVal \in Words \X Words
  BY <1>1 DEF Init, Words, Value
<1>3. Init => readIdx \in Slots /\ writeIdx \in Slots /\ wRead \in Slots
                /\ rIdx \in Slots /\ rNext \in Slots
  BY <1>1 DEF Init, Slots
<1>4. Init => got \in Seq(Words \X Words)
  BY DEF Init
<1>5. Init => written \in 0 .. MaxWrites
  BY <1>1 DEF Init
<1>6. Init => wpc = "idle" /\ rpc = "idle" /\ wasFull \in BOOLEAN
  BY Zenon DEF Init
<1> QED BY <1>2, <1>3, <1>4, <1>5, <1>6 DEF Typed, TypeOK

LEMMA NextTyped == Typed /\ [Next]_vars => Typed'
<1> SUFFICES ASSUME Typed, [Next]_vars
             PROVE  Typed'
  OBVIOUS
<1> USE RoundQueueAssumption DEF Typed, TypeOK
<1>1. CASE AcquireWrite
  BY <1>1 DEF AcquireWrite, shared, reader
<1>2. ASSUME NEW h \in {1, 2}, NEW from, NEW to \in {"half2", "load_read", "store_write"},
             WriteHalf(h, from, to), from # "idle"
      PROVE  Typed'
  <2>1. written + 1 \in Words BY <1>2 DEF WriteHalf, Words
  <2>2. [buffer[writeIdx] EXCEPT ![h] = written + 1] \in Words \X Words
    BY <2>1, PairExcept
  <2>3. buffer' \in [Slots -> Words \X Words]
    BY <1>2, <2>2 DEF WriteHalf
  <2> QED BY <1>2, <2>3 DEF WriteHalf, reader
<1>3. CASE WriteFirst \/ WriteSecond
  BY <1>2, <1>3 DEF WriteFirst, WriteSecond
<1>4. CASE CommitLoadRead
  BY <1>4 DEF CommitLoadRead, shared, reader
<1>5. CASE CommitStoreRead
  BY <1>5, NextIndexInjective DEF CommitStoreRead, reader
<1>6. CASE CommitStoreWrite
  BY <1>6, NextIndexInjective DEF CommitStoreWrite, reader
<1>7. CASE AcquireLoadRead
  BY <1>7 DEF AcquireLoadRead, shared, writer
<1>8. CASE AcquireLoadWrite
  BY <1>8 DEF AcquireLoadWrite, shared, writer
<1>9. ASSUME NEW h \in {1, 2}, NEW from, NEW to \in {"half2", "load_read"},
             ReadHalf(h, from, to)
      PROVE  Typed'
  <2>1. buffer[rIdx][h] \in Words
    <3>1. buffer[rIdx] \in Words \X Words OBVIOUS
    <3> QED BY <3>1
  <2>2. rVal' \in Words \X Words BY <1>9, <2>1, PairExcept DEF ReadHalf
  <2> QED BY <1>9, <2>2 DEF ReadHalf, shared, writer
<1>10. CASE ReadFirst \/ ReadSecond
  BY <1>9, <1>10 DEF ReadFirst, ReadSecond
<1>11. CASE CommitReadLoad
  BY <1>11, NextIndexInjective DEF CommitReadLoad, shared, writer
<1>12. CASE CommitReadStore
  <2>1. Append(got, rVal) \in Seq(Words \X Words) OBVIOUS
  <2> QED BY <1>12, <2>1 DEF CommitReadStore, writer
<1>13. CASE UNCHANGED vars
  BY <1>13 DEF vars, shared, writer, reader
<1> QED
  BY <1>1, <1>3, <1>4, <1>5, <1>6, <1>7, <1>8, <1>10, <1>11, <1>12, <1>13
     DEF Next, Writer, Reader

\* The type invariant holds of every ring.
THEOREM RingTyping == Spec => []TypeOK
<1>1. Typed => TypeOK BY DEF Typed
<1> QED BY <1>1, InitTyped, NextTyped, PTL DEF Spec

-----------------------------------------------------------------------------
\* Why a slot is never written while it is read.  A write to a full ring has the
\* reader idle all along.  Any other write is of a slot outside the contents,
\* and stays outside: only the reader moves readIdx then, and away from it.
Exclusion ==
  /\ wpc # "idle" /\ wasFull => rpc = "idle"
  /\ wpc \in {"half1", "half2", "store_write"} /\ ~wasFull => NextIndex(writeIdx) # readIdx
  /\ wpc \in {"load_read", "store_read"} => wasFull
  /\ rpc # "idle" => rIdx = readIdx
  /\ rpc \in {"half1", "half2", "load_read", "store_read"} => readIdx # writeIdx
  /\ rpc = "store_read" => rNext = NextIndex(readIdx)

LEMMA NextExclusion ==
  ASSUME ~Overrun, Typed, Exclusion, [Next]_vars
  PROVE  Exclusion'
<1> USE DEF Typed, TypeOK, Exclusion
<1>0. NextIndex(writeIdx)' = NextIndex(writeIdx') /\ NextIndex(readIdx)' = NextIndex(readIdx')
  BY DEF NextIndex
<1>1. CASE AcquireWrite
  BY <1>0, <1>1 DEF AcquireWrite, shared, reader
<1>2. CASE WriteFirst
  BY <1>0, <1>2 DEF WriteFirst, WriteHalf, reader
<1>3. CASE WriteSecond
  BY <1>0, <1>3 DEF WriteSecond, WriteHalf, reader
<1>4. CASE CommitLoadRead
  BY <1>0, <1>4 DEF CommitLoadRead, shared, reader
<1>5. CASE CommitStoreRead
  BY <1>0, <1>5 DEF CommitStoreRead, reader
<1>6. CASE CommitStoreWrite
  \* The new writeIdx is not readIdx, for that the ring was not full.
  BY <1>0, <1>6 DEF CommitStoreWrite, reader
<1>7. CASE AcquireLoadRead
  BY <1>0, <1>7 DEF AcquireLoadRead, shared, writer
<1>8. CASE AcquireLoadWrite
  BY <1>0, <1>8 DEF AcquireLoadWrite, shared, writer
<1>9. CASE ReadFirst
  BY <1>0, <1>9 DEF ReadFirst, ReadHalf, shared, writer
<1>10. CASE ReadSecond
  BY <1>0, <1>10 DEF ReadSecond, ReadHalf, shared, writer
<1>11. CASE CommitReadLoad
  BY <1>0, <1>11 DEF CommitReadLoad, shared, writer
<1>12. CASE CommitReadStore
  \* readIdx was not writeIdx, so its successor is not that of writeIdx.
  BY <1>0, <1>12, NextIndexInjective DEF CommitReadStore, writer
<1>13. CASE UNCHANGED vars
  BY <1>0, <1>13 DEF vars, shared, writer, reader
<1> QED
  BY <1>1, <1>2, <1>3, <1>4, <1>5, <1>6, <1>7, <1>8, <1>9, <1>10, <1>11, <1>12, <1>13
     DEF Next, Writer, Reader

\* Unless a write to a full ring overlaps a read, no slot is written while it is
\* read, whatever the capacity and whatever else the two threads do
\* (queue.rs 168-170).
THEOREM RingRaceFree ==
  ASSUME ~Overrun
  PROVE  Spec => []NoDataRace
<1>1. Init => Exclusion BY DEF Init, Exclusion
<1>2. Exclusion => NoDataRace BY DEF Exclusion, NoDataRace
<1>3. Typed /\ Exclusion /\ [Next]_vars => Exclusion' BY NextExclusion
<1> QED BY <1>1, <1>2, <1>3, InitTyped, NextTyped, PTL DEF Spec

-----------------------------------------------------------------------------
LEMMA RemainderPastOne ==
  ASSUME NEW c \in Nat, c > 1, NEW x \in 0 .. c - 1
  PROVE  (x + c) % c = x
OBVIOUS

\* Where the k-th value is, without a remainder.
LEMMA SlotIs ==
  ASSUME NEW r \in Slots, NEW k \in 1 .. Capacity
  PROVE  (r + k - 1) % Capacity = IF r + k - 1 < Capacity THEN r + k - 1
                                                          ELSE r + k - 1 - Capacity
<1>1. Capacity \in Nat /\ Capacity > 1 BY RoundQueueAssumption
<1>2. CASE r + k - 1 < Capacity
  <2>1. r + k - 1 \in 0 .. Capacity - 1 BY <1>1, <1>2 DEF Slots
  <2> QED BY <1>1, <1>2, <2>1
<1>3. CASE ~(r + k - 1 < Capacity)
  <2> DEFINE x == r + k - 1 - Capacity
  <2>1. x \in 0 .. Capacity - 1 BY <1>1, <1>3 DEF Slots
  <2>2. r + k - 1 = x + Capacity BY <1>1 DEF Slots
  <2>3. (x + Capacity) % Capacity = x BY <1>1, <2>1, RemainderPastOne
  <2> QED BY <1>3, <2>2, <2>3
<1> QED BY <1>2, <1>3

\* How far w is ahead of r.
Ahead(r, w) == IF w >= r THEN w - r ELSE Capacity - r + w

LEMMA AheadIs ==
  ASSUME NEW r \in Slots, NEW w \in Slots
  PROVE  /\ Ahead(r, w) \in 0 .. Capacity - 1
         /\ Ahead(r, w) = 0 <=> r = w
         /\ Ahead(r, w) = Capacity - 1 <=> NextIndex(w) = r
         /\ r # w => Ahead(NextIndex(r), w) = Ahead(r, w) - 1
         /\ NextIndex(w) # r => Ahead(r, NextIndex(w)) = Ahead(r, w) + 1
<1>1. Capacity \in Nat /\ Capacity > 1 BY RoundQueueAssumption
<1> QED BY <1>1, NextIndexIs DEF Ahead, Slots

\* The slot w is behind the values between r and w, and not one of them.
LEMMA SlotsAhead ==
  ASSUME NEW r \in Slots, NEW w \in Slots
  PROVE  /\ (r + Ahead(r, w)) % Capacity = w
         /\ \A k \in 1 .. Ahead(r, w) : (r + k - 1) % Capacity \in Slots \ {w}
         /\ r # w => \A k \in 1 .. Ahead(r, w) - 1 :
                       (NextIndex(r) + k - 1) % Capacity = (r + (k + 1) - 1) % Capacity
<1>1. Capacity \in Nat /\ Capacity > 1 BY RoundQueueAssumption
<1>2. Ahead(r, w) \in 0 .. Capacity - 1 BY AheadIs
<1>3. (r + Ahead(r, w)) % Capacity = w
  <2>1. Ahead(r, w) + 1 \in 1 .. Capacity BY <1>1, <1>2
  <2>2. r + (Ahead(r, w) + 1) - 1 = r + Ahead(r, w) BY <1>2 DEF Slots
  <2> QED BY <1>1, <2>1, <2>2, SlotIs DEF Ahead, Slots
<1>4. ASSUME NEW k \in 1 .. Ahead(r, w)
      PROVE  (r + k - 1) % Capacity \in Slots \ {w}
  <2>1. k \in 1 .. Capacity BY <1>1, <1>2
  <2> QED BY <1>1, <1>2, <2>1, SlotIs DEF Ahead, Slots
<1>5. ASSUME r # w, NEW k \in 1 .. Ahead(r, w) - 1
      PROVE  (NextIndex(r) + k - 1) % Capacity = (r + (k + 1) - 1) % Capacity
  <2>1. k \in 1 .. Capacity /\ k + 1 \in 1 .. Capacity BY <1>1, <1>2
  <2>2. NextIndex(r) \in Slots BY NextIndexInjective
  <2>3. (r + (k + 1) - 1) % Capacity = IF r + k < Capacity THEN r + k ELSE r + k - Capacity
    <3>1. r + (k + 1) - 1 = r + k BY <2>1 DEF Slots
    <3> QED BY <2>1, <3>1, SlotIs
  <2>4. (NextIndex(r) + k - 1) % Capacity
          = IF NextIndex(r) + k - 1 < Capacity THEN NextIndex(r) + k - 1
                                               ELSE NextIndex(r) + k - 1 - Capacity
    BY <2>1, <2>2, SlotIs
  <2> QED BY <1>1, <2>1, <2>3, <2>4, NextIndexIs DEF Slots
<1> QED BY <1>3, <1>4, <1>5

-----------------------------------------------------------------------------
\* Contents as a function of the ring's shared state, and how it changes.
ContentsOf(b, r, w) == [k \in 1 .. Ahead(r, w) |-> b[(r + k - 1) % Capacity]]

Pairs == Words \X Words

LEMMA ContentsAre ==
  ASSUME NEW b \in [Slots -> Pairs], NEW r \in Slots, NEW w \in Slots
  PROVE  /\ ContentsOf(b, r, w) \in Seq(Pairs)
         /\ Len(ContentsOf(b, r, w)) = Ahead(r, w)
<1>1. Capacity \in Nat /\ Capacity > 1 BY RoundQueueAssumption
<1>2. Ahead(r, w) \in Nat BY <1>1, AheadIs
<1>3. \A k \in 1 .. Ahead(r, w) : b[(r + k - 1) % Capacity] \in Pairs
  BY SlotsAhead
<1> QED BY <1>2, <1>3 DEF ContentsOf

LEMMA ContentsRead ==
  ASSUME NEW b \in [Slots -> Pairs], NEW r \in Slots, NEW w \in Slots, r # w
  PROVE  /\ ContentsOf(b, r, w) # <<>>
         /\ Head(ContentsOf(b, r, w)) = b[r]
         /\ ContentsOf(b, NextIndex(r), w) = Tail(ContentsOf(b, r, w))
<1> DEFINE s == ContentsOf(b, r, w)
           t == ContentsOf(b, NextIndex(r), w)
<1>1. Capacity \in Nat /\ Capacity > 1 BY RoundQueueAssumption
<1>2. NextIndex(r) \in Slots BY NextIndexInjective
<1>3. Ahead(r, w) \in Nat \ {0} /\ Ahead(NextIndex(r), w) = Ahead(r, w) - 1
  BY <1>1, AheadIs
<1>4. s \in Seq(Pairs) /\ Len(s) = Ahead(r, w) BY ContentsAre
<1>5. t \in Seq(Pairs) /\ Len(t) = Ahead(r, w) - 1 BY <1>2, <1>3, ContentsAre
<1>6. s[1] = b[r]
  <2>1. r + 1 - 1 = r /\ r % Capacity = r BY <1>1 DEF Slots
  <2> QED BY <1>3, <2>1 DEF ContentsOf
<1>7. ASSUME NEW k \in 1 .. Ahead(r, w) - 1 PROVE t[k] = s[k + 1]
  <2>1. (NextIndex(r) + k - 1) % Capacity = (r + (k + 1) - 1) % Capacity BY SlotsAhead
  <2>2. k + 1 \in 1 .. Ahead(r, w) BY <1>3
  <2> QED BY <1>3, <2>1, <2>2 DEF ContentsOf
<1>8. t = Tail(s)
  <2> HIDE DEF s, t
  <2>1. Tail(s) \in Seq(Pairs) /\ Len(Tail(s)) = Ahead(r, w) - 1 BY <1>3, <1>4
  <2>2. \A k \in 1 .. Ahead(r, w) - 1 : Tail(s)[k] = s[k + 1] BY <1>3, <1>4
  <2>3. \A k \in 1 .. Ahead(r, w) - 1 : t[k] = Tail(s)[k] BY <1>7, <2>2
  <2> QED BY <1>3, <1>5, <2>1, <2>3, SeqEqual
<1>9. s # <<>> /\ Head(s) = s[1]
  <2> HIDE DEF s
  <2> QED BY <1>3, <1>4
<1> QED BY <1>6, <1>8, <1>9

LEMMA ContentsWrite ==
  ASSUME NEW b \in [Slots -> Pairs], NEW r \in Slots, NEW w \in Slots, NextIndex(w) # r
  PROVE  ContentsOf(b, r, NextIndex(w)) = Append(ContentsOf(b, r, w), b[w])
<1> DEFINE s == ContentsOf(b, r, w)
           t == ContentsOf(b, r, NextIndex(w))
           a == Append(s, b[w])
<1>1. Capacity \in Nat /\ Capacity > 1 BY RoundQueueAssumption
<1>2. NextIndex(w) \in Slots BY NextIndexInjective
<1>3. Ahead(r, w) \in Nat /\ Ahead(r, NextIndex(w)) = Ahead(r, w) + 1
  BY <1>1, AheadIs
<1>4. s \in Seq(Pairs) /\ Len(s) = Ahead(r, w) BY ContentsAre
<1>5. t \in Seq(Pairs) /\ Len(t) = Ahead(r, w) + 1 BY <1>2, <1>3, ContentsAre
<1>6. \A k \in 1 .. Ahead(r, w) : t[k] = s[k]
  BY <1>3 DEF ContentsOf
<1>7. t[Ahead(r, w) + 1] = b[w]
  <2>1. r + (Ahead(r, w) + 1) - 1 = r + Ahead(r, w) BY <1>3 DEF Slots
  <2>2. (r + Ahead(r, w)) % Capacity = w BY SlotsAhead
  <2> QED BY <1>3, <2>1, <2>2 DEF ContentsOf
<1>8. t = a
  <2> HIDE DEF s, t
  <2>1. a \in Seq(Pairs) /\ Len(a) = Ahead(r, w) + 1 BY <1>3, <1>4
  <2>2. \A k \in 1 .. Ahead(r, w) + 1 : t[k] = a[k] BY <1>3, <1>4, <1>6, <1>7
  <2> HIDE DEF a
  <2> QED BY <1>3, <1>5, <2>1, <2>2, SeqEqual
<1> QED BY <1>8

LEMMA ContentsKept ==
  ASSUME NEW b \in [Slots -> Pairs], NEW c \in [Slots -> Pairs],
         NEW r \in Slots, NEW w \in Slots,
         \A i \in Slots \ {w} : c[i] = b[i]
  PROVE  ContentsOf(c, r, w) = ContentsOf(b, r, w)
BY SlotsAhead DEF ContentsOf

-----------------------------------------------------------------------------
\* What the two threads have in hand.  The writer: its slot filled as far as it
\* has come, and while it overwrites, a ring that stays full until it gives up the
\* oldest value.  The reader: of the oldest value what it has copied.
InHand ==
  /\ wpc = "half2" => buffer[writeIdx][1] = written + 1
  /\ wpc \in {"load_read", "store_read", "store_write"} => buffer[writeIdx] = Value(written + 1)
  /\ wpc \in {"half1", "half2", "load_read", "store_read"} /\ wasFull
       => NextIndex(writeIdx) = readIdx
  /\ wpc = "store_read" => wRead = readIdx
  /\ wpc = "store_write" => NextIndex(writeIdx) # readIdx
  /\ rpc = "half2" => rVal[1] = buffer[readIdx][1]
  /\ rpc \in {"load_read", "store_read"} => rVal = buffer[readIdx]

LEMMA TypedFacts ==
  ASSUME Typed
  PROVE  /\ buffer \in [Slots -> Pairs] /\ rVal \in Pairs
         /\ readIdx \in Slots /\ writeIdx \in Slots /\ rIdx \in Slots
         /\ written \in Nat
BY RoundQueueAssumption DEF Typed, TypeOK, Pairs

LEMMA NextInHand ==
  ASSUME ~Overrun, Typed, Exclusion, InHand, [Next]_vars
  PROVE  InHand'
<1> USE TypedFacts DEF InHand
<1>0. NextIndex(writeIdx)' = NextIndex(writeIdx') /\ Value(written + 1)' = Value(written' + 1)
  BY DEF NextIndex, Value
<1>1. CASE AcquireWrite
  BY <1>0, <1>1 DEF AcquireWrite, shared, reader
<1>2. CASE WriteFirst
  <2>1. buffer'[writeIdx][1] = written + 1
    BY <1>2 DEF WriteFirst, WriteHalf, Pairs
  <2>2. rpc \in {"half2", "load_read", "store_read"} => buffer'[readIdx] = buffer[readIdx]
    BY <1>2 DEF WriteFirst, WriteHalf, Exclusion
  <2> QED BY <1>0, <1>2, <2>1, <2>2 DEF WriteFirst, WriteHalf, reader
<1>3. CASE WriteSecond
  <2>1. buffer'[writeIdx] = Value(written + 1)
    <3>1. buffer[writeIdx] \in Pairs OBVIOUS
    <3>2. buffer'[writeIdx] = [buffer[writeIdx] EXCEPT ![2] = written + 1]
      BY <1>3 DEF WriteSecond, WriteHalf
    <3>3. buffer[writeIdx][1] = written + 1 BY <1>3 DEF WriteSecond, WriteHalf
    <3> QED BY <3>1, <3>2, <3>3 DEF Pairs, Value
  <2>2. rpc \in {"half2", "load_read", "store_read"} => buffer'[readIdx] = buffer[readIdx]
    BY <1>3 DEF WriteSecond, WriteHalf, Exclusion
  <2> QED BY <1>0, <1>3, <2>1, <2>2 DEF WriteSecond, WriteHalf, Exclusion, reader
<1>4. CASE CommitLoadRead
  BY <1>0, <1>4 DEF CommitLoadRead, Exclusion, shared, reader
<1>5. CASE CommitStoreRead
  <2>1. NextIndex(readIdx) # readIdx BY NextIndexInjective
  <2> QED BY <1>0, <1>5, <2>1 DEF CommitStoreRead, Exclusion, reader
<1>6. CASE CommitStoreWrite
  BY <1>0, <1>6 DEF CommitStoreWrite, reader
<1>7. CASE AcquireLoadRead
  BY <1>0, <1>7 DEF AcquireLoadRead, shared, writer
<1>8. CASE AcquireLoadWrite
  BY <1>0, <1>8 DEF AcquireLoadWrite, shared, writer
<1>9. CASE ReadFirst
  BY <1>0, <1>9 DEF ReadFirst, ReadHalf, Exclusion, Pairs, shared, writer
<1>10. CASE ReadSecond
  <2>1. rVal' = buffer[readIdx]
    <3>1. rVal \in Pairs /\ buffer[readIdx] \in Pairs OBVIOUS
    <3>2. rVal' = [rVal EXCEPT ![2] = buffer[readIdx][2]] /\ rVal[1] = buffer[readIdx][1]
      BY <1>10 DEF ReadSecond, ReadHalf, Exclusion
    <3> QED BY <3>1, <3>2 DEF Pairs
  <2> QED BY <1>0, <1>10, <2>1 DEF ReadSecond, ReadHalf, shared, writer
<1>11. CASE CommitReadLoad
  BY <1>0, <1>11 DEF CommitReadLoad, shared, writer
<1>12. CASE CommitReadStore
  BY <1>0, <1>12, NextIndexInjective DEF CommitReadStore, Exclusion, writer
<1>13. CASE UNCHANGED vars
  BY <1>0, <1>13 DEF vars, shared, writer, reader
<1> QED
  BY <1>1, <1>2, <1>3, <1>4, <1>5, <1>6, <1>7, <1>8, <1>9, <1>10, <1>11, <1>12, <1>13
     DEF Next, Writer, Reader

-----------------------------------------------------------------------------
LEMMA ContentsIs ==
  /\ Contents = ContentsOf(buffer, readIdx, writeIdx)
  /\ Contents' = ContentsOf(buffer', readIdx', writeIdx')
BY DEF Contents, ContentsOf, Length, Ahead

\* A step of the ring is one of the queue it promises, or none.
LEMMA StepImplements ==
  ASSUME ~Overrun, Typed, Typed', Exclusion, InHand, [Next]_vars
  PROVE  [Promise!Next]_(Promise!queueVars)
<1> USE TypedFacts, ContentsIs
<1>0. buffer' \in [Slots -> Pairs]
  BY DEF Typed, TypeOK, Pairs
<1>1. ASSUME UNCHANGED <<buffer, readIdx, writeIdx, got>>
      PROVE  [Promise!Next]_(Promise!queueVars)
  BY <1>1 DEF Promise!queueVars
<1>2. CASE WriteFirst \/ WriteSecond
  <2>1. \A i \in Slots \ {writeIdx} : buffer'[i] = buffer[i]
    BY <1>2 DEF WriteFirst, WriteSecond, WriteHalf
  <2>2. UNCHANGED <<readIdx, writeIdx, got>>
    BY <1>2 DEF WriteFirst, WriteSecond, WriteHalf, reader
  <2>3. Contents' = Contents BY <1>0, <2>1, <2>2, ContentsKept
  <2> QED BY <2>2, <2>3 DEF Promise!queueVars
<1>3. CASE CommitStoreRead
  \* The oldest value is given up.
  <2>1. readIdx' = NextIndex(readIdx) /\ UNCHANGED <<buffer, writeIdx, got>>
    BY <1>3 DEF CommitStoreRead, InHand, reader
  <2>2. NextIndex(writeIdx) = readIdx BY <1>3 DEF CommitStoreRead, InHand, Exclusion
  <2>3. writeIdx # readIdx BY <2>2, NextIndexInjective
  <2>4. Len(Contents) = Capacity - 1 BY <2>2, AheadIs, ContentsAre
  <2>5. Contents' = Tail(Contents) BY <2>1, <2>3, ContentsRead
  <2> QED BY <2>1, <2>4, <2>5 DEF Promise!Next, Promise!GiveUpOldest
<1>4. CASE CommitStoreWrite
  <2>1. writeIdx' = NextIndex(writeIdx) /\ UNCHANGED <<buffer, readIdx, got>>
    BY <1>4 DEF CommitStoreWrite, reader
  <2>2. NextIndex(writeIdx) # readIdx /\ buffer[writeIdx] = Value(written + 1)
    BY <1>4 DEF CommitStoreWrite, InHand
  <2>3. Len(Contents) < Capacity - 1
    <3>1. Len(Contents) = Ahead(readIdx, writeIdx) BY ContentsAre
    <3>2. Ahead(readIdx, writeIdx) \in 0 .. Capacity - 1 BY AheadIs
    <3>3. Ahead(readIdx, writeIdx) # Capacity - 1 BY <2>2, AheadIs
    <3> QED BY <3>1, <3>2, <3>3, RoundQueueAssumption
  <2>4. Contents' = Append(Contents, Value(written + 1))
    BY <2>1, <2>2, ContentsWrite
  <2>5. written + 1 \in 1 .. MaxWrites
    BY <1>4, RoundQueueAssumption DEF CommitStoreWrite, Typed, TypeOK
  <2>6. Promise!Write(Value(written + 1)) BY <2>1, <2>3, <2>4 DEF Promise!Write
  <2> QED BY <2>5, <2>6 DEF Promise!Next
<1>5. CASE CommitReadStore
  <2>1. readIdx' = NextIndex(readIdx) /\ readIdx # writeIdx /\ UNCHANGED <<buffer, writeIdx>>
    BY <1>5 DEF CommitReadStore, Exclusion
  <2>2. got' = Append(got, buffer[readIdx]) BY <1>5 DEF CommitReadStore, InHand
  <2>3. Contents # <<>> /\ Head(Contents) = buffer[readIdx] /\ Contents' = Tail(Contents)
    BY <2>1, ContentsRead
  <2> QED BY <2>2, <2>3 DEF Promise!Next, Promise!Read
<1>6. CASE AcquireWrite \/ CommitLoadRead
  BY <1>1, <1>6 DEF AcquireWrite, CommitLoadRead, shared, reader
<1>7. CASE AcquireLoadRead \/ AcquireLoadWrite \/ ReadFirst \/ ReadSecond \/ CommitReadLoad
  BY <1>1, <1>7 DEF AcquireLoadRead, AcquireLoadWrite, ReadFirst, ReadSecond, ReadHalf,
                    CommitReadLoad, shared
<1>8. CASE UNCHANGED vars
  BY <1>1, <1>8 DEF vars, shared, reader
<1> QED
  BY <1>2, <1>3, <1>4, <1>5, <1>6, <1>7, <1>8 DEF Next, Writer, Reader

\* Unless a write to a full ring overlaps a read, two indices and no lock make the
\* queue of the module's comments: every value comes out whole, once and in order,
\* and only a full ring gives one up, its oldest.
THEOREM RingImplementsQueue ==
  ASSUME ~Overrun
  PROVE  Spec => ImplementsQueue
<1>1. Init => Promise!Init
  <2>1. Init => Length = 0
    BY DEF Init, Length
  <2>2. Init => Contents = <<>> BY <2>1 DEF Contents
  <2> QED BY <2>2 DEF Init, Promise!Init
<1>2. Init => Exclusion /\ InHand
  BY DEF Init, Exclusion, InHand
<1>3. Typed /\ Exclusion /\ [Next]_vars => Exclusion' BY NextExclusion
<1>4. Typed /\ Exclusion /\ InHand /\ [Next]_vars => InHand' BY NextInHand
<1>5. Typed /\ Typed' /\ Exclusion /\ InHand /\ [Next]_vars
        => [Promise!Next]_(Promise!queueVars)
  BY StepImplements
<1> QED
  BY <1>1, <1>2, <1>3, <1>4, <1>5, InitTyped, NextTyped, PTL
     DEF Spec, ImplementsQueue, Promise!Spec

-----------------------------------------------------------------------------
\* A step of the sensor is a step of its ring, or none.
LEMMA SensorStepIsRingStep == [SensorNext]_sensorVars => [Next]_vars
<1> SUFFICES ASSUME [SensorNext]_sensorVars PROVE [Next]_vars
  OBVIOUS
<1>1. CASE GeneratorCheck BY <1>1 DEF GeneratorCheck
<1>2. CASE GeneratorWrite BY <1>2 DEF GeneratorWrite, Next
<1>3. CASE Start BY <1>3 DEF Start
<1>4. CASE Stop BY <1>4 DEF Stop
<1>5. CASE Joined BY <1>5 DEF Joined
<1>6. CASE AvailableLoadRead BY <1>6 DEF AvailableLoadRead
<1>7. CASE Available BY <1>7 DEF Available
<1>8. CASE ReadStep BY <1>8 DEF ReadStep, Next
<1>9. CASE UNCHANGED sensorVars BY <1>9 DEF sensorVars
<1> QED
  BY <1>1, <1>2, <1>3, <1>4, <1>5, <1>6, <1>7, <1>8, <1>9 DEF SensorNext, Generator, Owner

\* Every behaviour of a sensor is one of its ring.
LEMMA SensorIsRing == SensorSpec => Spec
<1>1. SensorInit => Init BY DEF SensorInit
<1> QED BY <1>1, SensorStepIsRingStep, PTL DEF SensorSpec, Spec

-----------------------------------------------------------------------------
\* The life of the generator.  It has the writer from start to the return of
\* join; past its last look at the flag only stop, which waits for it, has
\* cleared the flag; and the ring moves under available only while it lives.
Life ==
  /\ gpc \in {"none", "check", "write", "exited"}
  /\ OneWriter
  /\ opc \in {"up", "len", "join"}
  /\ gpc \in {"check", "write"} => running \/ opc = "join"
  /\ opc = "len" /\ gpc = "none" => lenIdx = readIdx
  /\ wpc # "idle" => gpc = "write"

LEMMA NextLife == Life /\ [SensorNext]_sensorVars => Life'
<1> SUFFICES ASSUME Life, [SensorNext]_sensorVars PROVE Life'
  OBVIOUS
<1> USE DEF Life, OneWriter
<1>1. CASE GeneratorCheck
  BY <1>1 DEF GeneratorCheck, vars, writer, shared, owner
<1>2. CASE GeneratorWrite
  BY <1>2 DEF GeneratorWrite, vars, writer, shared, owner
<1>3. CASE Start
  <2>1. UNCHANGED <<vars, owner>> /\ opc = "up" BY <1>3 DEF Start, Free
  <2>2. CASE handle /\ UNCHANGED <<life, panicked>>
    BY <2>1, <2>2 DEF vars, writer, owner, life
  <2>3. CASE ~handle
    <3>1. gpc = "none" /\ home BY <2>3
    <3>2. running' = TRUE /\ home' = FALSE /\ handle' = TRUE /\ gpc' = "check" /\ ~panicked'
      BY <1>3, <2>3, <3>1 DEF Start
    <3> QED BY <2>1, <3>1, <3>2 DEF vars, writer, owner
  <2> QED BY <1>3, <2>2, <2>3 DEF Start
<1>4. CASE Stop
  BY <1>4 DEF Stop, Free, vars, writer, shared
<1>5. CASE Joined
  BY <1>5 DEF Joined, vars, writer, shared
<1>6. CASE AvailableLoadRead
  BY <1>6 DEF AvailableLoadRead, Free, vars, writer, shared, life
<1>7. CASE Available
  BY <1>7 DEF Available, vars, writer, shared, life
<1>8. CASE ReadStep
  <2>1. UNCHANGED writer
    BY <1>8 DEF ReadStep, Reader, AcquireLoadRead, AcquireLoadWrite, ReadFirst, ReadSecond,
                ReadHalf, CommitReadLoad, CommitReadStore
  <2> QED BY <1>8, <2>1 DEF ReadStep, writer, life, owner
<1>9. CASE UNCHANGED sensorVars
  BY <1>9 DEF sensorVars, vars, writer, shared, life, owner
<1> QED
  BY <1>1, <1>2, <1>3, <1>4, <1>5, <1>6, <1>7, <1>8, <1>9 DEF SensorNext, Generator, Owner

LEMMA LifeHolds == SensorSpec => []Life
<1>1. SensorInit => Life BY DEF SensorInit, Init, Life, OneWriter
<1> QED BY <1>1, NextLife, PTL DEF SensorSpec

-----------------------------------------------------------------------------
\* The ring of a sensor that is started, stopped and restarted at will is free
\* of races on its slots, as long as no write to a full ring overlaps a read.
THEOREM SensorRaceFree ==
  ASSUME ~Overrun
  PROVE  SensorSpec => []NoDataRace
BY SensorIsRing, RingRaceFree

\* So the sensor's ring stays the queue it promises to be, through stops and
\* restarts.
THEOREM SensorImplementsQueue ==
  ASSUME ~Overrun
  PROVE  SensorSpec => ImplementsQueue
BY SensorIsRing, RingImplementsQueue

\* The writer is in exactly one place, so start never finds it gone ("start
\* called twice"), stop joins whoever has it, and no two generators write.
THEOREM OneWriterHolds == SensorSpec => []OneWriter
<1>1. Life => OneWriter BY DEF Life
<1> QED BY <1>1, LifeHolds, PTL

\* stop halts: once it has returned, nothing is written until start is called
\* again (thermometer.rs 157-175).
THEOREM StoppedIsSilentHolds == SensorSpec => StoppedIsSilent
<1>1. ASSUME Life, [SensorNext]_sensorVars, written' # written
      PROVE  running \/ opc = "join"
  <2>1. ~UNCHANGED vars BY <1>1 DEF vars, writer
  <2>2. GeneratorWrite \/ ReadStep
    BY <1>1, <2>1 DEF SensorNext, Generator, Owner, GeneratorCheck, Start, Stop, Joined,
                      AvailableLoadRead, Available, sensorVars
  <2>3. ~ReadStep
    BY <1>1 DEF ReadStep, Reader, AcquireLoadRead, AcquireLoadWrite, ReadFirst, ReadSecond,
                ReadHalf, CommitReadLoad, CommitReadStore, writer
  <2> QED BY <1>1, <2>2, <2>3 DEF GeneratorWrite, Life
<1>2. Life /\ [SensorNext]_sensorVars
        => [written' # written => running \/ opc = "join"]_sensorVars
  BY <1>1
<1> QED BY <1>2, LifeHolds, PTL DEF SensorSpec, StoppedIsSilent

\* What available returns of a stopped sensor is exact: a reader that drains
\* (main.rs 468-475) takes 0 to mean that nothing is left.
THEOREM StoppedCountIsExactHolds == SensorSpec => StoppedCountIsExact
<1>1. ASSUME Life, Typed, [SensorNext]_sensorVars, opc = "len", opc' = "up", gpc = "none"
      PROVE  avail' = Length
  <2>1. Available
    BY <1>1 DEF SensorNext, Generator, Owner, GeneratorCheck, GeneratorWrite, Start, Stop,
                Joined, AvailableLoadRead, ReadStep, Free, owner, sensorVars
  <2>2. lenIdx = readIdx BY <1>1 DEF Life
  <2>3. readIdx \in Nat /\ writeIdx \in Nat /\ Capacity \in Nat
    BY <1>1, RoundQueueAssumption DEF Typed, TypeOK, Slots
  <2> QED BY <2>1, <2>2, <2>3 DEF Available, Length
<1>2. Life /\ Typed /\ [SensorNext]_sensorVars
        => [opc = "len" /\ opc' = "up" /\ gpc = "none" => avail' = Length]_sensorVars
  BY <1>1
<1>3. SensorSpec => []Typed
  BY InitTyped, NextTyped, SensorIsRing, PTL DEF Spec
<1> QED BY <1>2, <1>3, LifeHolds, PTL DEF SensorSpec, StoppedCountIsExact
=============================================================================
