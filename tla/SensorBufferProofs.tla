-------------------------- MODULE SensorBufferProofs --------------------------
(***************************************************************************)
(* Theorems about SensorBuffer, for any finite sets of producers and       *)
(* consumers, any capacity and any number of pushes.                       *)
(***************************************************************************)
EXTENDS SensorBuffer, SequenceTheorems, FiniteSetTheorems, TLAPS

USE DEF ParkedFull, ParkedEmpty, WokenEmpty, ProducerPC, ConsumerPC

LEMMA ItemTyped ==
  ASSUME TypeOK, NEW p \in Producers, sent[p] < MaxPush
  PROVE  Item(p) \in Items
  BY BufferAssumption DEF TypeOK, Item, Items

LEMMA EnqueueTyped ==
  ASSUME TypeOK, NEW p \in Producers, sent[p] < MaxPush, Enqueue(p)
  PROVE  TypeOK'
  <1>1. q' \in Seq(Items) /\ Len(q') = Len(q) + 1
    BY ItemTyped, AppendProperties DEF TypeOK, Enqueue
  <1>2. highWatermark' \in 0 .. Capacity
    BY <1>1, BufferAssumption DEF TypeOK, Enqueue, Full
  <1> QED
    BY <1>1, <1>2, BufferAssumption DEF TypeOK, Enqueue, At, Threads, Items

LEMMA RefuseTyped ==
  ASSUME TypeOK, NEW p \in Producers, Refuse(p)
  PROVE  TypeOK'
  BY BufferAssumption DEF TypeOK, Refuse, inner, At, Threads, Items

LEMMA ParkFullTyped ==
  ASSUME TypeOK, NEW p \in Producers, sent[p] < MaxPush, ParkFull(p)
  PROVE  TypeOK'
  BY BufferAssumption DEF TypeOK, ParkFull, Counted, At, Threads, Items

LEMMA NotifyEmptyTyped ==
  ASSUME TypeOK, NEW p \in Producers, NotifyEmpty(p)
  PROVE  TypeOK'
  <1>1. CASE /\ Waiters(ParkedEmpty) = {}
             /\ At(p, "idle")
    BY <1>1, BufferAssumption DEF TypeOK, NotifyEmpty, inner, At, Threads
  <1>2. CASE \E c \in Waiters(ParkedEmpty) :
               pc' = [pc EXCEPT ![p] = "idle", ![c] = AwakeEmpty(c)]
    <2>1. PICK c \in Waiters(ParkedEmpty) :
               pc' = [pc EXCEPT ![p] = "idle", ![c] = AwakeEmpty(c)]
      BY <1>2
    <2>2. c \in Consumers /\ c # p
      BY <2>1, BufferAssumption DEF TypeOK, Waiters, Threads
    <2>3. pc' \in [Threads -> ProducerPC \cup ConsumerPC]
      BY <2>1 DEF TypeOK, AwakeEmpty, Threads
    <2>4. \A u \in Threads : pc'[u] = IF u = c THEN AwakeEmpty(c)
                                     ELSE IF u = p THEN "idle" ELSE pc[u]
      BY <2>1, <2>2 DEF TypeOK, Threads
    <2>5. sent' \in [Producers -> 0 .. MaxPush]
      BY BufferAssumption DEF TypeOK, NotifyEmpty
    <2>6. /\ \A u \in Producers : pc'[u] \in ProducerPC
          /\ \A u \in Consumers : pc'[u] \in ConsumerPC
          /\ \A u \in Closers : pc'[u] \in {"idle", "done"}
      BY <2>2, <2>4, BufferAssumption DEF TypeOK, AwakeEmpty, Threads
    <2>7. \A u \in Producers : pc'[u] \in {"wait_full", "woke_full", "notify_empty"}
                              => sent'[u] < MaxPush
      BY <2>2, <2>4, BufferAssumption DEF TypeOK, NotifyEmpty, Threads
    <2> QED
      BY <2>3, <2>5, <2>6, <2>7 DEF TypeOK, NotifyEmpty, inner
  <1> QED
    BY <1>1, <1>2 DEF NotifyEmpty

LEMMA DequeueTyped ==
  ASSUME TypeOK, NEW c \in Consumers, Dequeue(c)
  PROVE  TypeOK'
  <1>1. Head(q) \in Items /\ Tail(q) \in Seq(Items)
    BY HeadTailProperties DEF TypeOK, Dequeue, Empty
  <1>2. delivered' \in Seq(Items)
    BY <1>1, AppendProperties DEF TypeOK, Dequeue
  <1>3. pc' \in [Threads -> ProducerPC \cup ConsumerPC]
    BY DEF TypeOK, Dequeue, At, Threads
  <1> QED
    BY <1>1, <1>2, <1>3, BufferAssumption DEF TypeOK, Dequeue, At, Threads

LEMMA PopOtherTyped ==
  ASSUME TypeOK, NEW c \in Consumers,
         \/ EndOfStream(c) \/ GiveUp(c) \/ PopTimedOut(c) \/ TimeIsUp(c)
         \/ ParkEmpty(c, "wait_empty") \/ ParkEmpty(c, "wait_empty_timed")
         \/ NotifyFull(c)
  PROVE  TypeOK'
  <1>1. CASE NotifyFull(c)
    <2>1. CASE At(c, "idle")
      BY <1>1, <2>1, BufferAssumption DEF TypeOK, NotifyFull, inner, At, Threads
    <2>2. CASE \E p \in Waiters(ParkedFull) :
                 pc' = [pc EXCEPT ![c] = "idle", ![p] = "woke_full"]
      <3>1. PICK p \in Waiters(ParkedFull) :
                 pc' = [pc EXCEPT ![c] = "idle", ![p] = "woke_full"]
        BY <2>2
      <3>2. p \in Producers /\ c # p
        BY <3>1, BufferAssumption DEF TypeOK, Waiters, Threads
      <3>3. pc' \in [Threads -> ProducerPC \cup ConsumerPC]
        BY <3>1 DEF TypeOK, Threads
      <3>4. \A u \in Threads : pc'[u] = IF u = p THEN "woke_full"
                                       ELSE IF u = c THEN "idle" ELSE pc[u]
        BY <3>1, <3>2 DEF TypeOK, Threads
      <3>5. \A u \in Producers : pc'[u] \in {"wait_full", "woke_full", "notify_empty"}
                                => sent[u] < MaxPush
        BY <3>1, <3>2, <3>4, BufferAssumption DEF TypeOK, Waiters, Threads
      <3>6. \A u \in Producers : pc'[u] \in ProducerPC
        BY <3>2, <3>4, BufferAssumption DEF TypeOK, Threads
      <3>7. \A u \in Consumers : pc'[u] \in ConsumerPC
        BY <3>2, <3>4, BufferAssumption DEF TypeOK, Threads
      <3>8. \A u \in Closers : pc'[u] \in {"idle", "done"}
        BY <3>2, <3>4, BufferAssumption DEF TypeOK, Threads
      <3>9. UNCHANGED <<inner, sent, delivered>> BY <1>1 DEF NotifyFull
      <3> QED
        BY <3>3, <3>5, <3>6, <3>7, <3>8, <3>9 DEF TypeOK, inner
    <2> QED
      BY <1>1, <2>1, <2>2 DEF NotifyFull
  <1>2. CASE ParkEmpty(c, "wait_empty") \/ ParkEmpty(c, "wait_empty_timed")
    <2>1. popWaits' \in 0 .. MaxWaits
      BY <1>2, BufferAssumption DEF TypeOK, ParkEmpty, Counted
    <2>2. PICK where \in ParkedEmpty : pc' = [pc EXCEPT ![c] = where]
      BY <1>2 DEF ParkEmpty, At
    <2> QED
      BY <1>2, <2>1, <2>2, BufferAssumption DEF TypeOK, ParkEmpty, Threads
  <1>3. CASE EndOfStream(c) \/ GiveUp(c) \/ PopTimedOut(c) \/ TimeIsUp(c)
    <2>1. PICK where \in ConsumerPC : pc' = [pc EXCEPT ![c] = where]
      BY <1>3 DEF EndOfStream, GiveUp, PopTimedOut, TimeIsUp, At
    <2>2. UNCHANGED <<inner, sent, delivered>>
      BY <1>3 DEF EndOfStream, GiveUp, PopTimedOut, TimeIsUp
    <2> QED
      BY <2>1, <2>2, BufferAssumption DEF TypeOK, inner, Threads
  <1> QED
    BY <1>1, <1>2, <1>3

LEMMA WakeTyped ==
  ASSUME TypeOK, NEW t \in Threads, Shutdown(t) \/ SpuriousWake(t),
         Shutdown(t) => t \in Closers
  PROVE  TypeOK'
  <1>1. CASE Shutdown(t)
    BY <1>1, BufferAssumption DEF TypeOK, Shutdown, Woken, AwakeEmpty, Threads, Items
  <1>2. CASE SpuriousWake(t)
    BY <1>2, BufferAssumption
       DEF TypeOK, SpuriousWake, Woken, AwakeEmpty, inner, At, Threads, Items
  <1> QED
    BY <1>1, <1>2

\* What a step of Next is, whichever call it belongs to: the case analysis
\* that every invariance proof below starts from.
LEMMA NextCases ==
  ASSUME TypeOK, Next
  PROVE  \/ \E p \in Producers : /\ sent[p] < MaxPush
                                 /\ pc[p] \in {"idle", "woke_full"}
                                 /\ Enqueue(p) \/ ParkFull(p)
         \/ \E p \in Producers : pc[p] \in {"idle", "woke_full"} /\ Refuse(p)
         \/ \E p \in Producers : NotifyEmpty(p)
         \/ \E c \in Consumers : /\ pc[c] \in {"idle"} \cup WokenEmpty
                                 /\ \/ Dequeue(c) \/ EndOfStream(c) \/ GiveUp(c)
                                    \/ ParkEmpty(c, "wait_empty")
                                    \/ ParkEmpty(c, "wait_empty_timed")
         \/ \E c \in Consumers : TimeIsUp(c) \/ PopTimedOut(c) \/ NotifyFull(c)
         \/ \E t \in Closers : Shutdown(t)
         \/ \E t \in Threads : SpuriousWake(t)
         \/ UNCHANGED vars
  <1>1. ASSUME NEW p \in Producers, Produce(p)
        PROVE  \/ /\ sent[p] < MaxPush
                  /\ pc[p] \in {"idle", "woke_full"}
                  /\ Enqueue(p) \/ ParkFull(p)
               \/ pc[p] \in {"idle", "woke_full"} /\ Refuse(p)
               \/ NotifyEmpty(p)
    BY <1>1 DEF TypeOK, Produce, Push, TryPush, PushResume
  <1>2. ASSUME NEW c \in Consumers, Consume(c)
        PROVE  \/ /\ pc[c] \in {"idle"} \cup WokenEmpty
                  /\ \/ Dequeue(c) \/ EndOfStream(c) \/ GiveUp(c)
                     \/ ParkEmpty(c, "wait_empty")
                     \/ ParkEmpty(c, "wait_empty_timed")
               \/ TimeIsUp(c) \/ PopTimedOut(c) \/ NotifyFull(c)
    BY <1>2 DEF Consume, TryPop, PopBlocking, PopBlockingResume, PopTimeout,
                PopTimeoutResume
  <1> QED
    BY <1>1, <1>2 DEF Next, Terminated

LEMMA TypedStep ==
  ASSUME TypeOK, [Next]_vars
  PROVE  TypeOK'
  <1>1. CASE UNCHANGED vars
    BY <1>1 DEF TypeOK, vars, inner
  <1>2. CASE Next
    <2>1. \A p \in Producers : Refuse(p) => TypeOK'
      BY RefuseTyped
    <2>2. \A p \in Producers :
            sent[p] < MaxPush /\ (Enqueue(p) \/ ParkFull(p)) => TypeOK'
      BY EnqueueTyped, ParkFullTyped
    <2>3. \A p \in Producers : NotifyEmpty(p) => TypeOK'
      BY NotifyEmptyTyped
    <2>4. \A c \in Consumers : Dequeue(c) => TypeOK'
      BY DequeueTyped
    <2>5. \A c \in Consumers :
            \/ EndOfStream(c) \/ GiveUp(c) \/ PopTimedOut(c) \/ TimeIsUp(c)
            \/ ParkEmpty(c, "wait_empty") \/ ParkEmpty(c, "wait_empty_timed")
            \/ NotifyFull(c)
            => TypeOK'
      BY PopOtherTyped
    <2>6. \A t \in Closers : Shutdown(t) => TypeOK'
      BY WakeTyped DEF Threads
    <2>7. \A t \in Threads : SpuriousWake(t) => TypeOK'
      <3> SUFFICES ASSUME NEW t \in Threads, SpuriousWake(t) PROVE TypeOK'
        OBVIOUS
      <3>1. ~Shutdown(t)
        BY DEF SpuriousWake, Shutdown
      <3> QED
        BY <3>1, WakeTyped
    <2> QED
      BY <1>1, <1>2, <2>1, <2>2, <2>3, <2>4, <2>5, <2>6, <2>7, NextCases
  <1> QED
    BY <1>1, <1>2

\* Every state of SensorBuffer is well typed, and a thread is parked only
\* where its own calls park.
THEOREM Typing == Spec => []TypeOK
  <1>1. Init => TypeOK
    <2> SUFFICES ASSUME Init PROVE TypeOK
      OBVIOUS
    <2>1. q \in Seq(Items) /\ delivered \in Seq(Items)
      BY DEF Init
    <2>2. /\ highWatermark \in 0 .. Capacity
          /\ pushWaits \in 0 .. MaxWaits /\ popWaits \in 0 .. MaxWaits
          /\ sent \in [Producers -> 0 .. MaxPush]
      BY BufferAssumption DEF Init
    <2>3. /\ pc \in [Threads -> ProducerPC \cup ConsumerPC]
          /\ \A t \in Threads : pc[t] = "idle"
      BY DEF Init
    <2> QED
      BY <2>1, <2>2, <2>3 DEF Init, TypeOK, Threads
  <1> QED
    BY <1>1, TypedStep, PTL DEF Spec

-----------------------------------------------------------------------------
\* Pushed minus popped is the queue's length, and the length never passes the
\* watermark nor the capacity; a push that waited shows in the watermark.
THEOREM AccountingHolds == Spec => [](Accounting /\ WaitedMeansFull)
  <1> DEFINE Inv == Accounting /\ WaitedMeansFull
  <1>1. Init => Inv
    BY BufferAssumption DEF Init, Accounting, WaitedMeansFull
  <1>2. TypeOK /\ Inv /\ [Next]_vars => Inv'
    <2> SUFFICES ASSUME TypeOK, Inv, [Next]_vars PROVE Inv'
      OBVIOUS
    <2> USE BufferAssumption
    <2> DEFINE Numbers == /\ Len(q) \in Nat /\ Len(delivered) \in Nat
                          /\ highWatermark \in Nat /\ Capacity \in Nat
                          /\ totalPushed \in Nat /\ totalPopped \in Nat
                          /\ pushWaits \in Nat
    <2>0. Numbers
      BY LenProperties DEF TypeOK
    <2>1. ASSUME NEW p \in Producers, Enqueue(p) PROVE Inv'
      <3>1. Len(q') = Len(q) + 1
        BY <2>1, AppendProperties DEF Enqueue, TypeOK
      <3>2. /\ Len(q) < Capacity
            /\ totalPushed' = totalPushed + 1
            /\ highWatermark' = IF Len(q') > highWatermark THEN Len(q')
                                                           ELSE highWatermark
            /\ UNCHANGED <<totalPopped, delivered, pushWaits>>
        BY <2>0, <2>1 DEF Enqueue, Full
      <3> QED
        BY <2>0, <3>1, <3>2 DEF Accounting, WaitedMeansFull
    <2>2. ASSUME NEW p \in Producers, ParkFull(p) PROVE Inv'
      <3>1. /\ Len(q) >= Capacity
            /\ UNCHANGED <<q, highWatermark, totalPushed, totalPopped, delivered>>
        BY <2>2 DEF ParkFull, Full
      <3> QED
        BY <2>0, <3>1 DEF Accounting, WaitedMeansFull
    <2>3. ASSUME NEW c \in Consumers, Dequeue(c) PROVE Inv'
      <3>1. Len(q') = Len(q) - 1
        BY <2>3, HeadTailProperties DEF Dequeue, Empty, TypeOK
      <3>2. Len(delivered') = Len(delivered) + 1
        <4>1. Head(q) \in Items
          BY <2>3, HeadTailProperties DEF Dequeue, Empty, TypeOK
        <4> QED
          BY <2>3, <4>1, AppendProperties DEF Dequeue, TypeOK
      <3>3. /\ totalPopped' = totalPopped + 1
            /\ UNCHANGED <<highWatermark, totalPushed, pushWaits>>
        BY <2>3 DEF Dequeue
      <3> QED
        BY <2>0, <3>1, <3>2, <3>3 DEF Accounting, WaitedMeansFull
    <2>4. CASE UNCHANGED <<q, highWatermark, totalPushed, totalPopped, pushWaits,
                           delivered>>
      BY <2>4 DEF Accounting, WaitedMeansFull
    <2> QED
      BY <2>1, <2>2, <2>3, <2>4, NextCases
         DEF vars, inner, Refuse, NotifyEmpty, EndOfStream, GiveUp, ParkEmpty,
             TimeIsUp, PopTimedOut, NotifyFull, Shutdown, SpuriousWake
  <1> QED
    BY <1>1, <1>2, Typing, PTL DEF Spec

-----------------------------------------------------------------------------
LEMMA ParkedStep ==
  ASSUME TypeOK, NobodyParkedAfterShutdown, [Next]_vars
  PROVE  NobodyParkedAfterShutdown'
  <1> SUFFICES ASSUME isShutdown', NEW t \in Threads
               PROVE  pc'[t] \notin ParkedFull \cup ParkedEmpty
    BY DEF NobodyParkedAfterShutdown, Waiters
  <1>1. CASE \E u \in Closers : Shutdown(u)
    BY <1>1 DEF Shutdown, Woken, AwakeEmpty, TypeOK
  <1>2. CASE isShutdown
    <2>1. \A u \in Threads : pc[u] \notin ParkedFull \cup ParkedEmpty
      BY <1>2 DEF NobodyParkedAfterShutdown, Waiters
    <2> QED
      BY <1>2, <2>1, NextCases
         DEF TypeOK, vars, Enqueue, ParkFull, Refuse, NotifyEmpty, Dequeue,
             EndOfStream, GiveUp, ParkEmpty, TimeIsUp, PopTimedOut, NotifyFull,
             Shutdown, SpuriousWake, At, Woken, AwakeEmpty, Waiters, Threads
  <1> QED
    BY <1>1, <1>2, NextCases
       DEF vars, inner, Enqueue, ParkFull, Refuse, NotifyEmpty, Dequeue,
           EndOfStream, GiveUp, ParkEmpty, TimeIsUp, PopTimedOut, NotifyFull,
           SpuriousWake

\* Once shutdown has run, no thread is parked on a condition variable that
\* nobody will notify again.
THEOREM ParkedHolds == Spec => []NobodyParkedAfterShutdown
  <1>1. Init => NobodyParkedAfterShutdown
    BY DEF Init, NobodyParkedAfterShutdown
  <1> QED
    BY <1>1, ParkedStep, Typing, PTL DEF Spec

-----------------------------------------------------------------------------
\* Only producers and consumers are ever helpers, so the helpers are finite.
LEMMA HelpersFinite ==
  ASSUME TypeOK
  PROVE  IsFiniteSet(EmptyHelpers) /\ IsFiniteSet(FullHelpers)
  <1>1. IsFiniteSet(Producers \cup Consumers)
    BY BufferAssumption, FS_Union
  <1>2. /\ EmptyHelpers \subseteq Producers \cup Consumers
        /\ FullHelpers \subseteq Producers \cup Consumers
    BY DEF TypeOK, EmptyHelpers, FullHelpers, Waiters, Threads
  <1> QED
    BY <1>1, <1>2, FS_Subset

\* One more or one fewer helper, and no change, in Cardinality's terms.
LEMMA HelperAdded ==
  ASSUME NEW H, NEW x, IsFiniteSet(H), x \notin H
  PROVE  Cardinality(H \cup {x}) = Cardinality(H) + 1 /\ Cardinality(H) \in Nat
  BY FS_AddElement, FS_CardinalityType

LEMMA HelperGone ==
  ASSUME NEW H, NEW x, IsFiniteSet(H)
  PROVE  Cardinality(H \ {x}) >= Cardinality(H) - 1
  <1>1. Cardinality(H) \in Nat
    BY FS_CardinalityType
  <1>2. CASE x \in H
    BY <1>1, <1>2, FS_RemoveElement
  <1>3. CASE x \notin H
    <2>1. H \ {x} = H
      BY <1>3
    <2> QED
      BY <1>1, <2>1
  <1> QED
    BY <1>2, <1>3

LEMMA HelperPassesOn ==
  ASSUME NEW H, NEW x, NEW y, IsFiniteSet(H), x \in H, y \notin H
  PROVE  Cardinality((H \ {x}) \cup {y}) = Cardinality(H)
  <1>1. IsFiniteSet(H \ {x}) /\ Cardinality(H \ {x}) = Cardinality(H) - 1
    BY FS_RemoveElement
  <1>2. y \notin H \ {x}
    OBVIOUS
  <1>3. Cardinality((H \ {x}) \cup {y}) = Cardinality(H \ {x}) + 1
    BY <1>1, <1>2, HelperAdded
  <1>4. Cardinality(H) \in Nat
    BY FS_CardinalityType
  <1> QED
    BY <1>1, <1>3, <1>4

LEMMA WakeupStep ==
  ASSUME TypeOK, NoLostWakeup, NobodyParkedAfterShutdown, [Next]_vars
  PROVE  NoLostWakeup'
  <1> USE BufferAssumption
  <1> DEFINE EH == EmptyHelpers
             FH == FullHelpers
             EW == Waiters(ParkedEmpty)
             FW == Waiters(ParkedFull)
  <1>0. /\ TypeOK' /\ NobodyParkedAfterShutdown'
        /\ IsFiniteSet(EH) /\ IsFiniteSet(FH)
        /\ Cardinality(EH) \in Nat /\ Cardinality(FH) \in Nat
        /\ Cardinality(EH') \in Nat /\ Cardinality(FH') \in Nat
        /\ Len(q) \in Nat /\ Len(q') \in Nat /\ Capacity \in Nat
    <2>1. TypeOK' /\ NobodyParkedAfterShutdown'
      BY TypedStep, ParkedStep
    <2>2. IsFiniteSet(EH) /\ IsFiniteSet(FH)
      BY HelpersFinite
    <2>3. IsFiniteSet(EH)' /\ IsFiniteSet(FH)'
      BY <2>1, HelpersFinite, PTL
    <2>4. /\ Cardinality(EH) \in Nat /\ Cardinality(FH) \in Nat
          /\ Cardinality(EH') \in Nat /\ Cardinality(FH') \in Nat
      BY <2>2, <2>3, FS_CardinalityType
    <2>5. Len(q) \in Nat /\ Len(q') \in Nat
      BY <2>1, LenProperties DEF TypeOK
    <2> QED
      BY <2>1, <2>2, <2>4, <2>5
  <1>1. CASE isShutdown'
    BY <1>0, <1>1 DEF NoLostWakeup, NobodyParkedAfterShutdown, Waiters
  <1>2. ASSUME NEW p \in Producers, pc[p] \in {"idle", "woke_full"}, Enqueue(p)
        PROVE  NoLostWakeup'
    <2>1. /\ Len(q') = Len(q) + 1
          /\ \A t \in Threads : pc'[t] = IF t = p THEN "notify_empty" ELSE pc[t]
      BY <1>2, AppendProperties DEF Enqueue, At, TypeOK
    <2>2. EH' = EH \cup {p} /\ p \notin EH /\ FH' = FH \ {p}
      BY <1>2, <2>1 DEF EmptyHelpers, FullHelpers, Waiters, Threads
    <2>3. EW' = EW /\ FW' = FW
      BY <1>2, <2>1 DEF Waiters, Threads
    <2>4. Cardinality(EH') = Cardinality(EH) + 1
      BY <1>0, <2>2, HelperAdded
    <2>5. Cardinality(FH') >= Cardinality(FH) - 1
      BY <1>0, <2>2, HelperGone
    <2> QED
      BY <1>0, <2>1, <2>3, <2>4, <2>5 DEF NoLostWakeup
  <1>3. ASSUME NEW p \in Producers, pc[p] \in {"idle", "woke_full"}, ParkFull(p)
        PROVE  NoLostWakeup'
    <2>1. \A t \in Threads : pc'[t] = IF t = p THEN "wait_full" ELSE pc[t]
      BY <1>3 DEF ParkFull, At, TypeOK
    <2>2. EH' = EH /\ EW' = EW
      BY <1>3, <2>1 DEF EmptyHelpers, Waiters, Threads
    <2>3. q' = q /\ Capacity - Len(q) <= 0
      BY <1>0, <1>3 DEF ParkFull, Full
    <2> QED
      BY <1>0, <2>2, <2>3 DEF NoLostWakeup
  <1>4. ASSUME NEW p \in Producers, NotifyEmpty(p) PROVE NoLostWakeup'
    <2>0. q' = q
      BY <1>4 DEF NotifyEmpty, inner
    <2>1. CASE EW = {} /\ pc' = [pc EXCEPT ![p] = "idle"]
      <3>1. EW' = {} /\ FH' = FH /\ FW' = FW
        BY <1>4, <2>1 DEF NotifyEmpty, FullHelpers, Waiters, TypeOK, Threads
      <3> QED
        BY <2>0, <3>1 DEF NoLostWakeup
    <2>2. ASSUME NEW c \in EW, pc' = [pc EXCEPT ![p] = "idle", ![c] = AwakeEmpty(c)]
          PROVE  NoLostWakeup'
      <3>1. c \in Threads /\ c # p /\ pc[c] \in ParkedEmpty /\ p \in Threads
        BY <1>4, <2>2 DEF NotifyEmpty, Waiters, Threads
      <3>2. \A t \in Threads : pc'[t] = IF t = c THEN AwakeEmpty(c)
                                       ELSE IF t = p THEN "idle" ELSE pc[t]
        BY <2>2, <3>1 DEF TypeOK
      <3>3. /\ EH' = (EH \ {p}) \cup {c} /\ p \in EH /\ c \notin EH
            /\ FH' = FH /\ FW' = FW
        BY <1>4, <3>1, <3>2
           DEF NotifyEmpty, EmptyHelpers, FullHelpers, Waiters, AwakeEmpty
      <3>4. Cardinality(EH') = Cardinality(EH)
        BY <1>0, <3>3, HelperPassesOn
      <3>5. EW # {}
        BY <2>2
      <3> QED
        BY <2>0, <3>3, <3>4, <3>5 DEF NoLostWakeup
    <2> QED
      BY <1>4, <2>1, <2>2 DEF NotifyEmpty, At
  <1>5. ASSUME NEW c \in Consumers, pc[c] \in {"idle"} \cup WokenEmpty, Dequeue(c)
        PROVE  NoLostWakeup'
    <2>1. Len(q') = Len(q) - 1
      BY <1>5, HeadTailProperties DEF Dequeue, Empty, TypeOK
    <2>2. \A t \in Threads : pc'[t] = IF t = c THEN "notify_full" ELSE pc[t]
      BY <1>5 DEF Dequeue, At, TypeOK
    <2>3. /\ EH' = EH \ {c}
          /\ FH' = FH \cup {c} /\ c \notin FH
          /\ EW' = EW /\ FW' = FW
      BY <1>5, <2>2 DEF EmptyHelpers, FullHelpers, Waiters, Threads
    <2>4. Cardinality(EH') >= Cardinality(EH) - 1
      BY <1>0, <2>3, HelperGone
    <2>5. Cardinality(FH') = Cardinality(FH) + 1
      BY <1>0, <2>3, HelperAdded
    <2> QED
      BY <1>0, <2>1, <2>3, <2>4, <2>5 DEF NoLostWakeup
  <1>6. ASSUME NEW c \in Consumers,
               \/ /\ pc[c] \in {"idle"} \cup WokenEmpty
                  /\ \/ GiveUp(c)
                     \/ ParkEmpty(c, "wait_empty") \/ ParkEmpty(c, "wait_empty_timed")
        PROVE  NoLostWakeup'
    <2>1. PICK where \in {"idle"} \cup ParkedEmpty : pc' = [pc EXCEPT ![c] = where]
      BY <1>6 DEF GiveUp, ParkEmpty, At
    <2>2. \A t \in Threads : pc'[t] = IF t = c THEN where ELSE pc[t]
      BY <2>1 DEF TypeOK
    <2>3. FH' = FH /\ FW' = FW
      BY <1>6, <2>1, <2>2 DEF FullHelpers, Waiters, Threads
    <2>4. q' = q /\ Len(q') = 0
      BY <1>6 DEF GiveUp, ParkEmpty, Empty, inner
    <2> QED
      BY <1>0, <2>3, <2>4 DEF NoLostWakeup
  <1>7. ASSUME NEW c \in Consumers, TimeIsUp(c) \/ PopTimedOut(c) PROVE NoLostWakeup'
    <2>1. PICK where \in {"idle", "timed_out"} : pc' = [pc EXCEPT ![c] = where]
      BY <1>7 DEF TimeIsUp, PopTimedOut, At
    <2>2. \A t \in Threads : pc'[t] = IF t = c THEN where ELSE pc[t]
      BY <2>1 DEF TypeOK
    <2>3. EH' = EH /\ FH' = FH /\ FW' = FW /\ EW' \subseteq EW
      BY <1>7, <2>1, <2>2
         DEF TimeIsUp, PopTimedOut, EmptyHelpers, FullHelpers, Waiters, Threads
    <2>4. q' = q
      BY <1>7 DEF TimeIsUp, PopTimedOut, inner
    <2> QED
      BY <2>3, <2>4 DEF NoLostWakeup
  <1>8. ASSUME NEW c \in Consumers, NotifyFull(c) PROVE NoLostWakeup'
    <2>0. q' = q
      BY <1>8 DEF NotifyFull, inner
    <2>1. CASE FW = {} /\ pc' = [pc EXCEPT ![c] = "idle"]
      <3>1. FW' = {} /\ EH' = EH /\ EW' = EW
        BY <1>8, <2>1 DEF NotifyFull, EmptyHelpers, Waiters, TypeOK, Threads
      <3> QED
        BY <2>0, <3>1 DEF NoLostWakeup
    <2>2. ASSUME NEW p \in FW, pc' = [pc EXCEPT ![c] = "idle", ![p] = "woke_full"]
          PROVE  NoLostWakeup'
      <3>1. p \in Threads /\ c # p /\ pc[p] \in ParkedFull /\ c \in Threads
        BY <1>8, <2>2 DEF NotifyFull, Waiters, Threads
      <3>2. \A t \in Threads : pc'[t] = IF t = p THEN "woke_full"
                                       ELSE IF t = c THEN "idle" ELSE pc[t]
        BY <2>2, <3>1 DEF TypeOK
      <3>3. /\ FH' = (FH \ {c}) \cup {p} /\ c \in FH /\ p \notin FH
            /\ EH' = EH /\ EW' = EW
        BY <1>8, <3>1, <3>2 DEF NotifyFull, EmptyHelpers, FullHelpers, Waiters
      <3>4. Cardinality(FH') = Cardinality(FH)
        BY <1>0, <3>3, HelperPassesOn
      <3>5. FW # {}
        BY <2>2
      <3> QED
        BY <2>0, <3>3, <3>4, <3>5 DEF NoLostWakeup
    <2> QED
      BY <1>8, <2>1, <2>2 DEF NotifyFull, At
  <1>9. ASSUME NEW t \in Threads, SpuriousWake(t) PROVE NoLostWakeup'
    <2>0. q' = q
      BY <1>9 DEF SpuriousWake, inner
    <2>1. \A u \in Threads : pc'[u] = IF u = t THEN Woken(t) ELSE pc[u]
      BY <1>9 DEF SpuriousWake, At, TypeOK
    <2>2. CASE pc[t] = "wait_full"
      <3>1. /\ FH' = FH \cup {t} /\ t \notin FH /\ FW' \subseteq FW
            /\ EH' = EH /\ EW' = EW
        BY <2>1, <2>2 DEF Woken, EmptyHelpers, FullHelpers, Waiters
      <3>2. Cardinality(FH') = Cardinality(FH) + 1
        BY <1>0, <3>1, HelperAdded
      <3> QED
        BY <1>0, <2>0, <3>1, <3>2 DEF NoLostWakeup
    <2>3. CASE pc[t] \in ParkedEmpty
      <3>1. /\ EH' = EH \cup {t} /\ t \notin EH /\ EW' \subseteq EW
            /\ FH' = FH /\ FW' = FW
        BY <2>1, <2>3 DEF Woken, AwakeEmpty, EmptyHelpers, FullHelpers, Waiters
      <3>2. Cardinality(EH') = Cardinality(EH) + 1
        BY <1>0, <3>1, HelperAdded
      <3> QED
        BY <1>0, <2>0, <3>1, <3>2 DEF NoLostWakeup
    <2> QED
      BY <1>9, <2>2, <2>3 DEF SpuriousWake
  <1>10. CASE UNCHANGED vars
    BY <1>10 DEF vars, inner, NoLostWakeup, Waiters, EmptyHelpers, FullHelpers
  <1>11. ASSUME \/ \E p \in Producers : Refuse(p)
                \/ \E c \in Consumers : EndOfStream(c)
                \/ \E t \in Closers : Shutdown(t)
         PROVE  isShutdown'
    BY <1>11 DEF Refuse, EndOfStream, Shutdown, inner
  <1> QED
    BY <1>1, <1>2, <1>3, <1>4, <1>5, <1>6, <1>7, <1>8, <1>9, <1>10, <1>11, NextCases

\* No wakeup is lost although the notifies follow the unlock: see NoLostWakeup.
THEOREM NoLostWakeupHolds == Spec => []NoLostWakeup
  <1>1. Init => NoLostWakeup
    BY DEF Init, NoLostWakeup, Waiters
  <1> QED
    BY <1>1, WakeupStep, Typing, ParkedHolds, PTL DEF Spec

-----------------------------------------------------------------------------
\* The history delivered \o q grows at its end when an item is pushed, and a
\* pop moves the border between its halves by the item it returns.
LEMMA PushedAtTheEnd ==
  ASSUME NEW S, NEW d \in Seq(S), NEW s \in Seq(S), NEW x \in S
  PROVE  /\ d \o Append(s, x) = Append(d \o s, x)
         /\ Len(d \o s) = Len(d) + Len(s)
  <1>1. /\ d \o s \in Seq(S) /\ Len(d \o s) = Len(d) + Len(s)
        /\ \A i \in 1 .. Len(d) + Len(s) :
             (d \o s)[i] = IF i <= Len(d) THEN d[i] ELSE s[i - Len(d)]
    BY ConcatProperties
  <1> QED
    BY <1>1

LEMMA PoppedFromTheFront ==
  ASSUME NEW S, NEW d \in Seq(S), NEW s \in Seq(S), s # <<>>
  PROVE  /\ Append(d, Head(s)) \o Tail(s) = d \o s
         /\ Head(s) = (d \o s)[Len(d) + 1]
         /\ Len(d) < Len(d \o s)
  <1>1. Head(s) \in S /\ Tail(s) \in Seq(S) /\ Len(Tail(s)) = Len(s) - 1
        /\ Len(s) \in Nat /\ Len(s) > 0
    BY HeadTailProperties, LenProperties, EmptySeq
  <1> QED
    BY <1>1

\* While nobody's pc enters "done", nobody is refused and nobody ends.
LEMMA NobodyStops ==
  ASSUME \A t \in Threads : pc'[t] = "done" <=> pc[t] = "done"
  PROVE  /\ {p \in Producers : pc[p] = "done"}' = {p \in Producers : pc[p] = "done"}
         /\ {c \in Consumers : pc[c] = "done"}' = {c \in Consumers : pc[c] = "done"}
  BY DEF Threads

LEMMA ChannelStep ==
  ASSUME TypeOK, [Next]_vars
  PROVE  [Channel!Next]_(Channel!chanVars)
  <1> USE BufferAssumption
  <1> DEFINE Refused == {p \in Producers : pc[p] = "done"}
             Ended == {c \in Consumers : pc[c] = "done"}
             Same == Refused' = Refused /\ Ended' = Ended
  <1>1. ASSUME NEW p \in Producers, sent[p] < MaxPush, pc[p] # "done", Enqueue(p)
        PROVE  Channel!Accept(Item(p)) /\ Item(p) \in Items
    <2>1. Item(p) \in Items
      BY <1>1, ItemTyped
    <2>2. /\ delivered \o q' = Append(delivered \o q, Item(p))
          /\ Len(delivered \o q) = Len(delivered) + Len(q)
      BY <1>1, <2>1, PushedAtTheEnd DEF Enqueue, TypeOK
    <2>3. Len(delivered \o q) - Len(delivered) < Capacity
      BY <1>1, <2>2, LenProperties DEF Enqueue, Full, TypeOK
    <2>4. \A t \in Threads : pc'[t] = "done" <=> pc[t] = "done"
      BY <1>1 DEF Enqueue, At, TypeOK, Threads
    <2> QED
      BY <1>1, <2>1, <2>2, <2>3, <2>4, NobodyStops DEF Enqueue, Channel!Accept
  <1>2. ASSUME NEW c \in Consumers, pc[c] # "done", Dequeue(c)
        PROVE  Channel!Deliver
    <2>1. /\ Append(delivered, Head(q)) \o Tail(q) = delivered \o q
          /\ Head(q) = (delivered \o q)[Len(delivered) + 1]
          /\ Len(delivered) < Len(delivered \o q)
      BY <1>2, PoppedFromTheFront DEF Dequeue, Empty, TypeOK
    <2>2. \A t \in Threads : pc'[t] = "done" <=> pc[t] = "done"
      BY <1>2 DEF Dequeue, At, TypeOK, Threads
    <2> QED
      BY <1>2, <2>1, <2>2, NobodyStops DEF Dequeue, Channel!Deliver
  <1>3. ASSUME NEW p \in Producers, Refuse(p)
        PROVE  Channel!Refuse(p)
    <2>1. Refused' = Refused \cup {p} /\ Ended' = Ended
      BY <1>3 DEF Refuse, At, TypeOK, Threads
    <2> QED
      BY <1>3, <2>1 DEF Refuse, inner, Channel!Refuse
  <1>4. ASSUME NEW c \in Consumers, EndOfStream(c)
        PROVE  Channel!End(c)
    <2>1. Ended' = Ended \cup {c} /\ Refused' = Refused
      BY <1>4 DEF EndOfStream, At, TypeOK, Threads
    <2>2. delivered \o q = delivered
      BY <1>4, ConcatEmptySeq DEF EndOfStream, Empty, TypeOK
    <2> QED
      BY <1>4, <2>1, <2>2 DEF EndOfStream, inner, Channel!End
  <1>5. ASSUME NEW t \in Closers, Shutdown(t)
        PROVE  Channel!Close
    <2>1. \A u \in Threads : u # t => (pc'[u] = "done" <=> pc[u] = "done")
      BY <1>5 DEF Shutdown, Woken, AwakeEmpty
    <2>2. Same
      BY <2>1 DEF Threads
    <2> QED
      BY <1>5, <2>2 DEF Shutdown, Channel!Close
  <1>6. ASSUME NEW p \in Producers, pc[p] # "done", ParkFull(p) \/ NotifyEmpty(p)
        PROVE  UNCHANGED Channel!chanVars
    <2>1. \A t \in Threads : pc'[t] = "done" <=> pc[t] = "done"
      BY <1>6 DEF ParkFull, NotifyEmpty, Waiters, AwakeEmpty, At, TypeOK, Threads
    <2> QED
      BY <1>6, <2>1, NobodyStops DEF ParkFull, NotifyEmpty, inner, Channel!chanVars
  <1>7. ASSUME NEW c \in Consumers, pc[c] # "done",
               \/ GiveUp(c) \/ TimeIsUp(c) \/ PopTimedOut(c) \/ NotifyFull(c)
               \/ ParkEmpty(c, "wait_empty") \/ ParkEmpty(c, "wait_empty_timed")
        PROVE  UNCHANGED Channel!chanVars
    <2>1. \A t \in Threads : pc'[t] = "done" <=> pc[t] = "done"
      BY <1>7 DEF GiveUp, TimeIsUp, PopTimedOut, NotifyFull, ParkEmpty, Waiters,
                  At, TypeOK, Threads
    <2> QED
      BY <1>7, <2>1, NobodyStops
         DEF GiveUp, TimeIsUp, PopTimedOut, NotifyFull, ParkEmpty, inner,
             Channel!chanVars
  <1>8. ASSUME NEW t \in Threads, SpuriousWake(t)
        PROVE  UNCHANGED Channel!chanVars
    <2>1. \A u \in Threads : pc'[u] = "done" <=> pc[u] = "done"
      BY <1>8 DEF SpuriousWake, Woken, AwakeEmpty, At, TypeOK
    <2> QED
      BY <1>8, <2>1, NobodyStops DEF SpuriousWake, inner, Channel!chanVars
  <1>9. CASE UNCHANGED vars
    BY <1>9 DEF vars, inner, Channel!chanVars
  <1>10. ASSUME NEW p \in Producers, NotifyEmpty(p) PROVE pc[p] # "done"
    BY <1>10 DEF NotifyEmpty
  <1>11. ASSUME NEW c \in Consumers, TimeIsUp(c) \/ PopTimedOut(c) \/ NotifyFull(c)
         PROVE  pc[c] # "done"
    BY <1>11 DEF TimeIsUp, PopTimedOut, NotifyFull
  <1> QED
    BY <1>1, <1>2, <1>3, <1>4, <1>5, <1>6, <1>7, <1>8, <1>9, <1>10, <1>11, NextCases
       DEF Channel!Next

\* The monitor implements the channel its comments promise: nothing is lost,
\* duplicated, reordered or accepted after shutdown, and a consumer is told
\* the stream is over only when it is.
THEOREM Implements == Spec => ImplementsChannel
  <1>1. Init => Channel!Init
    <2> SUFFICES ASSUME Init PROVE Channel!Init
      OBVIOUS
    <2>1. \A t \in Threads : pc[t] # "done"
      BY DEF Init
    <2>2. delivered \o q = <<>>
      BY DEF Init
    <2> QED
      BY <2>1, <2>2 DEF Init, Threads, Channel!Init
  <1> QED
    BY <1>1, ChannelStep, Typing, PTL
       DEF Spec, ImplementsChannel, Channel!Spec
=============================================================================
