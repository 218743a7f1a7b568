----------------------------- MODULE SensorBuffer -----------------------------
(***************************************************************************)
(* The blocking queue between the sensor readers and the aggregation       *)
(* dispatcher: SensorBufferManager of gateway/src/buffer.rs.  One mutex    *)
(* protects the queue and its counters; two condition variables, not_full  *)
(* and not_empty, park producers and consumers.                            *)
(*                                                                         *)
(* A critical section is one action.  The notify_one of push and pop comes *)
(* after the guard is dropped (lines 161-162, 187-188, 198-199, 217-218,   *)
(* 253-254), so it is an action of its own.  A thread parked on a          *)
(* condition variable leaves it when notified, spuriously, or, in          *)
(* pop_timeout, when its time is up; it then takes the mutex again.        *)
(***************************************************************************)
EXTENDS Naturals, Sequences, FiniteSets

CONSTANTS
  Producers,   \* threads that push (the sensor readers)
  Consumers,   \* threads that pop (the aggregation dispatcher)
  Closers,     \* threads that call shutdown()
  Capacity,    \* capacity passed to new()
  MaxPush,     \* pushes each producer makes: bounds the run
  MaxWaits     \* the wait counters are kept up to this bound

ASSUME BufferAssumption ==
  /\ IsFiniteSet(Producers) /\ IsFiniteSet(Consumers)
  /\ Producers \cap Consumers = {}
  /\ Producers \cap Closers = {}
  /\ Consumers \cap Closers = {}
  /\ Capacity \in Nat \ {0}           \* new() asserts capacity > 0
  /\ MaxPush \in Nat
  /\ MaxWaits \in Nat \ {0}

Threads == Producers \cup Consumers \cup Closers

\* The n-th item of producer p: items are told apart so that loss,
\* duplication and reordering show.
Items == Producers \X (1 .. MaxPush)

VARIABLES
  q, isShutdown, highWatermark, totalPushed, totalPopped,
  pushWaits, popWaits,   \* push_wait_count, pop_wait_count, up to MaxWaits
  pc,          \* where each thread is
  sent,        \* pushes each producer has finished
  delivered    \* history: the items pops have returned, in order

inner == <<q, isShutdown, highWatermark, totalPushed, totalPopped,
           pushWaits, popWaits>>
vars == <<inner, pc, sent, delivered>>

\* Places where a thread is parked on a condition variable, and where it
\* has left it and contends for the mutex.
ParkedFull == {"wait_full"}
ParkedEmpty == {"wait_empty", "wait_empty_timed"}
WokenEmpty == {"woke_empty", "woke_empty_timed"}

ProducerPC == {"idle", "wait_full", "woke_full", "notify_empty", "done"}
ConsumerPC == {"idle", "notify_full", "timed_out", "done"}
                \cup ParkedEmpty \cup WokenEmpty

At(t, where) == pc' = [pc EXCEPT ![t] = where]

Waiters(places) == {t \in Threads : pc[t] \in places}

Full == Len(q) >= Capacity
Empty == q = <<>>

Counted(n) == IF n < MaxWaits THEN n + 1 ELSE n

-----------------------------------------------------------------------------
\* Producers

Item(p) == <<p, sent[p] + 1>>

\* Mutant: shutdown is tested on entry only, not after the wait.
EnqueueAfterShutdown(p) ==
  /\ ~isShutdown \/ pc[p] = "woke_full"
  /\ ~Full
  /\ q' = Append(q, Item(p))
  /\ totalPushed' = totalPushed + 1
  /\ highWatermark' = IF Len(q') > highWatermark THEN Len(q')
                                                 ELSE highWatermark
  /\ At(p, "notify_empty")
  /\ UNCHANGED <<isShutdown, totalPopped, pushWaits, popWaits, sent, delivered>>

\* Mutant: not_empty is notified only when the queue was empty before.
EnqueueNotifyIfFirst(p) ==
  /\ ~isShutdown
  /\ ~Full
  /\ q' = Append(q, Item(p))
  /\ totalPushed' = totalPushed + 1
  /\ highWatermark' = IF Len(q') > highWatermark THEN Len(q')
                                                 ELSE highWatermark
  /\ IF q = <<>>
     THEN At(p, "notify_empty") /\ UNCHANGED sent
     ELSE At(p, "idle") /\ sent' = [sent EXCEPT ![p] = @ + 1]
  /\ UNCHANGED <<isShutdown, totalPopped, pushWaits, popWaits, delivered>>

\* push_back, the counters, and the guard dropped: the notify is still due.
Enqueue(p) ==
  /\ ~isShutdown
  /\ ~Full
  /\ q' = Append(q, Item(p))
  /\ totalPushed' = totalPushed + 1
  /\ highWatermark' = IF Len(q') > highWatermark THEN Len(q')
                                                 ELSE highWatermark
  /\ At(p, "notify_empty")
  /\ UNCHANGED <<isShutdown, totalPopped, pushWaits, popWaits, sent, delivered>>

\* Err(PushError::Shutdown): the item is dropped, and the caller stops.
Refuse(p) ==
  /\ isShutdown
  /\ At(p, "done")
  /\ UNCHANGED <<inner, sent, delivered>>

\* One more turn of the wait loop of push: count it and park on not_full.
ParkFull(p) ==
  /\ ~isShutdown
  /\ Full
  /\ pushWaits' = Counted(pushWaits)
  /\ At(p, "wait_full")
  /\ UNCHANGED <<q, isShutdown, highWatermark, totalPushed, totalPopped,
                 popWaits, sent, delivered>>

Push(p) ==
  /\ pc[p] = "idle"
  /\ sent[p] < MaxPush
  /\ Enqueue(p) \/ Refuse(p) \/ ParkFull(p)

\* The wait returned, with the mutex held: test the loop condition again.
PushResume(p) ==
  /\ pc[p] = "woke_full"
  /\ Enqueue(p) \/ Refuse(p) \/ ParkFull(p)

\* try_push; when the queue is full it hands the item back and changes nothing.
TryPush(p) ==
  /\ pc[p] = "idle"
  /\ sent[p] < MaxPush
  /\ Enqueue(p) \/ Refuse(p)

\* Which wait of pop_blocking or pop_timeout a woken consumer goes back to.
AwakeEmpty(c) == IF pc[c] = "wait_empty" THEN "woke_empty" ELSE "woke_empty_timed"

\* not_empty.notify_one(), after the guard is gone; then push returns Ok.
NotifyEmpty(p) ==
  /\ pc[p] = "notify_empty"
  /\ sent' = [sent EXCEPT ![p] = @ + 1]
  /\ \/ /\ Waiters(ParkedEmpty) = {}
        /\ At(p, "idle")
     \/ \E c \in Waiters(ParkedEmpty) :
           pc' = [pc EXCEPT ![p] = "idle", ![c] = AwakeEmpty(c)]
  /\ UNCHANGED <<inner, delivered>>

-----------------------------------------------------------------------------
\* Consumers

\* Mutant: a pop that had to wait is not counted.
DequeueUncounted(c) ==
  /\ ~Empty
  /\ q' = Tail(q)
  /\ totalPopped' = IF pc[c] = "idle" THEN totalPopped + 1 ELSE totalPopped
  /\ delivered' = Append(delivered, Head(q))
  /\ At(c, "notify_full")
  /\ UNCHANGED <<isShutdown, highWatermark, totalPushed, pushWaits, popWaits, sent>>

\* pop_front found an item; the notify is due once the guard is dropped.
Dequeue(c) ==
  /\ ~Empty
  /\ q' = Tail(q)
  /\ totalPopped' = totalPopped + 1
  /\ delivered' = Append(delivered, Head(q))
  /\ At(c, "notify_full")
  /\ UNCHANGED <<isShutdown, highWatermark, totalPushed, pushWaits, popWaits, sent>>

\* Mutant: shutdown alone ends the stream, whatever the queue still holds.
EndOfStreamEarly(c) ==
  /\ isShutdown
  /\ At(c, "done")
  /\ UNCHANGED <<inner, sent, delivered>>

\* None, shut down and empty: the caller stops.
EndOfStream(c) ==
  /\ isShutdown
  /\ Empty
  /\ At(c, "done")
  /\ UNCHANGED <<inner, sent, delivered>>

ParkEmpty(c, where) ==
  /\ ~isShutdown
  /\ Empty
  /\ popWaits' = Counted(popWaits)
  /\ At(c, where)
  /\ UNCHANGED <<q, isShutdown, highWatermark, totalPushed, totalPopped,
                 pushWaits, sent, delivered>>

\* None because no time is left; the caller will call again.
GiveUp(c) ==
  /\ ~isShutdown
  /\ Empty
  /\ At(c, "idle")
  /\ UNCHANGED <<inner, sent, delivered>>

\* try_pop; on an empty queue it returns None and changes nothing.
TryPop(c) == pc[c] = "idle" /\ Dequeue(c)

PopBlocking(c) ==
  /\ pc[c] = "idle"
  /\ Dequeue(c) \/ EndOfStream(c) \/ ParkEmpty(c, "wait_empty")

PopBlockingResume(c) ==
  /\ pc[c] = "woke_empty"
  /\ Dequeue(c) \/ EndOfStream(c) \/ ParkEmpty(c, "wait_empty")

PopTimeout(c) ==
  /\ pc[c] = "idle"
  /\ Dequeue(c) \/ EndOfStream(c) \/ GiveUp(c) \/ ParkEmpty(c, "wait_empty_timed")

\* Woken before the timeout: loop again with what remains of it.
PopTimeoutResume(c) ==
  /\ pc[c] = "woke_empty_timed"
  /\ Dequeue(c) \/ EndOfStream(c) \/ GiveUp(c) \/ ParkEmpty(c, "wait_empty_timed")

\* The wait timed out.
TimeIsUp(c) ==
  /\ pc[c] = "wait_empty_timed"
  /\ At(c, "timed_out")
  /\ UNCHANGED <<inner, sent, delivered>>

\* timed_out(): None, without looking at the queue again; an item that came
\* between the timeout and the mutex stays for the next call.
PopTimedOut(c) ==
  /\ pc[c] = "timed_out"
  /\ At(c, "idle")
  /\ UNCHANGED <<inner, sent, delivered>>

\* Mutant: a pop returns without the notify_one of not_full.
NotifyFullForgotten(c) ==
  /\ pc[c] = "notify_full"
  /\ At(c, "idle")
  /\ UNCHANGED <<inner, sent, delivered>>

\* not_full.notify_one(), after the guard is gone; then the pop returns.
NotifyFull(c) ==
  /\ pc[c] = "notify_full"
  /\ \/ /\ Waiters(ParkedFull) = {}
        /\ At(c, "idle")
     \/ \E p \in Waiters(ParkedFull) :
           pc' = [pc EXCEPT ![c] = "idle", ![p] = "woke_full"]
  /\ UNCHANGED <<inner, sent, delivered>>

-----------------------------------------------------------------------------
\* shutdown(): the flag and both notify_all under the mutex.
Woken(t) == CASE pc[t] = "wait_full" -> "woke_full"
              [] pc[t] \in ParkedEmpty -> AwakeEmpty(t)
              [] OTHER -> pc[t]

\* Mutant: shutdown wakes one thread of each condition variable.
ShutdownNotifiesOne(t) ==
  /\ pc[t] = "idle"
  /\ isShutdown' = TRUE
  /\ \E W \in SUBSET Waiters(ParkedFull \cup ParkedEmpty) :
       /\ \A P \in {ParkedFull, ParkedEmpty} :
            Waiters(P) # {} => Cardinality(W \cap Waiters(P)) = 1
       /\ pc' = [u \in Threads |-> IF u = t THEN "done"
                                   ELSE IF u \in W THEN Woken(u) ELSE pc[u]]
  /\ UNCHANGED <<q, highWatermark, totalPushed, totalPopped, pushWaits, popWaits,
                 sent, delivered>>

Shutdown(t) ==
  /\ pc[t] = "idle"
  /\ isShutdown' = TRUE
  /\ pc' = [u \in Threads |-> IF u = t THEN "done" ELSE Woken(u)]
  /\ UNCHANGED <<q, highWatermark, totalPushed, totalPopped, pushWaits, popWaits,
                 sent, delivered>>

\* A wait may return without a notify.
SpuriousWake(t) ==
  /\ pc[t] \in ParkedFull \cup ParkedEmpty
  /\ At(t, Woken(t))
  /\ UNCHANGED <<inner, sent, delivered>>

-----------------------------------------------------------------------------
Init ==
  /\ q = <<>>
  /\ isShutdown = FALSE
  /\ highWatermark = 0
  /\ totalPushed = 0 /\ totalPopped = 0
  /\ pushWaits = 0 /\ popWaits = 0
  /\ pc = [t \in Threads |-> "idle"]
  /\ sent = [p \in Producers |-> 0]
  /\ delivered = <<>>

Produce(p) == Push(p) \/ TryPush(p) \/ PushResume(p) \/ NotifyEmpty(p)

Consume(c) == \/ TryPop(c)
              \/ PopBlocking(c) \/ PopBlockingResume(c)
              \/ PopTimeout(c) \/ PopTimeoutResume(c)
              \/ TimeIsUp(c) \/ PopTimedOut(c)
              \/ NotifyFull(c)

\* Every producer has finished or was refused, every consumer has seen the end.
Terminated ==
  /\ \A p \in Producers : pc[p] = "done" \/ (pc[p] = "idle" /\ sent[p] = MaxPush)
  /\ \A t \in Consumers \cup Closers : pc[t] = "done"
  /\ UNCHANGED vars

Next == \/ \E p \in Producers : Produce(p)
        \/ \E c \in Consumers : Consume(c)
        \/ \E t \in Closers : Shutdown(t)
        \/ \E t \in Threads : SpuriousWake(t)
        \/ Terminated

Spec == Init /\ [][Next]_vars

\* A call that was started goes on; consumers pop in a loop (the dispatcher,
\* gateway/src/aggregation.rs 262-312).  Nobody has to push or to shut down,
\* and no wait has to end spuriously.
Fairness ==
  /\ \A p \in Producers : WF_vars(PushResume(p) \/ NotifyEmpty(p))
  /\ \A c \in Consumers : WF_vars(Consume(c))

FairSpec == Spec /\ Fairness

-----------------------------------------------------------------------------
\* The type invariant; a thread is parked only where its own calls park.
TypeOK ==
  /\ q \in Seq(Items)
  /\ isShutdown \in BOOLEAN
  /\ highWatermark \in 0 .. Capacity
  /\ totalPushed \in Nat /\ totalPopped \in Nat
  /\ pushWaits \in 0 .. MaxWaits /\ popWaits \in 0 .. MaxWaits
  /\ pc \in [Threads -> ProducerPC \cup ConsumerPC]
  /\ \A p \in Producers : pc[p] \in ProducerPC
  /\ \A c \in Consumers : pc[c] \in ConsumerPC
  /\ \A t \in Closers : pc[t] \in {"idle", "done"}
  /\ sent \in [Producers -> 0 .. MaxPush]
  /\ \A p \in Producers : pc[p] \in {"wait_full", "woke_full", "notify_empty"}
                            => sent[p] < MaxPush
  /\ delivered \in Seq(Items)

\* The metrics that stats() hands to the governor and to the scheduler agree
\* with each other and with the queue whatever threads were doing between two
\* critical sections: pushed minus popped is the length, the length never
\* passes the watermark, the watermark never passes the capacity, and every
\* pop that was counted returned an item.
Accounting ==
  /\ totalPushed = totalPopped + Len(q)
  /\ totalPopped = Len(delivered)
  /\ Len(q) <= highWatermark
  /\ highWatermark <= Capacity

\* A push that had to wait (what the governor takes for an emergency) proves
\* that the queue has been full, however the waits and pops interleaved since.
WaitedMeansFull == pushWaits > 0 => highWatermark = Capacity

\* Threads that will look at the queue, or will wake one that does, without
\* any help: notifies still due, and woken threads that have not taken the mutex.
EmptyHelpers == Waiters({"notify_empty"} \cup WokenEmpty)
FullHelpers == Waiters({"notify_full", "woke_full"})

\* No lost wakeup, although notify_one runs after the unlock, and although
\* waits end spuriously or on a timeout that consumes no notify: while a
\* consumer is parked, every queued item has somebody on the way to it, and
\* while a producer is parked, every free slot has.
NoLostWakeup ==
  /\ Waiters(ParkedEmpty) # {} => Len(q) <= Cardinality(EmptyHelpers)
  /\ Waiters(ParkedFull) # {} => Capacity - Len(q) <= Cardinality(FullHelpers)

\* After shutdown nobody is parked, nor can park: shutdown's notify_all is not
\* followed by any other wakeup (line 133: "Signals all waiters to exit").
NobodyParkedAfterShutdown ==
  isShutdown => Waiters(ParkedFull \cup ParkedEmpty) = {}

\* The queue is the channel its comments promise: see BoundedChannel.
Channel == INSTANCE BoundedChannel WITH
  accepted <- delivered \o q,
  closed <- isShutdown,
  refused <- {p \in Producers : pc[p] = "done"},
  ended <- {c \in Consumers : pc[c] = "done"}

ImplementsChannel == Channel!Spec

\* A push that waits on a full queue gets through or is refused, unless another
\* push took the room first: as long as consumers pop, somebody's push goes on,
\* and after a shutdown, when no push is accepted, every one returns.  No single
\* push is promised more: one that was notified contends for the mutex with pushes
\* that have just begun, and parks again when they win, so beside readers that push
\* for ever it may wait for ever.
PushReturnsOrIsOvertaken ==
  \A p \in Producers, n \in 0 .. Cardinality(Items) :
    pc[p] \in {"wait_full", "woke_full"} /\ totalPushed = n
      ~> pc[p] \notin {"wait_full", "woke_full"} \/ totalPushed > n

\* Every accepted item reaches a consumer, before or after the shutdown.
EveryItemDelivered ==
  \A i \in Items : (\E k \in DOMAIN q : q[k] = i)
                     ~> (\E k \in DOMAIN delivered : delivered[k] = i)

\* Shutdown ends every consumer, after the queue is drained.
ShutdownEndsConsumers ==
  isShutdown ~> \A c \in Consumers : pc[c] = "done"
=============================================================================
