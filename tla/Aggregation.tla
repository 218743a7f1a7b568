------------------------------ MODULE Aggregation ------------------------------
(***************************************************************************)
(* AggregationEngine of gateway/src/aggregation.rs.  The dispatcher thread *)
(* pops readings from the buffer, routes each to the worker its sensor     *)
(* hashes to, and closes a window by sending Rotate to every worker and    *)
(* collecting one report from each.  If a send fails or a report does not  *)
(* come, it raises the shared shutdown flag and publishes nothing.  The    *)
(* consumer thread of main.rs (1447-1495) receives the frames and finally  *)
(* calls shutdown(), which raises the flag and joins every thread.         *)
(*                                                                         *)
(* Channels are sequences: a send waits for room and fails once the        *)
(* receiver has exited; a receive fails once the channel is empty and      *)
(* every sender has exited.  The buffer is the channel BoundedChannel      *)
(* specifies, with the dispatcher as its only consumer.                    *)
(***************************************************************************)
EXTENDS Naturals, Sequences, FiniteSets

CONSTANTS
  W,              \* cfg.workers
  Readings,       \* 1 .. Readings are pushed into the source, in this order
  Hash,           \* hash_to_worker of the reading's sensor
  InboxCap,       \* cfg.worker_inbox_capacity
  OutCap,         \* cfg.output_capacity
  MaxWindows,     \* windows that may elapse: bounds the run
  ReportsLate,    \* report_timeout may pass before a report comes
  PersistFails    \* persist_frame may return an error

Workers == 1 .. W

ASSUME AggregationAssumption ==
  /\ W \in Nat \ {0} /\ InboxCap \in Nat \ {0} /\ OutCap \in Nat \ {0}  \* asserted by start()
  /\ Readings \in Nat /\ MaxWindows \in Nat
  /\ Hash \in [1 .. Readings -> Workers]
  /\ ReportsLate \in BOOLEAN /\ PersistFails \in BOOLEAN

VARIABLES
  source, sourceClosed, fed,      \* the buffer, its shutdown flag, readings pushed
  shutdown,                       \* the engine's flag
  dpc, cur, next,                 \* dispatcher: place, reading popped, index of a loop
  windowId, sawData, last,        \* window_id, saw_data_in_window, emitting the final window
  merged, missing,                \* the reduction, and the reports it still waits for
  inbox, wpc, bucket,             \* per worker: channel, place, local_stats
  reports,                        \* the report channel
  published, taken,               \* frames sent, and how many the consumer received
  cpc,                            \* consumer: place
  routedIn                        \* history: the window each reading was routed in

sourceVars == <<source, sourceClosed, fed>>
dispVars == <<dpc, cur, next, windowId, sawData, last, merged, missing>>
workerVars == <<inbox, wpc, bucket, reports>>
outVars == <<published, taken, cpc>>
vars == <<sourceVars, shutdown, dispVars, workerVars, outVars, routedIn>>

NotRouted == MaxWindows + 1

Data(r) == [kind |-> "data", reading |-> r]
Rotate == [kind |-> "rotate"]
Stop == [kind |-> "shutdown"]

ReportCap == 2 * W
Drained == sourceClosed /\ source = <<>>
WorkerGone(w) == wpc[w] = "exited"
Unread == Len(published) - taken

-----------------------------------------------------------------------------
\* The readers' side of the source, and buffer.shutdown().
Feed ==
  /\ ~sourceClosed
  /\ fed < Readings
  /\ fed' = fed + 1
  /\ source' = Append(source, fed + 1)
  /\ UNCHANGED <<sourceClosed, shutdown, dispVars, workerVars, outVars, routedIn>>

CloseSource ==
  /\ ~sourceClosed
  /\ sourceClosed' = TRUE
  /\ UNCHANGED <<source, fed, shutdown, dispVars, workerVars, outVars, routedIn>>

-----------------------------------------------------------------------------
\* The dispatcher.

\* Head of the loop: stop on the flag, unless a closed source still holds readings.
Top ==
  /\ dpc = "top"
  /\ IF shutdown /\ ~(sourceClosed /\ source # <<>>)
     THEN dpc' = "stop" /\ next' = 1
     ELSE dpc' = "drained" /\ UNCHANGED next
  /\ UNCHANGED <<sourceVars, shutdown, cur, windowId, sawData, last, merged, missing,
                 workerVars, outVars, routedIn>>

\* Mutant: a drained source ends the loop at once.
TestDrainedDropsLast ==
  /\ dpc = "drained"
  /\ dpc' = IF Drained THEN "stop" ELSE "pop"
  /\ last' = Drained
  /\ next' = 1
  /\ UNCHANGED <<sourceVars, shutdown, cur, windowId, sawData, merged, missing,
                 workerVars, outVars, routedIn>>

\* source_drained: emit what the window has seen, and leave the loop.
TestDrained ==
  /\ dpc = "drained"
  /\ dpc' = IF ~Drained THEN "pop" ELSE IF sawData THEN "rotate" ELSE "stop"
  /\ last' = Drained
  /\ next' = 1
  /\ UNCHANGED <<sourceVars, shutdown, cur, windowId, sawData, merged, missing,
                 workerVars, outVars, routedIn>>

\* pop_timeout: a reading, or None from an empty source.
Pop ==
  /\ dpc = "pop"
  /\ IF source = <<>>
     THEN dpc' = "tick" /\ UNCHANGED <<source, cur>>
     ELSE dpc' = "route" /\ cur' = Head(source) /\ source' = Tail(source)
  /\ UNCHANGED <<sourceClosed, fed, shutdown, next, windowId, sawData, last, merged,
                 missing, workerVars, outVars, routedIn>>

\* A send to a worker that has exited: raise the flag, leave the loop.
Fail ==
  /\ shutdown' = TRUE
  /\ dpc' = "stop"
  /\ next' = 1
  /\ UNCHANGED <<sourceVars, cur, windowId, sawData, last, merged, missing,
                 workerVars, outVars, routedIn>>

Deliver(w, msg) ==
  /\ ~WorkerGone(w)
  /\ Len(inbox[w]) < InboxCap
  /\ inbox' = [inbox EXCEPT ![w] = Append(@, msg)]

Route ==
  /\ dpc = "route"
  /\ Deliver(Hash[cur], Data(cur))
  /\ routedIn' = [routedIn EXCEPT ![cur] = windowId]
  /\ sawData' = TRUE
  /\ dpc' = "tick"
  /\ UNCHANGED <<sourceVars, shutdown, cur, next, windowId, last, merged, missing,
                 wpc, bucket, reports, outVars>>

RouteFails == dpc = "route" /\ WorkerGone(Hash[cur]) /\ Fail

\* Has the window's time elapsed?
Tick ==
  /\ dpc = "tick"
  /\ \/ dpc' = "top" /\ UNCHANGED <<next, last>>
     \/ /\ windowId < MaxWindows
        /\ dpc' = "rotate" /\ next' = 1 /\ last' = FALSE
  /\ UNCHANGED <<sourceVars, shutdown, cur, windowId, sawData, merged, missing,
                 workerVars, outVars, routedIn>>

\* emit_window: Rotate to every worker in turn ...
SendRotate ==
  /\ dpc = "rotate"
  /\ Deliver(next, Rotate)
  /\ next' = next + 1
  /\ dpc' = IF next = W THEN "collect" ELSE "rotate"
  /\ merged' = <<>>
  /\ missing' = W
  /\ UNCHANGED <<sourceVars, shutdown, cur, windowId, sawData, last, wpc, bucket,
                 reports, outVars, routedIn>>

RotateFails == dpc = "rotate" /\ WorkerGone(next) /\ Fail

\* ... reduce_window_reports: one report per worker, merged as they come ...
Collect ==
  /\ dpc = "collect"
  /\ reports # <<>>
  /\ merged' = merged \o Head(reports)
  /\ reports' = Tail(reports)
  /\ missing' = missing - 1
  /\ dpc' = IF missing = 1 THEN "publish" ELSE "collect"
  /\ UNCHANGED <<sourceVars, shutdown, cur, next, windowId, sawData, last, inbox, wpc,
                 bucket, outVars, routedIn>>

\* Mutant: a late report is left out, and the frame published without it.
CollectFailsOpen ==
  /\ dpc = "collect"
  /\ reports = <<>>
  /\ ReportsLate
  /\ dpc' = "publish"
  /\ UNCHANGED <<sourceVars, shutdown, cur, next, windowId, sawData, last, merged,
                 missing, workerVars, outVars, routedIn>>

\* Mutant: a window whose report is late is skipped.
CollectFailsSkip ==
  /\ dpc = "collect"
  /\ reports = <<>>
  /\ ReportsLate
  /\ dpc' = "top"
  /\ windowId' = IF windowId < MaxWindows THEN windowId + 1 ELSE windowId
  /\ UNCHANGED <<sourceVars, shutdown, cur, next, sawData, last, merged,
                 missing, workerVars, outVars, routedIn>>

\* Mutant: recv() in place of recv_timeout: only the loss of all workers ends it.
CollectFailsUntimed ==
  /\ dpc = "collect"
  /\ reports = <<>>
  /\ \A w \in Workers : WorkerGone(w)
  /\ Fail

CollectFails ==
  /\ dpc = "collect"
  /\ reports = <<>>
  /\ ReportsLate \/ \A w \in Workers : WorkerGone(w)   \* Timeout, Disconnected
  /\ Fail

Publish ==
  /\ dpc = "publish"
  /\ Unread < OutCap
  /\ published' = Append(published, [id |-> windowId, data |-> merged])
  /\ IF last
     THEN dpc' = "stop" /\ next' = 1 /\ UNCHANGED <<windowId, sawData>>
     ELSE dpc' = "top" /\ windowId' = windowId + 1 /\ sawData' = FALSE /\ UNCHANGED next
  /\ UNCHANGED <<sourceVars, shutdown, cur, last, merged, missing, workerVars, taken,
                 cpc, routedIn>>

\* After the loop: Shutdown to every worker that is still there.
SendStop ==
  /\ dpc = "stop"
  /\ IF next > W
     THEN dpc' = "exited" /\ UNCHANGED <<next, inbox>>
     ELSE /\ Deliver(next, Stop) \/ (WorkerGone(next) /\ UNCHANGED inbox)
          /\ next' = next + 1
          /\ UNCHANGED dpc
  /\ UNCHANGED <<sourceVars, shutdown, cur, windowId, sawData, last, merged, missing,
                 wpc, bucket, reports, outVars, routedIn>>

Dispatcher == \/ Top \/ TestDrained \/ Pop \/ Route \/ RouteFails \/ Tick
              \/ SendRotate \/ RotateFails \/ Collect \/ CollectFails
              \/ Publish \/ SendStop

-----------------------------------------------------------------------------
\* A worker.

WorkerAt(w, where) == wpc' = [wpc EXCEPT ![w] = where]

\* while !shutdown: what is left in the inbox is dropped with it.
CheckFlag(w) ==
  /\ wpc[w] = "check"
  /\ WorkerAt(w, IF shutdown THEN "exited" ELSE "recv")
  /\ UNCHANGED <<sourceVars, shutdown, dispVars, inbox, bucket, reports, outVars,
                 routedIn>>

\* recv(), and the message up to the point where a report is due.
Receive(w) ==
  /\ wpc[w] = "recv"
  /\ inbox[w] # <<>>
  /\ LET m == Head(inbox[w]) IN
       /\ WorkerAt(w, CASE m.kind = "data" -> "check"
                        [] m.kind = "rotate" -> "report"
                        [] m.kind = "shutdown" -> "exited")
       /\ bucket' = IF m.kind = "data" THEN [bucket EXCEPT ![w] = Append(@, m.reading)]
                                       ELSE bucket
  /\ inbox' = [inbox EXCEPT ![w] = Tail(@)]
  /\ UNCHANGED <<sourceVars, shutdown, dispVars, reports, outVars, routedIn>>

\* Hand the bucket to the coordinator and start an empty one.
Report(w) ==
  /\ wpc[w] = "report"
  /\ dpc # "exited"
  /\ Len(reports) < ReportCap
  /\ reports' = Append(reports, bucket[w])
  /\ bucket' = [bucket EXCEPT ![w] = <<>>]
  /\ WorkerAt(w, "check")
  /\ UNCHANGED <<sourceVars, shutdown, dispVars, inbox, outVars, routedIn>>

\* The dispatcher is gone: recv and send return an error.
Disconnected(w) ==
  /\ dpc = "exited"
  /\ \/ wpc[w] = "recv" /\ inbox[w] = <<>>
     \/ wpc[w] = "report"
  /\ WorkerAt(w, "exited")
  /\ UNCHANGED <<sourceVars, shutdown, dispVars, inbox, bucket, reports, outVars,
                 routedIn>>

Worker(w) == CheckFlag(w) \/ Receive(w) \/ Report(w) \/ Disconnected(w)

-----------------------------------------------------------------------------
\* The consumer.

ReceiveFrame ==
  /\ cpc = "receive"
  /\ Unread > 0
  /\ taken' = taken + 1
  /\ cpc' = "persist"
  /\ UNCHANGED <<sourceVars, shutdown, dispVars, workerVars, published, routedIn>>

Persisted ==
  /\ cpc = "persist"
  /\ cpc' = "receive"
  /\ UNCHANGED <<sourceVars, shutdown, dispVars, workerVars, published, taken, routedIn>>

\* persist_frame failed: shut the buffer down and leave the loop.
PersistFailed ==
  /\ PersistFails
  /\ cpc = "persist"
  /\ sourceClosed' = TRUE
  /\ cpc' = "quit"
  /\ UNCHANGED <<source, fed, shutdown, dispVars, workerVars, published, taken, routedIn>>

\* Four idle rounds, a second, after the buffer was shut down: the dispatcher may
\* be still at work.
Idle ==
  /\ cpc = "receive"
  /\ Unread = 0
  /\ sourceClosed
  /\ cpc' = "quit"
  /\ UNCHANGED <<sourceVars, shutdown, dispVars, workerVars, published, taken, routedIn>>

\* engine.shutdown(): raise the flag, then join the dispatcher and the workers;
\* frames_rx is not dropped before shutdown returns.
ShutdownEngine ==
  /\ cpc = "quit"
  /\ shutdown' = TRUE
  /\ cpc' = "join"
  /\ UNCHANGED <<sourceVars, dispVars, workerVars, published, taken, routedIn>>

Join ==
  /\ cpc = "join"
  /\ dpc = "exited"
  /\ \A w \in Workers : WorkerGone(w)
  /\ cpc' = "done"
  /\ UNCHANGED <<sourceVars, shutdown, dispVars, workerVars, published, taken, routedIn>>

Consumer == \/ ReceiveFrame \/ Persisted \/ PersistFailed \/ Idle
            \/ ShutdownEngine \/ Join

-----------------------------------------------------------------------------
Init ==
  /\ source = <<>> /\ sourceClosed = FALSE /\ fed = 0
  /\ shutdown = FALSE
  /\ dpc = "top" /\ cur = 0 /\ next = 1
  /\ windowId = 0 /\ sawData = FALSE /\ last = FALSE
  /\ merged = <<>> /\ missing = 0
  /\ inbox = [w \in Workers |-> <<>>]
  /\ wpc = [w \in Workers |-> "check"]
  /\ bucket = [w \in Workers |-> <<>>]
  /\ reports = <<>>
  /\ published = <<>> /\ taken = 0
  /\ cpc = "receive"
  /\ routedIn = [r \in 1 .. Readings |-> NotRouted]

Terminated == cpc = "done" /\ UNCHANGED vars

Next == \/ Feed \/ CloseSource
        \/ Dispatcher
        \/ \E w \in Workers : Worker(w)
        \/ Consumer
        \/ Terminated

Spec == Init /\ [][Next]_vars

\* Every thread goes on.  Nobody has to push, to shut the buffer down, or to
\* fail; a window need never elapse.
Fairness == /\ WF_vars(Dispatcher)
            /\ \A w \in Workers : WF_vars(Worker(w))
            /\ WF_vars(Consumer)

FairSpec == Spec /\ Fairness

-----------------------------------------------------------------------------
SeqRange(s) == {s[k] : k \in DOMAIN s}

\* Fail-closed publication (docs/report_azure.tex 130): a frame holds every
\* reading routed in its window, from every worker, each exactly once, and
\* none of another window, whatever reports came late or never.
NoPartialFrame ==
  \A k \in DOMAIN published :
    LET f == published[k]
        routed == {r \in 1 .. Readings : routedIn[r] = f.id}
    IN  SeqRange(f.data) = routed /\ Len(f.data) = Cardinality(routed)

\* Windows are published in order and without a gap: nothing follows a window
\* that could not be completed.
NoGap == \A k \in DOMAIN published : published[k].id = k - 1

\* A frame as those see it who read it.
Seen(f) == [id |-> f.id, readings |-> SeqRange(f.data)]
Log(p) == [k \in DOMAIN p |-> Seen(p[k])]

Windows == INSTANCE WindowLog WITH frames <- Log(published)

\* The engine is a log of windows (WindowLog; docs/report_azure.tex 130): each frame
\* begins where the one before it ended and has the next number, what is pushed
\* later never comes before what was pushed earlier, and nothing follows a window
\* that could not be completed.
ImplementsWindows == Windows!Spec

\* When the dispatcher leaves the loop with the flag down, the source was
\* drained and everything that was ever pushed is in a frame.
CleanExitPublishesAll ==
  dpc = "exited" /\ ~shutdown =>
    UNION {SeqRange(published[k].data) : k \in DOMAIN published} = 1 .. fed

\* The consumer has left its loop with a full channel of frames behind it, and
\* joins a dispatcher that waits for room in it: the receiver is dropped only
\* after the join (main.rs 1442-1491), so send does not fail either.
Wedged == cpc = "join" /\ dpc = "publish" /\ Unread = OutCap

\* Once the buffer is shut down the engine comes to an end and shutdown()
\* returns (line 333), whatever reports came late and whatever failed, but for
\* the one case that a full output channel makes of a persist failure.
EngineEnds == sourceClosed ~> cpc = "done" \/ Wedged
=============================================================================
