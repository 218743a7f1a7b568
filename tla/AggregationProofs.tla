--------------------------- MODULE AggregationProofs ---------------------------
(***************************************************************************)
(* What holds of the published frames for any number of workers, readings  *)
(* and windows, any hash and any capacities, whatever reports come late    *)
(* and whatever fails: frames are complete, they follow each other without *)
(* a gap, a clean exit leaves nothing out, and all together the engine is  *)
(* the log of windows that WindowLog promises.                             *)
(***************************************************************************)
EXTENDS Aggregation, FiniteSetTheorems, SequenceTheorems, TLAPS

R == 1 .. Readings
Messages == {Data(r) : r \in R} \cup {Rotate, Stop}
Frames == [id : 0 .. MaxWindows, data : Seq(R)]

Open == {"top", "drained", "pop", "route", "tick"}    \* a window takes readings
Closing == {"rotate", "collect", "publish"}           \* it is being emitted
Loop == Open \cup Closing

Distinct(s) == \A j, k \in DOMAIN s : s[j] = s[k] => j = k

-----------------------------------------------------------------------------
\* Sequences: what Append, Tail and \o do to the elements and to their distinctness.
LEMMA AppendIs ==
  ASSUME NEW S, NEW s \in Seq(S), NEW x \in S
  PROVE  /\ Append(s, x) \in Seq(S)
         /\ Len(Append(s, x)) = Len(s) + 1
         /\ Append(s, x)[Len(s) + 1] = x
         /\ \A k \in DOMAIN s : Append(s, x)[k] = s[k]
         /\ SeqRange(Append(s, x)) = SeqRange(s) \cup {x}
         /\ Distinct(s) /\ x \notin SeqRange(s) => Distinct(Append(s, x))
<1> DEFINE t == Append(s, x)
<1>1. /\ t \in Seq(S) /\ Len(t) = Len(s) + 1 /\ t[Len(s) + 1] = x
      /\ \A k \in DOMAIN s : t[k] = s[k]
  OBVIOUS
<1>2. Len(s) \in Nat /\ DOMAIN s = 1 .. Len(s) /\ DOMAIN t = 1 .. Len(s) + 1
  BY <1>1
<1> HIDE DEF t
<1>3. \A k : k \in DOMAIN t <=> k \in DOMAIN s \/ k = Len(s) + 1
  BY <1>2
<1>4. \A y : y \in SeqRange(t) <=> y \in SeqRange(s) \/ y = x
  BY <1>1, <1>3, Zenon DEF SeqRange
<1>5. ASSUME Distinct(s), x \notin SeqRange(s) PROVE Distinct(t)
  <2> SUFFICES ASSUME NEW j \in DOMAIN t, NEW k \in DOMAIN t, t[j] = t[k] PROVE j = k
    BY DEF Distinct
  <2>1. \A i \in DOMAIN s : s[i] # x BY <1>5 DEF SeqRange
  <2> QED BY <1>1, <1>3, <1>5, <2>1 DEF Distinct
<1> QED BY <1>1, <1>4, <1>5 DEF t

LEMMA TailIs ==
  ASSUME NEW S, NEW s \in Seq(S), s # <<>>
  PROVE  /\ Head(s) \in S /\ Head(s) = s[1] /\ Tail(s) \in Seq(S)
         /\ Len(s) \in Nat \ {0} /\ 1 \in DOMAIN s
         /\ Len(Tail(s)) = Len(s) - 1
         /\ \A k \in DOMAIN Tail(s) : k + 1 \in DOMAIN s /\ Tail(s)[k] = s[k + 1]
         /\ SeqRange(s) = SeqRange(Tail(s)) \cup {Head(s)}
         /\ Distinct(s) => Distinct(Tail(s)) /\ Head(s) \notin SeqRange(Tail(s))
<1> DEFINE t == Tail(s)
<1>1. /\ Head(s) \in S /\ Head(s) = s[1] /\ t \in Seq(S) /\ Len(t) = Len(s) - 1
      /\ Len(s) \in Nat \ {0}
      /\ \A k \in 1 .. Len(t) : t[k] = s[k + 1]
  OBVIOUS
<1>2. DOMAIN s = 1 .. Len(s) /\ DOMAIN t = 1 .. Len(s) - 1
  BY <1>1
<1> HIDE DEF t
<1>3. \A k \in DOMAIN t : k + 1 \in DOMAIN s /\ t[k] = s[k + 1]
  BY <1>1, <1>2
<1>4. \A k \in DOMAIN s : k = 1 \/ (k - 1 \in DOMAIN t /\ s[k] = t[k - 1])
  <2> SUFFICES ASSUME NEW k \in DOMAIN s, k # 1
               PROVE  k - 1 \in DOMAIN t /\ s[k] = t[k - 1]
    OBVIOUS
  <2>1. k - 1 \in DOMAIN t /\ (k - 1) + 1 = k BY <1>2, <1>1
  <2> QED BY <2>1, <1>3
<1>5. 1 \in DOMAIN s BY <1>1, <1>2
<1>6. SeqRange(s) = SeqRange(t) \cup {s[1]}
  <2>1. \A y \in SeqRange(s) : y \in SeqRange(t) \/ y = s[1] BY <1>4 DEF SeqRange
  <2>2. \A y \in SeqRange(t) : y \in SeqRange(s) BY <1>3 DEF SeqRange
  <2> QED BY <2>1, <2>2, <1>5 DEF SeqRange
<1>7. ASSUME Distinct(s) PROVE Distinct(t) /\ s[1] \notin SeqRange(t)
  <2>1. Distinct(t)
    <3> SUFFICES ASSUME NEW j \in DOMAIN t, NEW k \in DOMAIN t, t[j] = t[k] PROVE j = k
      BY DEF Distinct
    <3>1. j + 1 = k + 1 BY <1>3, <1>7 DEF Distinct
    <3> QED BY <3>1, <1>2, <1>1
  <2>2. ASSUME NEW k \in DOMAIN t, t[k] = s[1] PROVE FALSE
    <3>1. k + 1 = 1 BY <1>3, <1>5, <1>7, <2>2 DEF Distinct
    <3> QED BY <3>1, <1>2, <1>1
  <2> QED BY <2>1, <2>2 DEF SeqRange
<1> QED BY <1>1, <1>3, <1>5, <1>6, <1>7 DEF t

LEMMA ConcatIs ==
  ASSUME NEW S, NEW s \in Seq(S), NEW t \in Seq(S)
  PROVE  /\ s \o t \in Seq(S)
         /\ SeqRange(s \o t) = SeqRange(s) \cup SeqRange(t)
         /\ Distinct(s) /\ Distinct(t) /\ SeqRange(s) \cap SeqRange(t) = {} => Distinct(s \o t)
<1> DEFINE u == s \o t
<1>1. /\ Len(s) \in Nat /\ Len(t) \in Nat
      /\ DOMAIN s = 1 .. Len(s) /\ DOMAIN t = 1 .. Len(t)
  OBVIOUS
<1>2. u \in Seq(S) /\ Len(u) = Len(s) + Len(t)
  OBVIOUS
<1>3. \A k \in 1 .. Len(s) + Len(t) : u[k] = IF k <= Len(s) THEN s[k] ELSE t[k - Len(s)]
  OBVIOUS
<1>4. DOMAIN u = 1 .. Len(s) + Len(t)
  BY <1>2
<1> HIDE DEF u
<1>5. \A k \in DOMAIN u : \/ k \in DOMAIN s /\ u[k] = s[k]
                          \/ k \notin DOMAIN s /\ k - Len(s) \in DOMAIN t /\ u[k] = t[k - Len(s)]
  BY <1>1, <1>3, <1>4
<1>6. \A k \in DOMAIN s : k \in DOMAIN u /\ u[k] = s[k]
  BY <1>1, <1>3, <1>4
<1>7. ASSUME NEW k \in DOMAIN t PROVE k + Len(s) \in DOMAIN u /\ u[k + Len(s)] = t[k]
  <2>1. /\ k + Len(s) \in 1 .. Len(s) + Len(t) /\ ~(k + Len(s) <= Len(s))
        /\ (k + Len(s)) - Len(s) = k
    BY <1>1
  <2> QED BY <2>1, <1>3, <1>4
<1>8. SeqRange(u) = SeqRange(s) \cup SeqRange(t)
  <2>1. \A y \in SeqRange(u) : y \in SeqRange(s) \cup SeqRange(t) BY <1>5 DEF SeqRange
  <2>2. \A y \in SeqRange(s) : y \in SeqRange(u) BY <1>6 DEF SeqRange
  <2>3. \A y \in SeqRange(t) : y \in SeqRange(u) BY <1>7 DEF SeqRange
  <2> QED BY <2>1, <2>2, <2>3
<1>9. ASSUME Distinct(s), Distinct(t), SeqRange(s) \cap SeqRange(t) = {} PROVE Distinct(u)
  <2> SUFFICES ASSUME NEW j \in DOMAIN u, NEW k \in DOMAIN u, u[j] = u[k] PROVE j = k
    BY DEF Distinct
  <2>1. CASE j \in DOMAIN s /\ k \in DOMAIN s BY <2>1, <1>6, <1>9 DEF Distinct
  <2>2. CASE j \notin DOMAIN s /\ k \notin DOMAIN s
    <3>1. j - Len(s) = k - Len(s) BY <2>2, <1>5, <1>9 DEF Distinct
    <3> QED BY <3>1, <1>1, <1>4
  <2>3. CASE (j \in DOMAIN s) # (k \in DOMAIN s)
    <3>1. u[j] \in SeqRange(s) /\ u[j] \in SeqRange(t) BY <2>3, <1>5 DEF SeqRange
    <3> QED BY <3>1, <1>9
  <2> QED BY <2>1, <2>2, <2>3
<1> QED BY <1>2, <1>8, <1>9 DEF u

LEMMA EmptyIs == SeqRange(<<>>) = {} /\ Distinct(<<>>) /\ Len(<<>>) = 0
BY DEF SeqRange, Distinct

TypedControl ==
  /\ fed \in 0 .. Readings /\ sourceClosed \in BOOLEAN /\ shutdown \in BOOLEAN
  /\ dpc \in Loop \cup {"stop", "exited"}
  /\ cur \in 0 .. Readings /\ (dpc = "route" => cur # 0)
  /\ next \in 1 .. W + 1 /\ (dpc = "rotate" => next <= W)
  /\ windowId \in 0 .. MaxWindows /\ sawData \in BOOLEAN /\ last \in BOOLEAN
  /\ dpc \in Closing => last \/ windowId < MaxWindows

TypedData ==
  /\ source \in Seq(R) /\ merged \in Seq(R) /\ missing \in Int
  /\ inbox \in [Workers -> Seq(Messages)]
  /\ wpc \in [Workers -> {"check", "recv", "report", "exited"}]
  /\ bucket \in [Workers -> Seq(R)] /\ reports \in Seq(Seq(R))
  /\ published \in Seq(Frames) /\ taken \in Nat
  /\ routedIn \in [R -> 0 .. NotRouted]

Typed == TypedControl /\ TypedData

-----------------------------------------------------------------------------
\* Readings leave the source in order, and each is routed once, to the window
\* that is open.
Popped == fed - Len(source)

Routing ==
  /\ \A i \in DOMAIN source : source[i] = Popped + i
  /\ Popped \in Nat
  /\ dpc = "route" => cur = Popped
  /\ \A r \in R : routedIn[r] # NotRouted =>
       /\ r <= Popped /\ ~(dpc = "route" /\ r = cur)
       /\ routedIn[r] <= windowId
  /\ dpc \in Loop => \A r \in 1 .. Popped :
       routedIn[r] # NotRouted \/ (dpc = "route" /\ r = cur)
  /\ dpc \in Loop /\ ~sawData => \A r \in R : routedIn[r] # windowId

-----------------------------------------------------------------------------
\* The workers that have been sent Rotate, and those of them that still owe a report.
Asked == CASE dpc = "rotate" -> 1 .. next - 1
           [] dpc \in {"collect", "publish"} -> Workers
           [] OTHER -> {}
Owing == {w \in Workers : wpc[w] = "report" \/ Rotate \in SeqRange(inbox[w])}

Due == CASE dpc = "rotate" -> next - 1
         [] dpc = "collect" -> missing
         [] OTHER -> 0

\* A worker's channel while the dispatcher is in its loop: Rotate comes last, and
\* once its report is handed in, nothing is left with the worker.
Settled(w) ==
  /\ Distinct(inbox[w]) /\ Stop \notin SeqRange(inbox[w])
  /\ \A i \in DOMAIN inbox[w] : inbox[w][i] = Rotate => i = Len(inbox[w])
  /\ wpc[w] = "report" => inbox[w] = <<>>
  /\ w \in Asked \ Owing => inbox[w] = <<>> /\ bucket[w] = <<>>

Window == dpc \in Loop =>
  /\ Owing \subseteq Asked
  /\ Cardinality(Owing) + Len(reports) = Due
  /\ dpc = "publish" => missing = 0
  /\ \A w \in Workers : Settled(w)

-----------------------------------------------------------------------------
\* Where a reading of the open window may be.
Reduced == IF dpc \in {"collect", "publish"} THEN SeqRange(merged) ELSE {}
InReports == UNION {SeqRange(reports[k]) : k \in DOMAIN reports}
InInbox(w) == {r \in R : Data(r) \in SeqRange(inbox[w])}
InBucket(w) == SeqRange(bucket[w])

Current == {r \in R : routedIn[r] = windowId}

\* No reading is in two places, none of another window is in any, and a reading of
\* the open window is in one.
Held(w) ==
  /\ Distinct(bucket[w])
  /\ InInbox(w) \cap InBucket(w) = {}
  /\ \A r \in InInbox(w) \cup InBucket(w) :
       Hash[r] = w /\ r \in Current /\ r \notin InReports \cup Reduced

Gathered ==
  /\ InReports \cup Reduced \subseteq Current /\ InReports \cap Reduced = {}
  /\ \A k \in DOMAIN reports : Distinct(reports[k])
  /\ \A j, k \in DOMAIN reports : j # k => SeqRange(reports[j]) \cap SeqRange(reports[k]) = {}
  /\ dpc \in {"collect", "publish"} => Distinct(merged)

Complete == \A r \in Current :
  r \in InInbox(Hash[r]) \cup InBucket(Hash[r]) \cup InReports \cup Reduced

Places == dpc \in Loop => (\A w \in Workers : Held(w)) /\ Gathered /\ Complete

-----------------------------------------------------------------------------
Sequel ==
  /\ NoGap
  /\ dpc \in Loop => Len(published) = windowId
  /\ Len(published) <= windowId + 1

Ending ==
  /\ dpc \in Closing /\ last => Drained
  /\ dpc \in {"stop", "exited"} /\ ~shutdown =>
       /\ Drained
       /\ \A r \in 1 .. fed : routedIn[r] < Len(published)

Inv == Typed /\ Routing /\ Window /\ Places /\ Sequel /\ Ending /\ NoPartialFrame
-----------------------------------------------------------------------------
LEMMA MessageIs ==
  /\ Rotate \in Messages /\ Stop \in Messages /\ Rotate # Stop
  /\ \A r : Data(r) # Rotate /\ Data(r) # Stop
  /\ \A r \in R : Data(r) \in Messages
  /\ \A q, r : Data(q) = Data(r) => q = r
BY DEF Messages, Data, Rotate, Stop

LEMMA KindIs ==
  ASSUME NEW m \in Messages
  PROVE  /\ m.kind \in {"data", "rotate", "shutdown"}
         /\ m.kind = "data" => m.reading \in R /\ m = Data(m.reading)
         /\ m.kind = "rotate" => m = Rotate
         /\ m.kind = "shutdown" => m = Stop
BY DEF Messages, Data, Rotate, Stop

\* Steps of the consumer, and of whoever shuts the buffer down, raise flags and
\* take frames; the rest they leave alone.
Outside ==
  /\ UNCHANGED <<source, fed, dispVars, workerVars, published, routedIn>>
  /\ sourceClosed' \in {sourceClosed, TRUE} /\ shutdown' \in {shutdown, TRUE}
  /\ taken' \in {taken, taken + 1}

LEMMA OutsideIs == CloseSource \/ Consumer \/ UNCHANGED vars => Outside
BY DEF CloseSource, Consumer, ReceiveFrame, Persisted, PersistFailed, Idle, ShutdownEngine,
       Join, Outside, vars, sourceVars, outVars, dispVars, workerVars

\* The same for the rest of the dispatcher's steps that give up the loop.
LEMMA FailIs == RouteFails \/ RotateFails \/ CollectFails => dpc \in Loop /\ Fail
BY DEF RouteFails, RotateFails, CollectFails, Loop, Open, Closing

Touches == \/ Feed \/ Outside \/ Top \/ TestDrained \/ Pop \/ Route \/ (dpc \in Loop /\ Fail)
           \/ Tick \/ SendRotate \/ Collect \/ Publish \/ SendStop
           \/ \E w \in Workers : Worker(w)

LEMMA StepIs == [Next]_vars => Touches
BY OutsideIs, FailIs DEF Next, Dispatcher, Touches, Terminated

LEMMA FirstWorker == 1 \in 1 .. W + 1 /\ 1 <= W /\ W \in Nat /\ MaxWindows \in Nat /\ Readings \in Nat
BY AggregationAssumption

LEMMA InitTyped == Init => Typed
<1> SUFFICES ASSUME Init PROVE Typed OBVIOUS
<1>1. routedIn \in [R -> 0 .. NotRouted]
  BY AggregationAssumption DEF Init, R, NotRouted
<1>2. /\ inbox \in [Workers -> Seq(Messages)] /\ bucket \in [Workers -> Seq(R)]
      /\ wpc \in [Workers -> {"check", "recv", "report", "exited"}]
  BY DEF Init
<1>3. /\ reports \in Seq(Seq(R)) /\ published \in Seq(Frames)
      /\ merged \in Seq(R) /\ source \in Seq(R)
  BY DEF Init
<1>4. /\ fed = 0 /\ sourceClosed = FALSE /\ shutdown = FALSE /\ dpc = "top" /\ cur = 0
      /\ next = 1 /\ windowId = 0 /\ sawData = FALSE /\ last = FALSE
  BY DEF Init
<1>5. TypedControl
  <2>1. sourceClosed \in BOOLEAN /\ shutdown \in BOOLEAN /\ sawData \in BOOLEAN /\ last \in BOOLEAN
    BY <1>4
  <2>2. fed \in 0 .. Readings /\ cur \in 0 .. Readings /\ next \in 1 .. W + 1 /\ windowId \in 0 .. MaxWindows
    BY <1>4, FirstWorker
  <2> QED BY <1>4, <2>1, <2>2 DEF TypedControl, Loop, Open, Closing
<1> QED BY <1>1, <1>2, <1>3, <1>5 DEF Init, Typed, TypedData

LEMMA NextControl == Typed /\ Touches => TypedControl'
<1> SUFFICES ASSUME TypedControl, TypedData, Touches PROVE TypedControl'
  BY DEF Typed
<1> USE FirstWorker
<1>1. CASE Feed
  BY <1>1 DEF TypedControl, Feed, dispVars
<1>2. CASE Outside
  BY <1>2 DEF TypedControl, Outside, dispVars
<1>3. CASE Top
  BY <1>3 DEF TypedControl, Top, sourceVars, Loop, Open, Closing
<1>4. CASE TestDrained
  BY <1>4 DEF TypedControl, TestDrained, Drained, sourceVars, Loop, Open, Closing
<1>5. CASE Pop
  <2>1. source # <<>> => Head(source) \in 1 .. Readings
    BY TailIs DEF TypedData, R
  <2>2. cur' \in 0 .. Readings /\ (dpc' = "route" => cur' # 0)
    BY <1>5, <2>1 DEF TypedControl, Pop
  <2>3. dpc' \in {"tick", "route"} /\ UNCHANGED <<sourceClosed, fed, shutdown, next, windowId, sawData, last>>
    BY <1>5 DEF Pop
  <2> QED BY <2>2, <2>3 DEF TypedControl, Loop, Open, Closing
<1>6. CASE Route
  BY <1>6 DEF TypedControl, Route, sourceVars, Loop, Open, Closing
<1>7. CASE dpc \in Loop /\ Fail
  BY <1>7 DEF TypedControl, Fail, sourceVars, Loop, Open, Closing
<1>8. CASE Tick
  BY <1>8 DEF TypedControl, Tick, sourceVars, Loop, Open, Closing
<1>9. CASE SendRotate
  BY <1>9 DEF TypedControl, SendRotate, sourceVars, Loop, Open, Closing
<1>10. CASE Collect
  BY <1>10 DEF TypedControl, Collect, sourceVars, Loop, Open, Closing
<1>11. CASE Publish
  <2>1. UNCHANGED <<fed, sourceClosed, shutdown, cur, last>>
    BY <1>11 DEF Publish, sourceVars
  <2>2. CASE last
    <3>1. dpc' = "stop" /\ next' = 1 /\ UNCHANGED <<windowId, sawData>>
      BY <1>11, <2>2 DEF Publish
    <3> QED BY <2>1, <3>1 DEF TypedControl, Loop, Open, Closing
  <2>3. CASE ~last
    <3>1. dpc' = "top" /\ windowId' = windowId + 1 /\ sawData' = FALSE /\ next' = next
      BY <1>11, <2>3 DEF Publish
    <3>2. windowId < MaxWindows BY <1>11, <2>3 DEF Publish, TypedControl, Closing
    <3>3. windowId' \in 0 .. MaxWindows BY <3>1, <3>2 DEF TypedControl
    <3>4. sawData' \in BOOLEAN BY <3>1
    <3> QED BY <2>1, <3>1, <3>3, <3>4 DEF TypedControl, Loop, Open, Closing
  <2> QED BY <2>2, <2>3
<1>12. CASE SendStop
  BY <1>12 DEF TypedControl, SendStop, sourceVars, Loop, Open, Closing
<1>13. ASSUME NEW w \in Workers, Worker(w) PROVE TypedControl'
  BY <1>13 DEF TypedControl, Worker, CheckFlag, Receive, Report, Disconnected, sourceVars, dispVars
<1> QED BY <1>1, <1>2, <1>3, <1>4, <1>5, <1>6, <1>7, <1>8, <1>9, <1>10, <1>11, <1>12, <1>13
        DEF Touches

LEMMA DeliverIs ==
  ASSUME TypedData, NEW w \in Workers, NEW m \in Messages, Deliver(w, m)
  PROVE  /\ inbox' \in [Workers -> Seq(Messages)]
         /\ inbox'[w] = Append(inbox[w], m)
         /\ \A v \in Workers : v # w => inbox'[v] = inbox[v]
BY AppendIs DEF TypedData, Deliver

LEMMA ReceiveIs ==
  ASSUME TypedData, NEW w \in Workers, Receive(w)
  PROVE  /\ inbox[w] \in Seq(Messages) /\ inbox[w] # <<>> /\ Head(inbox[w]) \in Messages
         /\ inbox' \in [Workers -> Seq(Messages)] /\ inbox'[w] = Tail(inbox[w])
         /\ \A v \in Workers : v # w => inbox'[v] = inbox[v]
<1>1. inbox[w] \in Seq(Messages) /\ inbox[w] # <<>> /\ inbox' = [inbox EXCEPT ![w] = Tail(@)]
  BY DEF TypedData, Receive
<1>2. Head(inbox[w]) \in Messages /\ Tail(inbox[w]) \in Seq(Messages)
  BY <1>1, TailIs
<1> QED BY <1>1, <1>2 DEF TypedData

LEMMA NextData == Typed /\ Touches => TypedData'
<1> SUFFICES ASSUME TypedControl, TypedData, Touches PROVE TypedData'
  BY DEF Typed
<1>1. CASE Feed
  <2>1. fed + 1 \in R BY <1>1, FirstWorker DEF Feed, TypedControl, R
  <2>2. source' \in Seq(R) BY <1>1, <2>1, AppendIs DEF Feed, TypedData
  <2> QED BY <1>1, <2>2 DEF Feed, TypedData, dispVars, workerVars, outVars
<1>2. CASE Outside
  BY <1>2 DEF TypedData, Outside, dispVars, workerVars
<1>3. CASE Top \/ TestDrained \/ Tick \/ Fail
  BY <1>3 DEF TypedData, Top, TestDrained, Tick, Fail, sourceVars, workerVars, outVars
<1>4. CASE Pop
  <2>1. source # <<>> => Tail(source) \in Seq(R) BY TailIs DEF TypedData
  <2>2. source' = source \/ (source # <<>> /\ source' = Tail(source)) BY <1>4 DEF Pop
  <2> QED BY <1>4, <2>1, <2>2 DEF Pop, TypedData, workerVars, outVars
<1>5. CASE Route
  <2>1. cur \in R BY <1>5, FirstWorker DEF Route, TypedControl, R
  <2>2. Hash[cur] \in Workers /\ Data(cur) \in Messages
    BY <2>1, AggregationAssumption, MessageIs DEF R
  <2>3. inbox' \in [Workers -> Seq(Messages)] BY <1>5, <2>2, DeliverIs DEF Route
  <2>4. routedIn' \in [R -> 0 .. NotRouted]
    <3>1. windowId \in 0 .. NotRouted BY FirstWorker DEF TypedControl, NotRouted
    <3> QED BY <1>5, <3>1 DEF Route, TypedData
  <2> QED BY <1>5, <2>3, <2>4 DEF Route, TypedData, sourceVars, outVars
<1>6. CASE SendRotate
  <2>1. next \in Workers BY <1>6 DEF SendRotate, TypedControl, Workers
  <2>2. inbox' \in [Workers -> Seq(Messages)] BY <1>6, <2>1, DeliverIs, MessageIs DEF SendRotate
  <2>3. merged' \in Seq(R) /\ missing' \in Int BY <1>6, FirstWorker DEF SendRotate
  <2> QED BY <1>6, <2>2, <2>3 DEF SendRotate, TypedData, sourceVars, outVars
<1>7. CASE Collect
  <2>1. Head(reports) \in Seq(R) /\ reports' \in Seq(Seq(R)) BY <1>7, TailIs DEF Collect, TypedData
  <2>2. merged' \in Seq(R) /\ missing' \in Int BY <1>7, <2>1 DEF Collect, TypedData
  <2> QED BY <1>7, <2>1, <2>2 DEF Collect, TypedData, sourceVars, outVars
<1>8. CASE Publish
  <2>1. [id |-> windowId, data |-> merged] \in Frames BY DEF TypedControl, TypedData, Frames
  <2>2. published' \in Seq(Frames) BY <1>8, <2>1, AppendIs DEF Publish, TypedData
  <2> QED BY <1>8, <2>2 DEF Publish, TypedData, sourceVars, workerVars
<1>9. CASE SendStop
  <2>1. CASE UNCHANGED inbox
    BY <1>9, <2>1 DEF SendStop, TypedData, sourceVars, outVars
  <2>2. CASE next <= W /\ Deliver(next, Stop)
    <3>1. next \in Workers BY <2>2 DEF TypedControl, Workers
    <3>2. inbox' \in [Workers -> Seq(Messages)] BY <2>2, <3>1, DeliverIs, MessageIs
    <3> QED BY <1>9, <3>2 DEF SendStop, TypedData, sourceVars, outVars
  <2> QED BY <1>9, <2>1, <2>2, FirstWorker DEF SendStop, TypedControl
<1>10. ASSUME NEW w \in Workers, Worker(w) PROVE TypedData'
  <2>1. CASE CheckFlag(w) \/ Disconnected(w)
    BY <2>1 DEF CheckFlag, Disconnected, WorkerAt, TypedData, sourceVars, dispVars, outVars
  <2>2. CASE Receive(w)
    <3>1. PICK m \in Messages : m = Head(inbox[w]) BY <2>2, ReceiveIs
    <3>2. wpc' \in [Workers -> {"check", "recv", "report", "exited"}]
      <4>1. m.kind \in {"data", "rotate", "shutdown"} BY KindIs
      <4>2. \E p \in {"check", "report", "exited"} : WorkerAt(w, p)
        BY <2>2, <3>1, <4>1 DEF Receive
      <4> QED BY <4>2 DEF WorkerAt, TypedData
    <3>3. bucket' \in [Workers -> Seq(R)]
      <4>1. CASE m.kind = "data"
        <5>1. bucket[w] \in Seq(R) /\ m.reading \in R BY <4>1, KindIs DEF TypedData
        <5>2. Append(bucket[w], m.reading) \in Seq(R) BY <5>1, AppendIs
        <5> QED BY <2>2, <3>1, <4>1, <5>2 DEF Receive, TypedData
      <4> QED BY <2>2, <3>1, <4>1 DEF Receive, TypedData
    <3> QED BY <2>2, <3>2, <3>3, ReceiveIs DEF Receive, TypedData, sourceVars, dispVars, outVars
  <2>3. CASE Report(w)
    <3>1. bucket[w] \in Seq(R) /\ reports' = Append(reports, bucket[w])
      BY <2>3 DEF Report, TypedData
    <3>2. reports' \in Seq(Seq(R)) BY <3>1, AppendIs DEF TypedData
    <3>3. bucket' \in [Workers -> Seq(R)] BY <2>3 DEF Report, TypedData
    <3> QED BY <2>3, <3>2, <3>3 DEF Report, WorkerAt, TypedData, sourceVars, dispVars, outVars
  <2> QED BY <1>10, <2>1, <2>2, <2>3 DEF Worker
<1> QED BY <1>1, <1>2, <1>3, <1>4, <1>5, <1>6, <1>7, <1>8, <1>9, <1>10 DEF Touches

LEMMA InitRouting == Init => Routing
<1> SUFFICES ASSUME Init PROVE Routing OBVIOUS
<1>1. source = <<>> /\ fed = 0 /\ dpc = "top" /\ windowId = 0 /\ sawData = FALSE
      /\ routedIn = [r \in R |-> NotRouted]
  BY DEF Init, R
<1>2. Len(source) = 0 /\ DOMAIN source = {} BY <1>1
<1>4. fed = 0 BY <1>1
<1>5. Popped = 0 BY <1>2, <1>4 DEF Popped
<1>3. NotRouted # 0 BY FirstWorker DEF NotRouted
<1> QED BY <1>1, <1>2, <1>3, <1>5 DEF Routing

LEMMA PoppedSame ==
  ASSUME UNCHANGED <<source, fed, routedIn>>, Routing
  PROVE  Popped' = Popped /\ Popped' \in Nat /\ \A i \in DOMAIN source' : source'[i] = Popped' + i
BY DEF Popped, Routing

LEMMA NextRouting == Typed /\ Routing /\ Touches => Routing'
<1> SUFFICES ASSUME TypedControl, TypedData, Routing, Touches PROVE Routing'
  BY DEF Typed
<1>1. CASE Feed
  <2>1. /\ source' = Append(source, fed + 1) /\ fed' = fed + 1
        /\ UNCHANGED <<dpc, cur, windowId, sawData, routedIn>>
    BY <1>1 DEF Feed, dispVars
  <2>2. fed \in Nat /\ source \in Seq(Nat)
    BY FirstWorker DEF TypedControl, TypedData, R
  <2>3. /\ Len(source') = Len(source) + 1 /\ Len(source) \in Nat
        /\ DOMAIN source' = DOMAIN source \cup {Len(source) + 1}
        /\ source'[Len(source) + 1] = fed + 1 /\ \A i \in DOMAIN source : source'[i] = source[i]
    BY <2>1, <2>2
  <2>4. Popped' = Popped BY <2>1, <2>2, <2>3 DEF Popped
  <2>5. Popped + (Len(source) + 1) = fed + 1 BY <2>2, <2>3 DEF Popped
  <2>6. \A i \in DOMAIN source' : source'[i] = Popped' + i
    BY <2>3, <2>4, <2>5 DEF Routing
  <2> QED BY <2>1, <2>4, <2>6 DEF Routing
<1>2. CASE Pop /\ source # <<>>
  <2>1. /\ dpc = "pop" /\ dpc' = "route" /\ cur' = Head(source) /\ source' = Tail(source)
        /\ UNCHANGED <<fed, windowId, sawData, routedIn>>
    BY <1>2 DEF Pop
  <2>2. /\ Head(source) = source[1] /\ 1 \in DOMAIN source /\ Len(source') = Len(source) - 1
        /\ \A k \in DOMAIN source' : k + 1 \in DOMAIN source /\ source'[k] = source[k + 1]
        /\ source' \in Seq(R) /\ Len(source) \in Nat
    BY <1>2, <2>1, TailIs DEF TypedData
  <2>3. fed \in Nat /\ Popped \in Nat /\ Popped' = Popped + 1
    BY <2>1, <2>2, FirstWorker DEF TypedControl, Popped, Routing
  <2>4. cur' = Popped' BY <2>1, <2>2, <2>3 DEF Routing
  <2>5. \A i \in DOMAIN source' : source'[i] = Popped' + i
    <3> SUFFICES ASSUME NEW i \in DOMAIN source' PROVE source'[i] = Popped' + i
      OBVIOUS
    <3>1. i \in Nat BY <2>2
    <3>2. source'[i] = Popped + (i + 1) BY <2>2 DEF Routing
    <3> QED BY <3>1, <3>2, <2>3
  <2>6. \A r \in R : routedIn'[r] # NotRouted => r <= Popped' /\ r # cur' /\ routedIn'[r] <= windowId'
    <3> SUFFICES ASSUME NEW r \in R, routedIn[r] # NotRouted
                 PROVE  r <= Popped' /\ r # cur' /\ routedIn[r] <= windowId
      BY <2>1
    <3>1. r <= Popped /\ routedIn[r] <= windowId BY DEF Routing
    <3> QED BY <3>1, <2>3, <2>4 DEF R
  <2>7. \A r \in 1 .. Popped' : routedIn'[r] # NotRouted \/ r = cur'
    <3> SUFFICES ASSUME NEW r \in 1 .. Popped', r # cur' PROVE routedIn[r] # NotRouted
      BY <2>1
    <3>1. r \in 1 .. Popped BY <2>3, <2>4
    <3> QED BY <3>1, <2>1 DEF Routing, Loop, Open
  <2>8. ~sawData => \A r \in R : routedIn[r] # windowId BY <2>1 DEF Routing, Loop, Open
  <2> QED BY <2>1, <2>3, <2>4, <2>5, <2>6, <2>7, <2>8 DEF Routing
<1>3. CASE Route
  <2>1. /\ dpc = "route" /\ dpc' = "tick" /\ sawData' = TRUE
        /\ UNCHANGED <<source, fed, windowId, cur>>
        /\ routedIn' = [routedIn EXCEPT ![cur] = windowId]
    BY <1>3 DEF Route, sourceVars
  <2>2. cur \in R /\ cur = Popped /\ Popped \in Nat
    BY <2>1, FirstWorker DEF Routing, TypedControl, R
  <2>3. routedIn'[cur] = windowId /\ \A r \in R : r # cur => routedIn'[r] = routedIn[r]
    BY <2>1, <2>2 DEF TypedData
  <2>4. windowId \in Nat /\ windowId # NotRouted BY FirstWorker DEF TypedControl, NotRouted
  <2>5. /\ Popped' = Popped /\ \A i \in DOMAIN source' : source'[i] = Popped' + i
    BY <2>1 DEF Popped, Routing
  <2>6. \A r \in R : routedIn'[r] # NotRouted => r <= Popped' /\ routedIn'[r] <= windowId'
    BY <2>1, <2>2, <2>3, <2>4, <2>5 DEF Routing
  <2>7. \A r \in 1 .. Popped' : routedIn'[r] # NotRouted
    <3> SUFFICES ASSUME NEW r \in 1 .. Popped PROVE routedIn'[r] # NotRouted
      BY <2>5
    <3>1. CASE r = cur BY <3>1, <2>3, <2>4
    <3>2. CASE r # cur
      <4>1. r \in R BY <2>2, FirstWorker DEF R
      <4> QED BY <3>2, <4>1, <2>1, <2>3 DEF Routing, Loop, Open
    <3> QED BY <3>1, <3>2
  <2> QED BY <2>1, <2>2, <2>5, <2>6, <2>7 DEF Routing
<1>4. CASE Publish
  <2>1. dpc = "publish" /\ UNCHANGED <<source, fed, cur, last, routedIn>>
    BY <1>4 DEF Publish, sourceVars
  <2>2. Popped' = Popped /\ Popped' \in Nat /\ \A i \in DOMAIN source' : source'[i] = Popped' + i
    BY <2>1, PoppedSame
  <2>3. CASE last
    <3>1. dpc' = "stop" /\ windowId' = windowId BY <1>4, <2>3 DEF Publish
    <3> QED BY <2>1, <2>2, <3>1 DEF Routing, Loop, Open, Closing
  <2>4. CASE ~last
    <3>1. dpc' = "top" /\ windowId' = windowId + 1 BY <1>4, <2>4 DEF Publish
    <3>2. windowId \in Nat /\ windowId + 1 # NotRouted
      BY <2>1, <2>4, FirstWorker DEF TypedControl, Closing, NotRouted
    <3>3. \A r \in R : routedIn[r] # NotRouted => routedIn[r] <= windowId' /\ routedIn[r] # windowId'
      BY <3>1, <3>2, FirstWorker DEF Routing, TypedData, NotRouted
    <3>4. \A r \in R : routedIn'[r] # windowId' BY <2>1, <3>1, <3>2, <3>3
    <3> QED BY <2>1, <2>2, <3>1, <3>3, <3>4 DEF Routing, Loop, Open, Closing
  <2> QED BY <2>3, <2>4
<1>5. CASE Top \/ TestDrained \/ (Pop /\ source = <<>>) \/ (dpc \in Loop /\ Fail)
           \/ Tick \/ SendRotate \/ Collect \/ SendStop
  <2>1. UNCHANGED <<source, fed, cur, windowId, sawData, routedIn>> /\ dpc' # "route"
    BY <1>5 DEF Top, TestDrained, Pop, Fail, Tick, SendRotate, Collect, SendStop,
                sourceVars, dispVars
  <2>2. dpc' \in Loop => dpc \in Loop
    BY <1>5 DEF Top, TestDrained, Pop, Fail, Tick, SendRotate, Collect, SendStop,
                Loop, Open, Closing, dispVars
  <2>3. dpc = "route" => dpc' \notin Loop
    BY <1>5 DEF Top, TestDrained, Pop, Fail, Tick, SendRotate, Collect, SendStop,
                Loop, Open, Closing, dispVars
  <2> QED BY <2>1, <2>2, <2>3, PoppedSame DEF Routing
<1>6. CASE Outside \/ \E w \in Workers : Worker(w)
  <2>1. UNCHANGED <<source, fed, cur, windowId, sawData, routedIn, dpc>>
    BY <1>6 DEF Outside, Worker, CheckFlag, Receive, Report, Disconnected, sourceVars, dispVars
  <2> QED BY <2>1, PoppedSame DEF Routing
<1> QED BY <1>1, <1>2, <1>3, <1>4, <1>5, <1>6 DEF Touches

LEMMA OwingFinite ==
  /\ IsFiniteSet(Owing) /\ Cardinality(Owing) \in Nat
  /\ Cardinality(Owing) = 0 => Owing = {}
<1>1. IsFiniteSet(Workers) BY FirstWorker, FS_Interval DEF Workers
<1>2. Owing \subseteq Workers BY DEF Owing
<1>3. IsFiniteSet(Owing) BY <1>1, <1>2, FS_Subset
<1> QED BY <1>3, FS_CardinalityType, FS_EmptySet

\* Between windows, and once all reports are in, no worker owes one.
LEMMA NobodyOwes ==
  ASSUME TypedData, Window, dpc \in Open \cup {"publish"}
  PROVE  Owing = {} /\ reports = <<>> /\ Due = 0
<1>1. dpc \in Loop /\ Due = 0 BY DEF Loop, Open, Closing, Due
<1>2. Cardinality(Owing) + Len(reports) = 0 BY <1>1 DEF Window
<1>3. Len(reports) \in Nat BY DEF TypedData
<1>4. Cardinality(Owing) = 0 /\ Len(reports) = 0 BY <1>2, <1>3, OwingFinite
<1> QED BY <1>1, <1>4, OwingFinite DEF TypedData

LEMMA InitWindow == Init => Window
<1> SUFFICES ASSUME Init PROVE Window OBVIOUS
<1>1. /\ dpc = "top" /\ reports = <<>>
      /\ \A w \in Workers : inbox[w] = <<>> /\ wpc[w] = "check" /\ bucket[w] = <<>>
  BY DEF Init
<1>2. Owing = {} BY <1>1, EmptyIs DEF Owing
<1>3. Due = 0 /\ Cardinality(Owing) + Len(reports) = 0
  BY <1>1, <1>2, EmptyIs, FS_EmptySet DEF Due
<1>4. \A w \in Workers : Settled(w) BY <1>1, EmptyIs DEF Settled
<1> QED BY <1>1, <1>2, <1>3, <1>4 DEF Window

LEMMA NextWindow == Typed /\ Routing /\ Window /\ Places /\ Touches => Window'
<1> SUFFICES ASSUME TypedControl, TypedData, Routing, Window, Places, Touches, dpc' \in Loop
             PROVE  Window'
  BY DEF Typed, Window
<1>1. CASE Feed \/ Outside
  <2>1. UNCHANGED <<dpc, next, missing, inbox, wpc, bucket, reports>>
    BY <1>1 DEF Feed, Outside, dispVars, workerVars
  <2>2. Owing' = Owing /\ Asked' = Asked /\ Due' = Due BY <2>1 DEF Owing, Asked, Due
  <2> QED BY <2>1, <2>2 DEF Window, Settled
<1>2. CASE Top \/ TestDrained \/ Pop \/ Tick \/ Publish
  <2>1. /\ dpc \in Open \cup {"publish"} /\ dpc' \in Open \cup {"rotate"}
        /\ dpc' = "rotate" => next' = 1
        /\ UNCHANGED <<inbox, wpc, bucket, reports>>
    BY <1>2 DEF Top, TestDrained, Pop, Tick, Publish, Loop, Open, Closing, workerVars
  <2>2. Owing = {} /\ reports = <<>> BY <2>1, NobodyOwes
  <2>3. Owing' = {} /\ reports' = <<>> BY <2>1, <2>2 DEF Owing
  <2>4. Asked' = {} BY <2>1 DEF Asked, Open
  <2>5. Due' = 0 BY <2>1 DEF Due, Open
  <2>6. Cardinality(Owing') + Len(reports') = Due' BY <2>3, <2>5, FS_EmptySet, EmptyIs
  <2>7. \A w \in Workers : Settled(w) BY <2>1 DEF Window, Loop, Closing
  <2>8. \A w \in Workers : Settled(w)' BY <2>1, <2>4, <2>7 DEF Settled
  <2> QED BY <2>1, <2>3, <2>6, <2>8 DEF Window, Open
<1>3. CASE Route
  <2> DEFINE h == Hash[cur]
  <2>1. cur \in R /\ dpc = "route" /\ dpc' = "tick" /\ UNCHANGED <<wpc, bucket, reports>>
    BY <1>3, FirstWorker DEF Route, TypedControl, R
  <2>2. h \in Workers BY <2>1, AggregationAssumption DEF R
  <2>3. /\ inbox'[h] = Append(inbox[h], Data(cur)) /\ inbox[h] \in Seq(Messages)
        /\ \A v \in Workers : v # h => inbox'[v] = inbox[v]
    BY <1>3, <2>1, <2>2, DeliverIs, MessageIs DEF Route, TypedData
  <2> HIDE DEF h
  <2>4. Owing = {} /\ reports = <<>> BY <2>1, NobodyOwes DEF Open
  <2>5. Data(cur) \notin SeqRange(inbox[h])
    <3>1. routedIn[cur] = NotRouted BY <2>1 DEF Routing
    <3>2. cur \notin Current BY <3>1, FirstWorker DEF Current, TypedControl, NotRouted
    <3>3. cur \notin InInbox(h) BY <2>1, <2>2, <3>2 DEF Places, Held, Loop, Open
    <3> QED BY <3>3, <2>1 DEF InInbox
  <2>6. /\ SeqRange(inbox'[h]) = SeqRange(inbox[h]) \cup {Data(cur)}
        /\ Distinct(inbox[h]) => Distinct(inbox'[h])
        /\ DOMAIN inbox'[h] = DOMAIN inbox[h] \cup {Len(inbox[h]) + 1}
        /\ inbox'[h][Len(inbox[h]) + 1] = Data(cur)
        /\ \A k \in DOMAIN inbox[h] : inbox'[h][k] = inbox[h][k]
    BY <2>1, <2>3, <2>5, AppendIs, MessageIs
  <2>7. \A w \in Workers : wpc[w] # "report" /\ Rotate \notin SeqRange(inbox[w])
    BY <2>4 DEF Owing
  <2>8. \A w \in Workers : Rotate \notin SeqRange(inbox'[w])
    BY <2>3, <2>6, <2>7, MessageIs
  <2>9. Owing' = {} BY <2>1, <2>7, <2>8 DEF Owing
  <2>10. Asked' = {} /\ Due' = 0 BY <2>1 DEF Asked, Due
  <2>11. Cardinality(Owing') + Len(reports') = Due'
    BY <2>1, <2>4, <2>9, <2>10, FS_EmptySet, EmptyIs
  <2>12. ASSUME NEW w \in Workers PROVE Settled(w)'
    <3>1. Settled(w) BY <2>1 DEF Window, Loop, Open
    <3>2. \A i \in DOMAIN inbox'[w] : inbox'[w][i] # Rotate BY <2>8 DEF SeqRange
    <3>3. Distinct(inbox'[w]) /\ Stop \notin SeqRange(inbox'[w])
      BY <3>1, <2>3, <2>6, MessageIs DEF Settled
    <3> QED BY <2>1, <2>7, <2>10, <3>2, <3>3 DEF Settled
  <2> QED BY <2>1, <2>9, <2>11, <2>12 DEF Window
<1>4. CASE Fail \/ SendStop
  BY <1>4 DEF Fail, SendStop, Loop, Open, Closing
<1>5. CASE SendRotate
  <2>1. /\ dpc = "rotate" /\ next' = next + 1 /\ missing' = W
        /\ dpc' = IF next = W THEN "collect" ELSE "rotate"
        /\ UNCHANGED <<wpc, bucket, reports>>
    BY <1>5 DEF SendRotate
  <2>2. PICK h \in Workers : h = next /\ h \in 1 .. W
    <3>1. next \in 1 .. W BY <2>1, FirstWorker DEF TypedControl
    <3> QED BY <3>1 DEF Workers
  <2>3. /\ inbox'[h] = Append(inbox[h], Rotate) /\ inbox[h] \in Seq(Messages)
        /\ \A v \in Workers : v # h => inbox'[v] = inbox[v]
    BY <1>5, <2>2, DeliverIs, MessageIs DEF SendRotate, TypedData
  <2>4. Asked = 1 .. h - 1 /\ Due = h - 1 BY <2>1, <2>2 DEF Asked, Due
  <2>5. Asked' = Asked \cup {h}
    BY <2>1, <2>2, <2>4, FirstWorker DEF Asked, Workers
  <2>6. Due' = Due + 1
    BY <2>1, <2>2, <2>4, FirstWorker DEF Due
  <2>7. /\ Owing \subseteq Asked /\ Cardinality(Owing) + Len(reports) = Due
        /\ \A w \in Workers : Settled(w)
    BY <2>1 DEF Window, Loop, Closing
  <2>8. h \notin Asked BY <2>2, <2>4
  <2>9. Rotate \notin SeqRange(inbox[h]) /\ wpc[h] # "report"
    BY <2>2, <2>7, <2>8 DEF Owing
  <2>10. /\ SeqRange(inbox'[h]) = SeqRange(inbox[h]) \cup {Rotate}
         /\ Distinct(inbox[h]) => Distinct(inbox'[h])
         /\ Len(inbox'[h]) = Len(inbox[h]) + 1
         /\ DOMAIN inbox'[h] = DOMAIN inbox[h] \cup {Len(inbox[h]) + 1}
         /\ \A k \in DOMAIN inbox[h] : inbox'[h][k] = inbox[h][k]
    BY <2>3, <2>9, AppendIs, MessageIs
  <2>11. Owing' = Owing \cup {h} /\ h \notin Owing
    BY <2>1, <2>2, <2>3, <2>7, <2>8, <2>10 DEF Owing
  <2>12. Cardinality(Owing') = Cardinality(Owing) + 1
    BY <2>11, OwingFinite, FS_AddElement
  <2>13. Cardinality(Owing') + Len(reports') = Due'
    BY <2>1, <2>6, <2>7, <2>12, OwingFinite DEF TypedData
  <2>14. Settled(h)'
    <3>1. \A i \in DOMAIN inbox'[h] : inbox'[h][i] = Rotate => i = Len(inbox'[h])
      BY <2>9, <2>10 DEF SeqRange
    <3>2. Settled(h) BY <2>2, <2>7
    <3>3. Distinct(inbox'[h]) /\ Stop \notin SeqRange(inbox'[h])
      BY <2>10, <3>2, MessageIs DEF Settled
    <3>4. h \in Owing' /\ wpc'[h] # "report" BY <2>1, <2>9, <2>11
    <3> QED BY <3>1, <3>3, <3>4 DEF Settled
  <2>15. ASSUME NEW w \in Workers, w # h PROVE Settled(w)'
    BY <2>1, <2>3, <2>5, <2>7, <2>11, <2>15 DEF Settled
  <2>16. dpc' # "publish" BY <2>1
  <2>17. \A w \in Workers : Settled(w)' BY <2>14, <2>15
  <2>18. Owing' \subseteq Asked' BY <2>5, <2>7, <2>11
  <2> QED BY <2>13, <2>16, <2>17, <2>18 DEF Window
<1>6. CASE Collect
  <2>1. /\ dpc = "collect" /\ dpc' = (IF missing = 1 THEN "publish" ELSE "collect")
        /\ reports # <<>> /\ reports' = Tail(reports) /\ missing' = missing - 1
        /\ UNCHANGED <<inbox, wpc, bucket>>
    BY <1>6 DEF Collect
  <2>2. Owing' = Owing /\ Asked' = Asked BY <2>1 DEF Owing, Asked
  <2>3. Due = missing BY <2>1 DEF Due
  <2>4. Due' = missing - 1 BY <2>1 DEF Due, TypedData
  <2>5. Len(reports') = Len(reports) - 1 /\ Len(reports) \in Nat
    BY <2>1, TailIs DEF TypedData
  <2>6. Cardinality(Owing) + Len(reports) = missing BY <2>1, <2>3 DEF Window, Loop, Closing
  <2>7. Cardinality(Owing') + Len(reports') = Due'
    BY <2>2, <2>4, <2>5, <2>6, OwingFinite DEF TypedData
  <2>8. dpc' = "publish" => missing' = 0 BY <2>1
  <2>9. \A w \in Workers : Settled(w)'
    BY <2>1, <2>2 DEF Window, Settled, Loop, Closing
  <2> QED BY <2>1, <2>2, <2>7, <2>8, <2>9 DEF Window, Loop, Closing
<1>7. ASSUME NEW w \in Workers, Worker(w) PROVE Window'
  <2>1. UNCHANGED <<dpc, next, missing>> /\ Asked' = Asked /\ Due' = Due /\ dpc \in Loop
    BY <1>7 DEF Worker, CheckFlag, Receive, Report, Disconnected, dispVars, Asked, Due
  <2>2. /\ Owing \subseteq Asked /\ Cardinality(Owing) + Len(reports) = Due
        /\ dpc = "publish" => missing = 0
        /\ \A v \in Workers : Settled(v)
    BY <2>1 DEF Window
  <2>3. CASE CheckFlag(w) \/ Disconnected(w)
    <3>1. /\ wpc[w] = "check" /\ \E p \in {"exited", "recv"} : wpc' = [wpc EXCEPT ![w] = p]
          /\ UNCHANGED <<inbox, bucket, reports>>
      BY <2>1, <2>3 DEF CheckFlag, Disconnected, WorkerAt, Loop, Open, Closing
    <3>2. \A v \in Workers : (wpc'[v] = "report") = (wpc[v] = "report")
      BY <3>1 DEF TypedData
    <3>3. Owing' = Owing BY <3>1, <3>2 DEF Owing
    <3>4. \A v \in Workers : Settled(v)' BY <2>1, <2>2, <3>1, <3>2, <3>3 DEF Settled
    <3> QED BY <2>1, <2>2, <3>1, <3>3, <3>4 DEF Window
  <2>4. CASE Receive(w)
    <3>1. /\ wpc[w] = "recv" /\ inbox[w] \in Seq(Messages) /\ inbox[w] # <<>>
          /\ inbox'[w] = Tail(inbox[w]) /\ \A v \in Workers : v # w => inbox'[v] = inbox[v]
          /\ UNCHANGED reports
      BY <2>4, ReceiveIs DEF Receive
    <3>2. PICK m \in Messages : m = Head(inbox[w]) BY <2>4, ReceiveIs
    <3>3. /\ SeqRange(inbox[w]) = SeqRange(inbox'[w]) \cup {m} /\ 1 \in DOMAIN inbox[w]
          /\ m = inbox[w][1] /\ Len(inbox'[w]) = Len(inbox[w]) - 1
          /\ Len(inbox[w]) \in Nat \ {0} /\ inbox'[w] \in Seq(Messages)
          /\ Distinct(inbox'[w]) /\ m \notin SeqRange(inbox'[w])
          /\ \A k \in DOMAIN inbox'[w] :
               k + 1 \in DOMAIN inbox[w] /\ inbox'[w][k] = inbox[w][k + 1]
      BY <3>1, <3>2, <2>2, TailIs DEF Settled
    <3>4. m # Stop BY <2>2, <3>3 DEF Settled
    <3>5. \A k \in DOMAIN inbox'[w] : inbox'[w][k] = Rotate => k = Len(inbox'[w])
      <4> SUFFICES ASSUME NEW k \in DOMAIN inbox'[w], inbox'[w][k] = Rotate
                   PROVE  k = Len(inbox'[w])
        OBVIOUS
      <4>1. k \in Nat BY <3>3
      <4>2. k + 1 = Len(inbox[w]) BY <3>3, <2>2 DEF Settled
      <4> QED BY <4>1, <4>2, <3>3
    <3>6. w \notin Asked \ Owing BY <3>1, <2>2 DEF Settled
    <3>7. CASE m.kind = "data"
      <4>1. m # Rotate BY <3>7 DEF Rotate
      <4>2. wpc' = [wpc EXCEPT ![w] = "check"] /\ \A v \in Workers : v # w => bucket'[v] = bucket[v]
        BY <2>4, <3>2, <3>7 DEF Receive, WorkerAt, TypedData
      <4>3. \A v \in Workers : wpc'[v] = IF v = w THEN "check" ELSE wpc[v]
        BY <4>2 DEF TypedData
      <4>4. Owing' = Owing
        <5>1. Rotate \in SeqRange(inbox'[w]) <=> Rotate \in SeqRange(inbox[w])
          BY <3>3, <4>1
        <5>2. wpc[w] # "report" /\ wpc'[w] # "report" BY <3>1, <4>3
        <5>3. \A v \in Workers : v # w => inbox'[v] = inbox[v] /\ wpc'[v] = wpc[v]
          BY <3>1, <4>3
        <5> QED BY <5>1, <5>2, <5>3 DEF Owing
      <4>5. Settled(w)' BY <2>1, <2>2, <3>3, <3>5, <3>6, <4>3, <4>4 DEF Settled
      <4>6. ASSUME NEW v \in Workers, v # w PROVE Settled(v)'
        BY <2>1, <2>2, <3>1, <4>2, <4>3, <4>4, <4>6 DEF Settled
      <4> QED BY <2>1, <2>2, <3>1, <4>4, <4>5, <4>6 DEF Window
    <3>8. CASE m.kind = "rotate"
      <4>1. m = Rotate BY <3>8, KindIs
      <4>2. wpc' = [wpc EXCEPT ![w] = "report"] /\ bucket' = bucket
        BY <2>4, <3>2, <3>8 DEF Receive, WorkerAt, TypedData
      <4>3. 1 = Len(inbox[w]) BY <2>2, <3>3, <4>1 DEF Settled
      <4>4. inbox'[w] = <<>>
        <5>1. Len(inbox'[w]) = 0 BY <3>3, <4>3
        <5> QED BY <3>3, <5>1
      <4>5. \A v \in Workers : wpc'[v] = IF v = w THEN "report" ELSE wpc[v]
        BY <4>2 DEF TypedData
      <4>6. w \in Owing /\ w \in Owing' BY <3>3, <4>1, <4>5 DEF Owing
      <4>7. Owing' = Owing BY <3>1, <4>5, <4>6 DEF Owing
      <4>8. Settled(w)' BY <2>1, <2>2, <3>3, <3>5, <4>4, <4>6 DEF Settled
      <4>9. ASSUME NEW v \in Workers, v # w PROVE Settled(v)'
        BY <2>1, <2>2, <3>1, <4>2, <4>5, <4>7, <4>9 DEF Settled
      <4> QED BY <2>1, <2>2, <3>1, <4>7, <4>8, <4>9 DEF Window
    <3> QED BY <3>4, <3>7, <3>8, KindIs
  <2>5. CASE Report(w)
    <3>1. /\ wpc[w] = "report" /\ reports' = Append(reports, bucket[w])
          /\ bucket' = [bucket EXCEPT ![w] = <<>>] /\ wpc' = [wpc EXCEPT ![w] = "check"]
          /\ UNCHANGED inbox
      BY <2>5 DEF Report, WorkerAt
    <3>2. \A v \in Workers : /\ wpc'[v] = IF v = w THEN "check" ELSE wpc[v]
                            /\ bucket'[v] = IF v = w THEN <<>> ELSE bucket[v]
      BY <3>1 DEF TypedData
    <3>3. w \in Owing /\ inbox[w] = <<>> BY <3>1, <2>2 DEF Owing, Settled
    <3>4. Owing' = Owing \ {w}
      BY <3>1, <3>2, <3>3, EmptyIs DEF Owing
    <3>5. Cardinality(Owing') = Cardinality(Owing) - 1
      BY <3>3, <3>4, OwingFinite, FS_RemoveElement
    <3>6. Len(reports') = Len(reports) + 1 /\ Len(reports) \in Nat
      BY <3>1, AppendIs DEF TypedData
    <3>7. Cardinality(Owing') + Len(reports') = Due'
      BY <2>1, <2>2, <3>5, <3>6, OwingFinite
    <3>8. Settled(w)' BY <3>1, <3>2, <3>3, EmptyIs DEF Settled
    <3>9. ASSUME NEW v \in Workers, v # w PROVE Settled(v)'
      BY <2>1, <2>2, <3>1, <3>2, <3>4, <3>9 DEF Settled
    <3> QED BY <2>1, <2>2, <3>4, <3>7, <3>8, <3>9 DEF Window
  <2> QED BY <1>7, <2>3, <2>4, <2>5 DEF Worker
<1> QED BY <1>1, <1>2, <1>3, <1>4, <1>5, <1>6, <1>7 DEF Touches

LEMMA InitPlaces == Init => Places
<1> SUFFICES ASSUME Init PROVE Places OBVIOUS
<1>1. /\ dpc = "top" /\ reports = <<>> /\ windowId = 0
      /\ routedIn = [r \in R |-> NotRouted]
      /\ \A w \in Workers : inbox[w] = <<>> /\ bucket[w] = <<>>
  BY DEF Init, R
<1>2. Current = {} BY <1>1, FirstWorker DEF Current, NotRouted
<1>3. \A w \in Workers : InInbox(w) = {} /\ InBucket(w) = {}
  BY <1>1, EmptyIs DEF InInbox, InBucket
<1>4. DOMAIN reports = {} /\ InReports = {} /\ Reduced = {} BY <1>1 DEF InReports, Reduced
<1> QED BY <1>1, <1>2, <1>3, <1>4, EmptyIs DEF Places, Held, Gathered, Complete

\* A step that moves no reading.
LEMMA SamePlaces ==
  ASSUME Places, dpc \in Loop, UNCHANGED <<bucket, reports, routedIn, windowId>>,
         \A w \in Workers : InInbox(w)' = InInbox(w), Reduced' = Reduced,
         dpc' \in {"collect", "publish"} => Distinct(merged')
  PROVE  Places'
<1>1. /\ Current' = Current /\ InReports' = InReports
      /\ \A w \in Workers : InInbox(w)' = InInbox(w) /\ InBucket(w)' = InBucket(w)
  BY DEF Current, InReports, InBucket
<1>2. (\A w \in Workers : Held(w)) /\ Gathered /\ Complete BY DEF Places
<1>3. \A w \in Workers : Held(w)' BY <1>1, <1>2 DEF Held
<1>4. Gathered' BY <1>1, <1>2 DEF Gathered
<1>5. \A r \in Current : Hash[r] \in Workers BY AggregationAssumption DEF Current, R
<1>6. Complete' BY <1>1, <1>2, <1>5 DEF Complete
<1> QED BY <1>3, <1>4, <1>6 DEF Places

LEMMA NextPlaces == Typed /\ Routing /\ Window /\ Places /\ Touches => Places'
<1> SUFFICES ASSUME TypedControl, TypedData, Routing, Window, Places, Touches, dpc' \in Loop
             PROVE  Places'
  BY DEF Typed, Places
<1>1. CASE Feed \/ Outside
  <2>1. UNCHANGED <<dpc, inbox, bucket, reports, merged, routedIn, windowId>>
    BY <1>1 DEF Feed, Outside, dispVars, workerVars
  <2>2. Reduced' = Reduced /\ \A w \in Workers : InInbox(w)' = InInbox(w)
    BY <2>1 DEF Reduced, InInbox
  <2>3. dpc' \in {"collect", "publish"} => Distinct(merged')
    BY <2>1 DEF Places, Gathered
  <2> QED BY <2>1, <2>2, <2>3, SamePlaces
<1>2. CASE Top \/ TestDrained \/ Pop \/ Tick
  <2>1. /\ dpc \in Open /\ dpc' \in Open \cup {"rotate"}
        /\ UNCHANGED <<inbox, bucket, reports, routedIn, windowId>>
    BY <1>2 DEF Top, TestDrained, Pop, Tick, Loop, Open, Closing, workerVars
  <2>2. Reduced' = Reduced /\ \A w \in Workers : InInbox(w)' = InInbox(w)
    BY <2>1 DEF Reduced, InInbox, Open
  <2> QED BY <2>1, <2>2, SamePlaces DEF Loop, Open
<1>3. CASE Route
  <2>1. /\ cur \in R /\ dpc = "route" /\ dpc' = "tick" /\ UNCHANGED <<bucket, reports, windowId>>
        /\ routedIn' = [routedIn EXCEPT ![cur] = windowId]
    BY <1>3, FirstWorker DEF Route, TypedControl, R
  <2>2. PICK c \in R : c = cur BY <2>1
  <2>3. PICK h \in Workers : h = Hash[c] BY AggregationAssumption DEF R
  <2>4. /\ inbox'[h] = Append(inbox[h], Data(c)) /\ inbox[h] \in Seq(Messages)
        /\ \A v \in Workers : v # h => inbox'[v] = inbox[v]
    BY <1>3, <2>2, <2>3, DeliverIs, MessageIs DEF Route, TypedData
  <2>5. SeqRange(inbox'[h]) = SeqRange(inbox[h]) \cup {Data(c)}
    BY <2>4, AppendIs, MessageIs
  <2>6. c \notin Current
    <3>1. routedIn[c] = NotRouted BY <2>1, <2>2 DEF Routing
    <3> QED BY <3>1, FirstWorker DEF Current, TypedControl, NotRouted
  <2>7. Current' = Current \cup {c} BY <2>1, <2>2 DEF Current, TypedData
  <2>8. InInbox(h)' = InInbox(h) \cup {c} BY <2>5, MessageIs DEF InInbox
  <2>9. \A v \in Workers : v # h => InInbox(v)' = InInbox(v) BY <2>4 DEF InInbox
  <2>10. /\ Reduced = {} /\ Reduced' = {} /\ InReports' = InReports
         /\ \A v \in Workers : InBucket(v)' = InBucket(v)
    BY <2>1 DEF Reduced, InReports, InBucket
  <2>11. (\A w \in Workers : Held(w)) /\ Gathered /\ Complete
    BY <2>1 DEF Places, Loop, Open
  <2>12. c \notin InReports /\ c \notin InBucket(h)
    BY <2>6, <2>11 DEF Held, Gathered
  <2>13. Held(h)' BY <2>1, <2>3, <2>7, <2>8, <2>10, <2>11, <2>12 DEF Held
  <2>14. ASSUME NEW v \in Workers, v # h PROVE Held(v)'
    BY <2>1, <2>7, <2>9, <2>10, <2>11, <2>14 DEF Held
  <2>15. Gathered' BY <2>1, <2>7, <2>10, <2>11 DEF Gathered
  <2>16. \A r \in Current : Hash[r] \in Workers BY AggregationAssumption DEF Current, R
  <2>17. Complete'
    BY <2>3, <2>7, <2>8, <2>9, <2>10, <2>11, <2>16 DEF Complete
  <2> QED BY <2>13, <2>14, <2>15, <2>17 DEF Places
<1>4. CASE Fail \/ SendStop
  BY <1>4 DEF Fail, SendStop, Loop, Open, Closing
<1>5. CASE SendRotate
  <2>1. /\ dpc = "rotate" /\ dpc' \in {"rotate", "collect"} /\ merged' = <<>>
        /\ UNCHANGED <<bucket, reports, routedIn, windowId>>
    BY <1>5 DEF SendRotate
  <2>2. PICK h \in Workers : h = next
    <3>1. next \in 1 .. W BY <2>1, FirstWorker DEF TypedControl
    <3> QED BY <3>1 DEF Workers
  <2>3. /\ inbox'[h] = Append(inbox[h], Rotate) /\ inbox[h] \in Seq(Messages)
        /\ \A v \in Workers : v # h => inbox'[v] = inbox[v]
    BY <1>5, <2>2, DeliverIs, MessageIs DEF SendRotate, TypedData
  <2>4. SeqRange(inbox'[h]) = SeqRange(inbox[h]) \cup {Rotate}
    BY <2>3, AppendIs, MessageIs
  <2>5. InInbox(h)' = InInbox(h) BY <2>4, MessageIs DEF InInbox
  <2>6. \A w \in Workers : InInbox(w)' = InInbox(w) BY <2>3, <2>5 DEF InInbox
  <2>7. Reduced = {} /\ Reduced' = {} BY <2>1, EmptyIs DEF Reduced
  <2>8. Distinct(merged') BY <2>1, EmptyIs
  <2> QED BY <2>1, <2>6, <2>7, <2>8, SamePlaces DEF Loop, Closing
<1>6. CASE Collect
  <2>1. /\ dpc = "collect" /\ dpc' \in {"collect", "publish"} /\ reports # <<>>
        /\ merged' = merged \o Head(reports) /\ reports' = Tail(reports)
        /\ UNCHANGED <<inbox, bucket, routedIn, windowId>>
    BY <1>6 DEF Collect
  <2>2. PICK b \in Seq(R) : b = Head(reports) BY <2>1, TailIs DEF TypedData
  <2>3. /\ b = reports[1] /\ 1 \in DOMAIN reports /\ reports' \in Seq(Seq(R))
        /\ SeqRange(reports) = SeqRange(reports') \cup {b}
        /\ \A k \in DOMAIN reports' : k + 1 \in DOMAIN reports /\ reports'[k] = reports[k + 1]
    BY <2>1, <2>2, TailIs DEF TypedData
  <2>4. (\A w \in Workers : Held(w)) /\ Gathered /\ Complete
    BY <2>1 DEF Places, Loop, Closing
  <2>5. DOMAIN reports' \subseteq Nat \ {0} BY <2>3
  <2>6. \A k \in DOMAIN reports' : SeqRange(b) \cap SeqRange(reports'[k]) = {}
    <3> SUFFICES ASSUME NEW k \in DOMAIN reports'
                 PROVE  SeqRange(b) \cap SeqRange(reports'[k]) = {}
      OBVIOUS
    <3>1. k + 1 # 1 BY <2>5
    <3> QED BY <3>1, <2>3, <2>4 DEF Gathered
  <2>7. InReports = InReports' \cup SeqRange(b) /\ InReports' \cap SeqRange(b) = {}
    <3>1. InReports = UNION {SeqRange(x) : x \in SeqRange(reports)}
      BY DEF InReports, SeqRange
    <3>2. InReports' = UNION {SeqRange(x) : x \in SeqRange(reports')}
      BY DEF InReports, SeqRange
    <3>3. \A x \in SeqRange(reports') : SeqRange(b) \cap SeqRange(x) = {} BY <2>6 DEF SeqRange
    <3> QED BY <3>1, <3>2, <3>3, <2>3
  <2>8. /\ Reduced = SeqRange(merged) /\ Reduced' = Reduced \cup SeqRange(b)
        /\ Distinct(merged')
    <3>1. Distinct(b) /\ Distinct(merged) /\ SeqRange(merged) \cap SeqRange(b) = {}
      BY <2>1, <2>3, <2>4, <2>7 DEF Gathered, Reduced
    <3>2. merged \in Seq(R) BY DEF TypedData
    <3> QED BY <2>1, <2>2, <3>1, <3>2, ConcatIs DEF Reduced
  <2>9. /\ Current' = Current
        /\ \A w \in Workers : InInbox(w)' = InInbox(w) /\ InBucket(w)' = InBucket(w)
    BY <2>1 DEF Current, InInbox, InBucket
  <2>10. InReports \cup Reduced = InReports' \cup Reduced' BY <2>7, <2>8
  <2>11. \A w \in Workers : Held(w)' BY <2>1, <2>4, <2>9, <2>10 DEF Held
  <2>12. \A j, k \in DOMAIN reports' :
           j # k => SeqRange(reports'[j]) \cap SeqRange(reports'[k]) = {}
    <3> SUFFICES ASSUME NEW j \in DOMAIN reports', NEW k \in DOMAIN reports', j # k
                 PROVE  SeqRange(reports'[j]) \cap SeqRange(reports'[k]) = {}
      OBVIOUS
    <3>1. j + 1 # k + 1 BY <2>5
    <3> QED BY <3>1, <2>3, <2>4 DEF Gathered
  <2>13. \A k \in DOMAIN reports' : Distinct(reports'[k]) BY <2>3, <2>4 DEF Gathered
  <2>14. InReports' \cup Reduced' \subseteq Current' /\ InReports' \cap Reduced' = {}
    BY <2>4, <2>7, <2>8, <2>9 DEF Gathered
  <2>15. Gathered' BY <2>8, <2>12, <2>13, <2>14 DEF Gathered
  <2>16. \A r \in Current : Hash[r] \in Workers BY AggregationAssumption DEF Current, R
  <2>17. Complete' BY <2>4, <2>9, <2>10, <2>16 DEF Complete
  <2> QED BY <2>11, <2>15, <2>17 DEF Places
<1>7. CASE Publish
  <2>1. /\ dpc = "publish" /\ dpc' = "top" /\ ~last /\ windowId' = windowId + 1
        /\ UNCHANGED <<inbox, bucket, reports, routedIn>>
    BY <1>7 DEF Publish, Loop, Open, Closing, workerVars
  <2>2. Owing = {} /\ reports = <<>> BY <2>1, NobodyOwes
  <2>3. \A w \in Workers : inbox[w] = <<>> /\ bucket[w] = <<>>
    BY <2>1, <2>2 DEF Window, Settled, Asked, Loop, Closing
  <2>4. \A w \in Workers : InInbox(w)' = {} /\ InBucket(w)' = {}
    BY <2>1, <2>3, EmptyIs DEF InInbox, InBucket
  <2>5. DOMAIN reports' = {} /\ InReports' = {} /\ Reduced' = {}
    BY <2>1, <2>2 DEF InReports, Reduced
  <2>6. Current' = {}
    <3>1. windowId \in Nat /\ windowId + 1 # NotRouted
      BY <2>1, FirstWorker DEF TypedControl, Closing, NotRouted
    <3>2. ASSUME NEW r \in R PROVE routedIn[r] # windowId + 1
      <4>1. routedIn[r] # NotRouted => routedIn[r] <= windowId /\ routedIn[r] \in Int
        BY DEF Routing, TypedData
      <4> QED BY <3>1, <4>1
    <3> QED BY <3>2, <2>1 DEF Current
  <2>7. \A w \in Workers : Held(w)'
    BY <2>1, <2>3, <2>4, EmptyIs DEF Held
  <2> QED BY <2>1, <2>5, <2>6, <2>7 DEF Places, Gathered, Complete
<1>8. ASSUME NEW w \in Workers, Worker(w) PROVE Places'
  <2>1. UNCHANGED <<dpc, merged, routedIn, windowId>> /\ dpc \in Loop
    BY <1>8 DEF Worker, CheckFlag, Receive, Report, Disconnected, dispVars
  <2>2. Reduced' = Reduced /\ Current' = Current BY <2>1 DEF Reduced, Current
  <2>3. (\A v \in Workers : Held(v)) /\ Gathered /\ Complete BY <2>1 DEF Places
  <2>4. dpc' \in {"collect", "publish"} => Distinct(merged') BY <2>1, <2>3 DEF Gathered
  <2>5. \A r \in Current : Hash[r] \in Workers BY AggregationAssumption DEF Current, R
  <2>6. CASE CheckFlag(w) \/ Disconnected(w)
    <3>1. UNCHANGED <<inbox, bucket, reports>> BY <2>6 DEF CheckFlag, Disconnected
    <3>2. \A v \in Workers : InInbox(v)' = InInbox(v) BY <3>1 DEF InInbox
    <3> QED BY <2>1, <2>2, <2>4, <3>1, <3>2, SamePlaces
  <2>7. CASE Receive(w)
    <3>1. /\ inbox[w] \in Seq(Messages) /\ inbox[w] # <<>> /\ UNCHANGED reports
          /\ inbox'[w] = Tail(inbox[w]) /\ \A v \in Workers : v # w => inbox'[v] = inbox[v]
      BY <2>7, ReceiveIs DEF Receive
    <3>2. PICK m \in Messages : m = Head(inbox[w]) BY <2>7, ReceiveIs
    <3>3. SeqRange(inbox[w]) = SeqRange(inbox'[w]) \cup {m} /\ m \notin SeqRange(inbox'[w])
      BY <2>1, <3>1, <3>2, TailIs DEF Window, Settled
    <3>4. \A v \in Workers : v # w => InInbox(v)' = InInbox(v) BY <3>1 DEF InInbox
    <3>5. InReports' = InReports BY <3>1 DEF InReports
    <3>6. CASE m.kind = "data"
      <4>1. PICK r \in R : r = m.reading /\ m = Data(r) BY <3>6, KindIs
      <4>2. bucket' = [bucket EXCEPT ![w] = Append(@, r)] /\ bucket[w] \in Seq(R)
        BY <2>7, <3>2, <3>6, <4>1 DEF Receive, TypedData
      <4>3. \A v \in Workers : bucket'[v] = IF v = w THEN Append(bucket[w], r) ELSE bucket[v]
        BY <4>2 DEF TypedData
      <4>4. r \in InInbox(w) /\ InInbox(w)' = InInbox(w) \ {r}
        BY <3>3, <4>1, MessageIs DEF InInbox
      <4>5. r \notin InBucket(w) BY <2>3, <4>4 DEF Held
      <4>6. InBucket(w)' = InBucket(w) \cup {r} /\ Distinct(bucket'[w])
        BY <2>3, <4>2, <4>3, <4>5, AppendIs DEF InBucket, Held
      <4>7. \A v \in Workers : v # w => InBucket(v)' = InBucket(v) BY <4>3 DEF InBucket
      <4>8. Held(w)' BY <2>2, <2>3, <3>5, <4>4, <4>5, <4>6 DEF Held
      <4>9. ASSUME NEW v \in Workers, v # w PROVE Held(v)'
        BY <2>2, <2>3, <3>4, <3>5, <4>3, <4>7, <4>9 DEF Held
      <4>10. Gathered' BY <2>2, <2>3, <2>4, <3>1, <3>5 DEF Gathered
      <4>11. Complete'
        BY <2>2, <2>3, <2>5, <3>4, <3>5, <4>4, <4>6, <4>7 DEF Complete
      <4> QED BY <4>8, <4>9, <4>10, <4>11 DEF Places
    <3>7. CASE m.kind # "data"
      <4>1. \A r : m # Data(r) BY <3>7 DEF Data
      <4>2. InInbox(w)' = InInbox(w) BY <3>3, <4>1 DEF InInbox
      <4>3. bucket' = bucket BY <2>7, <3>2, <3>7 DEF Receive
      <4> QED BY <2>1, <2>2, <2>4, <3>1, <3>4, <4>2, <4>3, SamePlaces
    <3> QED BY <3>6, <3>7
  <2>8. CASE Report(w)
    <3>1. /\ reports' = Append(reports, bucket[w]) /\ bucket' = [bucket EXCEPT ![w] = <<>>]
          /\ UNCHANGED inbox /\ bucket[w] \in Seq(R) /\ reports \in Seq(Seq(R))
      BY <2>8 DEF Report, TypedData
    <3>2. \A v \in Workers : bucket'[v] = IF v = w THEN <<>> ELSE bucket[v]
      BY <3>1 DEF TypedData
    <3>3. /\ SeqRange(reports') = SeqRange(reports) \cup {bucket[w]}
          /\ DOMAIN reports' = DOMAIN reports \cup {Len(reports) + 1}
          /\ reports'[Len(reports) + 1] = bucket[w]
          /\ \A k \in DOMAIN reports : reports'[k] = reports[k]
      BY <3>1, AppendIs
    <3>4. InReports' = InReports \cup InBucket(w)
      <4>1. InReports = UNION {SeqRange(x) : x \in SeqRange(reports)}
        BY DEF InReports, SeqRange
      <4>2. InReports' = UNION {SeqRange(x) : x \in SeqRange(reports')}
        BY DEF InReports, SeqRange
      <4> QED BY <4>1, <4>2, <3>3 DEF InBucket
    <3>5. InBucket(w)' = {} /\ Distinct(bucket'[w]) BY <3>2, EmptyIs DEF InBucket
    <3>6. \A v \in Workers : InInbox(v)' = InInbox(v) /\ (v # w => InBucket(v)' = InBucket(v))
      BY <3>1, <3>2 DEF InInbox, InBucket
    <3>7. InBucket(w) \cap (InReports \cup Reduced) = {} /\ InBucket(w) \subseteq Current
      BY <2>3 DEF Held
    <3>8. Held(w)' BY <2>2, <2>3, <3>4, <3>5, <3>6 DEF Held
    <3>9. ASSUME NEW v \in Workers, v # w PROVE Held(v)'
      <4>1. (InInbox(v) \cup InBucket(v)) \cap InBucket(w) = {} BY <2>3, <3>9 DEF Held
      <4> QED BY <2>2, <2>3, <3>2, <3>4, <3>6, <3>9, <4>1 DEF Held
    <3>10. \A k \in DOMAIN reports : SeqRange(reports[k]) \cap SeqRange(bucket[w]) = {}
      BY <3>7 DEF InReports, InBucket
    <3>11. \A j, k \in DOMAIN reports' :
             j # k => SeqRange(reports'[j]) \cap SeqRange(reports'[k]) = {}
      BY <2>3, <3>3, <3>10 DEF Gathered
    <3>12. \A k \in DOMAIN reports' : Distinct(reports'[k])
      BY <2>3, <3>3 DEF Gathered, Held
    <3>13. InReports' \cup Reduced' \subseteq Current' /\ InReports' \cap Reduced' = {}
      BY <2>2, <2>3, <3>4, <3>7 DEF Gathered
    <3>14. Gathered' BY <2>4, <3>11, <3>12, <3>13 DEF Gathered
    <3>15. Complete' BY <2>2, <2>3, <2>5, <3>4, <3>6 DEF Complete
    <3> QED BY <3>8, <3>9, <3>14, <3>15 DEF Places
  <2> QED BY <1>8, <2>6, <2>7, <2>8 DEF Worker
<1> QED BY <1>1, <1>2, <1>3, <1>4, <1>5, <1>6, <1>7, <1>8 DEF Touches

-----------------------------------------------------------------------------
LEMMA DistinctLen ==
  ASSUME NEW S, NEW s \in Seq(S), Distinct(s)
  PROVE  Cardinality(SeqRange(s)) = Len(s)
<1>1. Len(s) \in Nat /\ DOMAIN s = 1 .. Len(s) OBVIOUS
<1>2. s \in [1 .. Len(s) -> SeqRange(s)] BY <1>1 DEF SeqRange
<1>3. \A y \in SeqRange(s) : \E k \in 1 .. Len(s) : s[k] = y BY <1>1 DEF SeqRange
<1>4. \A j, k \in 1 .. Len(s) : s[j] = s[k] => j = k BY <1>1 DEF Distinct
<1>5. s \in Bijection(1 .. Len(s), SeqRange(s))
  BY <1>2, <1>3, <1>4 DEF Bijection, Injection, Surjection, IsInjective
<1> QED BY <1>1, <1>5, FS_CountingElements DEF ExistsBijection

\* What the dispatcher publishes: the readings of the window, each once.
LEMMA MergedIsWindow ==
  ASSUME TypedControl, TypedData, Window, Places, dpc = "publish"
  PROVE  SeqRange(merged) = Current /\ Len(merged) = Cardinality(Current)
<1>1. Owing = {} /\ reports = <<>> BY NobodyOwes
<1>2. \A w \in Workers : inbox[w] = <<>> /\ bucket[w] = <<>>
  BY <1>1 DEF Window, Settled, Asked, Loop, Closing
<1>3. \A w \in Workers : InInbox(w) = {} /\ InBucket(w) = {}
  BY <1>2, EmptyIs DEF InInbox, InBucket
<1>4. DOMAIN reports = {} /\ InReports = {} /\ Reduced = SeqRange(merged)
  BY <1>1 DEF InReports, Reduced
<1>5. Gathered /\ Complete BY DEF Places, Loop, Closing
<1>6. \A r \in Current : Hash[r] \in Workers BY AggregationAssumption DEF Current, R
<1>7. SeqRange(merged) = Current BY <1>3, <1>4, <1>5, <1>6 DEF Gathered, Complete
<1>8. Distinct(merged) /\ merged \in Seq(R) BY <1>5 DEF Gathered, TypedData
<1> QED BY <1>7, <1>8, DistinctLen

LEMMA NextSequel == Typed /\ Sequel /\ Touches => Sequel'
<1> SUFFICES ASSUME TypedControl, TypedData, Sequel, Touches PROVE Sequel'
  BY DEF Typed
<1>1. CASE Publish
  <2> DEFINE f == [id |-> windowId, data |-> merged]
  <2>1. dpc = "publish" /\ published' = Append(published, f) /\ published \in Seq(Frames)
    BY <1>1 DEF Publish, TypedData
  <2>2. f \in Frames /\ f.id = windowId BY DEF TypedControl, TypedData, Frames
  <2> HIDE DEF f
  <2>3. Len(published) = windowId /\ NoGap BY <2>1 DEF Sequel, Loop, Closing
  <2>4. /\ Len(published') = Len(published) + 1 /\ published'[Len(published) + 1] = f
        /\ DOMAIN published' = DOMAIN published \cup {Len(published) + 1}
        /\ \A k \in DOMAIN published : published'[k] = published[k]
    BY <2>1, <2>2, AppendIs
  <2>5. NoGap' BY <2>2, <2>3, <2>4 DEF NoGap, TypedControl
  <2>6. \/ dpc' = "stop" /\ windowId' = windowId
        \/ dpc' = "top" /\ windowId' = windowId + 1
    BY <1>1 DEF Publish
  <2> QED BY <2>3, <2>4, <2>5, <2>6, FirstWorker DEF Sequel, Loop, Open, Closing, TypedControl
<1>2. CASE ~Publish
  <2>1. UNCHANGED <<published, windowId>> /\ (dpc' \in Loop => dpc \in Loop)
    BY <1>2 DEF Touches, Feed, Outside, Top, TestDrained, Pop, Route, Fail, Tick, SendRotate,
                Collect, SendStop, Worker, CheckFlag, Receive, Report, Disconnected,
                outVars, dispVars, Loop, Open, Closing
  <2> QED BY <2>1 DEF Sequel, NoGap
<1> QED BY <1>1, <1>2

LEMMA NextFrames ==
  Typed /\ Routing /\ Window /\ Places /\ Sequel /\ NoPartialFrame /\ Touches => NoPartialFrame'
<1> SUFFICES ASSUME TypedControl, TypedData, Routing, Window, Places, Sequel, NoPartialFrame, Touches
             PROVE  NoPartialFrame'
  BY DEF Typed
<1>1. CASE Publish
  <2> DEFINE f == [id |-> windowId, data |-> merged]
  <2>1. dpc = "publish" /\ published' = Append(published, f) /\ published \in Seq(Frames)
        /\ routedIn' = routedIn
    BY <1>1 DEF Publish, TypedData
  <2>2. f \in Frames /\ f.id = windowId /\ f.data = merged
    BY DEF TypedControl, TypedData, Frames
  <2> HIDE DEF f
  <2>3. /\ published'[Len(published) + 1] = f
        /\ DOMAIN published' = DOMAIN published \cup {Len(published) + 1}
        /\ \A k \in DOMAIN published : published'[k] = published[k]
    BY <2>1, <2>2, AppendIs
  <2>4. SeqRange(merged) = Current /\ Len(merged) = Cardinality(Current)
    BY <2>1, MergedIsWindow
  <2>5. ASSUME NEW k \in DOMAIN published'
        PROVE  /\ SeqRange(published'[k].data) = {r \in R : routedIn'[r] = published'[k].id}
               /\ Len(published'[k].data) = Cardinality({r \in R : routedIn'[r] = published'[k].id})
    <3>1. CASE k = Len(published) + 1
      <4>1. Current = {r \in R : routedIn'[r] = f.id} BY <2>1, <2>2 DEF Current
      <4> QED BY <2>2, <2>3, <2>4, <3>1, <4>1
    <3>2. CASE k \in DOMAIN published
      <4>1. {r \in R : routedIn'[r] = published'[k].id} = {r \in R : routedIn[r] = published[k].id}
        BY <2>1, <2>3, <3>2
      <4> QED BY <2>3, <3>2, <4>1 DEF NoPartialFrame, R
    <3> QED BY <2>3, <3>1, <3>2
  <2> QED BY <2>5 DEF NoPartialFrame, R
<1>2. CASE Route
  <2>1. /\ cur \in R /\ dpc = "route" /\ UNCHANGED published
        /\ routedIn' = [routedIn EXCEPT ![cur] = windowId]
    BY <1>2, FirstWorker DEF Route, TypedControl, R, outVars
  <2>2. routedIn[cur] = NotRouted BY <2>1 DEF Routing
  <2>3. Len(published) = windowId /\ NoGap /\ DOMAIN published = 1 .. Len(published)
    BY <2>1 DEF Sequel, Loop, Open, TypedData
  <2>4. \A k \in DOMAIN published : published[k].id # windowId /\ published[k].id # NotRouted
    BY <2>3, FirstWorker DEF NoGap, TypedControl, NotRouted
  <2>5. \A r \in R : routedIn'[r] = IF r = cur THEN windowId ELSE routedIn[r]
    BY <2>1 DEF TypedData
  <2>6. \A k \in DOMAIN published :
          {r \in R : routedIn'[r] = published[k].id} = {r \in R : routedIn[r] = published[k].id}
    BY <2>2, <2>4, <2>5
  <2> QED BY <2>1, <2>6 DEF NoPartialFrame, R
<1>3. CASE ~Publish /\ ~Route
  <2>1. UNCHANGED <<published, routedIn>>
    BY <1>3 DEF Touches, Feed, Outside, Top, TestDrained, Pop, Fail, Tick, SendRotate,
                Collect, SendStop, Worker, CheckFlag, Receive, Report, Disconnected, outVars
  <2> QED BY <2>1 DEF NoPartialFrame
<1> QED BY <1>1, <1>2, <1>3

LEMMA NextEnding == Typed /\ Routing /\ Sequel /\ Ending /\ Touches => Ending'
<1> SUFFICES ASSUME TypedControl, TypedData, Routing, Sequel, Ending, Touches PROVE Ending'
  BY DEF Typed
<1>1. CASE Top \/ (dpc \in Loop /\ Fail)
  <2>1. dpc' \in {"stop", "drained"} /\ (dpc' = "stop" => shutdown' = TRUE)
    BY <1>1 DEF Top, Fail, TypedControl
  <2> QED BY <2>1 DEF Ending, Closing
<1>2. CASE TestDrained
  <2>1. /\ dpc = "drained" /\ last' = Drained /\ UNCHANGED <<source, sourceClosed, fed, shutdown, published, routedIn>>
        /\ dpc' = IF ~Drained THEN "pop" ELSE IF sawData THEN "rotate" ELSE "stop"
    BY <1>2 DEF TestDrained, sourceVars, outVars
  <2>2. Drained' = Drained BY <2>1 DEF Drained
  <2>3. CASE dpc' = "stop"
    <3>1. Drained /\ ~sawData BY <2>1, <2>3
    <3>2. source = <<>> /\ fed \in 0 .. Readings BY <3>1 DEF Drained, TypedControl
    <3>3. Popped = fed BY <3>2, EmptyIs DEF Popped
    <3>4. Len(published) = windowId BY <2>1 DEF Sequel, Loop, Open
    <3>5. ASSUME NEW r \in 1 .. fed PROVE routedIn'[r] < Len(published')
      <4>1. r \in R BY <3>2, FirstWorker DEF R
      <4>2. routedIn[r] # NotRouted /\ routedIn[r] <= windowId /\ routedIn[r] # windowId
        BY <2>1, <3>1, <3>3, <4>1 DEF Routing, Loop, Open
      <4>3. routedIn[r] \in Int /\ windowId \in Int BY <4>1, FirstWorker DEF TypedData, TypedControl
      <4> QED BY <2>1, <3>4, <4>2, <4>3
    <3> QED BY <2>1, <2>2, <2>3, <3>1, <3>5 DEF Ending, Closing
  <2>4. CASE dpc' # "stop"
    <3>1. dpc' = "rotate" => Drained BY <2>1
    <3>2. dpc' \in {"pop", "rotate"} BY <2>1, <2>4
    <3> QED BY <2>1, <2>2, <3>1, <3>2 DEF Ending, Closing
  <2> QED BY <2>3, <2>4
<1>3. CASE Publish
  <2>1. /\ dpc = "publish" /\ UNCHANGED <<source, sourceClosed, fed, shutdown, routedIn>>
        /\ \E f : published' = Append(published, f)
        /\ dpc' = IF last THEN "stop" ELSE "top"
    BY <1>3 DEF Publish, sourceVars
  <2>2. Drained' = Drained BY <2>1 DEF Drained
  <2>3. CASE last
    <3>1. Drained BY <2>1, <2>3 DEF Ending, Closing
    <3>2. source = <<>> /\ fed \in 0 .. Readings BY <3>1 DEF Drained, TypedControl
    <3>3. Popped = fed BY <3>2, EmptyIs DEF Popped
    <3>4. Len(published') = windowId + 1 BY <2>1 DEF Sequel, Loop, Closing, TypedData
    <3>5. ASSUME NEW r \in 1 .. fed PROVE routedIn'[r] < Len(published')
      <4>1. r \in R BY <3>2, FirstWorker DEF R
      <4>2. routedIn[r] # NotRouted /\ routedIn[r] <= windowId
        BY <2>1, <3>3, <4>1 DEF Routing, Loop, Closing
      <4>3. routedIn[r] \in Int /\ windowId \in Int BY <4>1, FirstWorker DEF TypedData, TypedControl
      <4> QED BY <2>1, <3>4, <4>2, <4>3
    <3> QED BY <2>1, <2>2, <2>3, <3>1, <3>5 DEF Ending, Closing
  <2>4. CASE ~last
    BY <2>1, <2>4 DEF Ending, Closing
  <2> QED BY <2>3, <2>4
<1>4. CASE Pop \/ Route
  BY <1>4 DEF Pop, Route, Ending, Closing
<1>5. CASE Tick
  BY <1>5 DEF Tick, Ending, Closing
<1>6. CASE Feed \/ Outside \/ SendRotate \/ Collect \/ SendStop \/ \E w \in Workers : Worker(w)
  <2>1. /\ UNCHANGED <<last, published, routedIn>>
        /\ (dpc' \in Closing => dpc \in Closing)
        /\ (dpc' \in {"stop", "exited"} => dpc \in {"stop", "exited"})
    BY <1>6 DEF Feed, Outside, SendRotate, Collect, SendStop, Worker, CheckFlag, Receive, Report,
                Disconnected, outVars, dispVars, Closing
  <2>2. /\ shutdown' = shutdown \/ shutdown' = TRUE
        /\ sourceClosed' = sourceClosed \/ sourceClosed' = TRUE
        /\ sourceClosed => UNCHANGED <<source, fed>>
    BY <1>6 DEF Feed, Outside, SendRotate, Collect, SendStop, Worker, CheckFlag, Receive, Report,
                Disconnected, sourceVars
  <2>3. Drained => Drained' /\ fed' = fed BY <2>2 DEF Drained
  <2> QED BY <2>1, <2>2, <2>3 DEF Ending
<1> QED BY <1>1, <1>2, <1>3, <1>4, <1>5, <1>6 DEF Touches

-----------------------------------------------------------------------------
LEMMA InitInv == Init => Inv
<1> SUFFICES ASSUME Init PROVE Inv OBVIOUS
<1>1. published = <<>> /\ dpc = "top" /\ windowId = 0 BY DEF Init
<1>2. DOMAIN published = {} /\ Len(published) = 0 BY <1>1
<1>3. Sequel /\ NoPartialFrame /\ Ending
  BY <1>1, <1>2 DEF Sequel, NoGap, NoPartialFrame, Ending, Loop, Open, Closing
<1> QED BY <1>3, InitTyped, InitRouting, InitWindow, InitPlaces DEF Inv

LEMMA NextInv == Inv /\ [Next]_vars => Inv'
<1> SUFFICES ASSUME Inv, Touches PROVE Inv'
  BY StepIs
<1>1. Typed' BY NextControl, NextData DEF Inv, Typed
<1> QED BY <1>1, NextRouting, NextWindow, NextPlaces, NextSequel, NextEnding, NextFrames DEF Inv

LEMMA InvHolds == Spec => []Inv
BY InitInv, NextInv, PTL DEF Spec

\* A frame on its way to the consumer holds exactly the readings routed in its
\* window, each once, for any number of workers and whatever comes late
\* (emit_window and reduce_window_reports).
THEOREM NoPartialFrameHolds == Spec => []NoPartialFrame
<1>1. Inv => NoPartialFrame BY DEF Inv
<1> QED BY <1>1, InvHolds, PTL

\* Frames follow each other without a gap: a window that could not be completed
\* is the last.
THEOREM NoGapHolds == Spec => []NoGap
<1>1. Inv => NoGap BY DEF Inv, Sequel
<1> QED BY <1>1, InvHolds, PTL

\* A dispatcher that leaves with the flag down has published everything that was
\* ever pushed (source_drained and the final emit_window).
THEOREM CleanExitPublishesAllHolds == Spec => []CleanExitPublishesAll
<1>1. ASSUME Inv, dpc = "exited", ~shutdown
      PROVE  UNION {SeqRange(published[k].data) : k \in DOMAIN published} = 1 .. fed
  <2>1. TypedControl /\ TypedData /\ Routing /\ NoGap /\ NoPartialFrame
    BY <1>1 DEF Inv, Typed, Sequel
  <2>2. Drained /\ \A r \in 1 .. fed : routedIn[r] < Len(published)
    BY <1>1 DEF Inv, Ending
  <2>3. Len(published) \in Nat /\ DOMAIN published = 1 .. Len(published) BY <2>1 DEF TypedData
  <2>4. source = <<>> /\ fed \in 0 .. Readings /\ 1 .. fed \subseteq R
    BY <2>1, <2>2, FirstWorker DEF Drained, TypedControl, R
  <2>5. Popped = fed BY <2>4, EmptyIs DEF Popped
  <2>6. ASSUME NEW r \in 1 .. fed
        PROVE  \E k \in DOMAIN published : r \in SeqRange(published[k].data)
    <3>1. r \in R /\ routedIn[r] \in Nat BY <2>1, <2>4, FirstWorker DEF TypedData, NotRouted
    <3>2. routedIn[r] + 1 \in DOMAIN published BY <2>2, <2>3, <3>1
    <3>3. published[routedIn[r] + 1].id = routedIn[r] BY <2>1, <3>1, <3>2 DEF NoGap
    <3> QED BY <2>1, <3>1, <3>2, <3>3 DEF NoPartialFrame, R
  <2>7. ASSUME NEW k \in DOMAIN published, NEW r \in SeqRange(published[k].data)
        PROVE  r \in 1 .. fed
    <3>1. published[k] \in Frames BY <2>1 DEF TypedData
    <3>2. published[k].id # NotRouted BY <3>1, FirstWorker DEF Frames, NotRouted
    <3>3. r \in R /\ routedIn[r] = published[k].id BY <2>1 DEF NoPartialFrame, R
    <3>4. r <= Popped BY <2>1, <3>2, <3>3 DEF Routing
    <3> QED BY <2>4, <2>5, <3>3, <3>4, FirstWorker DEF R
  <2> QED BY <2>6, <2>7
<1>2. Inv => CleanExitPublishesAll BY <1>1 DEF CleanExitPublishesAll
<1> QED BY <1>2, InvHolds, PTL

-----------------------------------------------------------------------------
\* What the frames cover: the readings from the first on, as many as there are.
Shown(p) == UNION {SeqRange(p[k].data) : k \in DOMAIN p}

Covers == \E c \in 0 .. fed : Shown(published) = 1 .. c

LEMMA ShownIs ==
  ASSUME NEW p \in Seq(Frames), NEW f \in Frames
  PROVE  /\ Shown(Append(p, f)) = Shown(p) \cup SeqRange(f.data)
         /\ Shown(p) = UNION {Log(p)[k].readings : k \in DOMAIN Log(p)}
         /\ Len(Log(p)) = Len(p)
         /\ Log(Append(p, f)) = Append(Log(p), Seen(f))
<1> DEFINE q == Append(p, f)
           S == {Seen(g) : g \in Frames}
<1>1. /\ Len(p) \in Nat /\ DOMAIN p = 1 .. Len(p)
      /\ q \in Seq(Frames) /\ Len(q) = Len(p) + 1 /\ DOMAIN q = 1 .. Len(p) + 1
      /\ q[Len(p) + 1] = f /\ \A k \in DOMAIN p : q[k] = p[k]
  <2>1. q \in Seq(Frames) /\ Len(q) = Len(p) + 1 BY AppendIs
  <2>2. q[Len(p) + 1] = f /\ \A k \in DOMAIN p : q[k] = p[k] BY AppendIs
  <2> QED BY <2>1, <2>2
<1> HIDE DEF q
<1>2. \A k : k \in DOMAIN q <=> k \in DOMAIN p \/ k = Len(p) + 1
  BY <1>1
<1>3. Shown(q) = Shown(p) \cup SeqRange(f.data)
  <2>1. ASSUME NEW r \in Shown(q) PROVE r \in Shown(p) \cup SeqRange(f.data)
    <3>1. PICK k \in DOMAIN q : r \in SeqRange(q[k].data) BY <2>1 DEF Shown
    <3> QED BY <1>1, <1>2, <3>1 DEF Shown
  <2>2. ASSUME NEW r \in Shown(p) PROVE r \in Shown(q)
    <3>1. PICK k \in DOMAIN p : r \in SeqRange(p[k].data) BY <2>2 DEF Shown
    <3>2. k \in DOMAIN q /\ q[k] = p[k] BY <1>1, <1>2
    <3> QED BY <3>1, <3>2 DEF Shown
  <2>3. ASSUME NEW r \in SeqRange(f.data) PROVE r \in Shown(q)
    <3>1. Len(p) + 1 \in DOMAIN q BY <1>2
    <3> QED BY <1>1, <3>1 DEF Shown
  <2> QED BY <2>1, <2>2, <2>3
<1>4. Shown(p) = UNION {Log(p)[k].readings : k \in DOMAIN Log(p)}
  <2>1. DOMAIN Log(p) = DOMAIN p /\ \A k \in DOMAIN p : Log(p)[k].readings = SeqRange(p[k].data)
    BY DEF Log, Seen
  <2> QED BY <2>1 DEF Shown
<1>5. Log(p) \in Seq(S) /\ Len(Log(p)) = Len(p)
  <2>1. \A k \in 1 .. Len(p) : p[k] \in Frames BY <1>1
  <2>2. Log(p) \in [1 .. Len(p) -> S] BY <1>1, <2>1 DEF Log
  <2> HIDE DEF S
  <2> QED BY <1>1, <2>2
<1>6. Log(q) = Append(Log(p), Seen(f))
  <2> DEFINE l == Log(p)
             m == Append(l, Seen(f))
  <2>1. l \in Seq(S) /\ Len(l) = Len(p) /\ Seen(f) \in S BY <1>5
  <2>2. \A k \in 1 .. Len(p) : l[k] = Seen(p[k]) BY <1>1 DEF Log
  <2> HIDE DEF l, S
  <2>3. m \in Seq(S) /\ Len(m) = Len(p) + 1 /\ m[Len(p) + 1] = Seen(f)
        /\ \A k \in DOMAIN l : m[k] = l[k]
    BY <2>1, AppendIs
  <2>4. DOMAIN l = 1 .. Len(p) /\ DOMAIN m = 1 .. Len(p) + 1 BY <1>1, <2>1, <2>3
  <2> HIDE DEF m
  <2>5. \A k \in 1 .. Len(p) + 1 : m[k] = Seen(q[k])
    BY <1>1, <2>2, <2>3, <2>4
  <2>6. m = [k \in 1 .. Len(p) + 1 |-> m[k]] BY <2>3, <2>4
  <2>7. Log(q) = [k \in 1 .. Len(p) + 1 |-> Seen(q[k])] BY <1>1 DEF Log
  <2>8. Log(q) = m BY <2>5, <2>6, <2>7
  <2> QED BY <2>8 DEF m, l
<1> QED BY <1>3, <1>4, <1>5, <1>6 DEF q

\* A frame that is published goes on where those before it ended, and ends with
\* the last reading popped.
LEMMA PublishIs ==
  ASSUME Inv, Covers, Publish
  PROVE  /\ \E c \in 0 .. fed : /\ Shown(published) = 1 .. c
                               /\ Popped \in c .. fed
                               /\ SeqRange(merged) = c + 1 .. Popped
         /\ Popped \in Nat /\ Len(published) = windowId
         /\ [id |-> windowId, data |-> merged] \in Frames
<1>1. TypedControl /\ TypedData /\ Routing /\ Window /\ Places /\ NoGap /\ NoPartialFrame
  BY DEF Inv, Typed, Sequel
<1>2. dpc = "publish" /\ dpc \in Loop BY DEF Publish, Loop, Closing
<1>3. Len(published) = windowId BY <1>2 DEF Inv, Sequel
<1>4. SeqRange(merged) = Current BY <1>1, <1>2, MergedIsWindow
<1>5. PICK c \in 0 .. fed : Shown(published) = 1 .. c BY DEF Covers
<1>6. fed \in Nat /\ fed <= Readings /\ windowId \in Nat /\ windowId <= MaxWindows /\ Popped \in Nat
  BY <1>1, FirstWorker DEF TypedControl, Routing
<1>7. Popped <= fed
  <2>1. Len(source) \in Nat BY <1>1 DEF TypedData
  <2> QED BY <1>6, <2>1 DEF Popped
<1>8. DOMAIN published = 1 .. windowId BY <1>1, <1>3 DEF TypedData
<1>9. \A r \in R : r \in Shown(published) <=> routedIn[r] < windowId
  <2> TAKE r \in R
  <2>1. routedIn[r] \in Nat BY <1>1, FirstWorker DEF TypedData, NotRouted
  <2>2. ASSUME r \in Shown(published) PROVE routedIn[r] < windowId
    <3>1. PICK k \in DOMAIN published : r \in SeqRange(published[k].data) BY <2>2 DEF Shown
    <3>2. routedIn[r] = k - 1 BY <1>1, <3>1 DEF NoPartialFrame, NoGap, R
    <3> QED BY <1>6, <1>8, <3>2
  <2>3. ASSUME routedIn[r] < windowId PROVE r \in Shown(published)
    <3>1. routedIn[r] + 1 \in DOMAIN published BY <1>6, <1>8, <2>1, <2>3
    <3>2. published[routedIn[r] + 1].id = routedIn[r] BY <1>1, <2>1, <3>1 DEF NoGap
    <3>3. r \in SeqRange(published[routedIn[r] + 1].data) BY <1>1, <3>1, <3>2 DEF NoPartialFrame, R
    <3> QED BY <3>1, <3>3 DEF Shown
  <2> QED BY <2>2, <2>3
<1>10. \A r \in R : routedIn[r] <= windowId <=> r <= Popped
  <2> TAKE r \in R
  <2>1. r \in Nat \ {0} /\ routedIn[r] \in Nat BY <1>1, FirstWorker DEF TypedData, NotRouted, R
  <2>2. ASSUME routedIn[r] <= windowId PROVE r <= Popped
    <3>1. routedIn[r] # NotRouted BY <1>6, <2>1, <2>2, FirstWorker DEF NotRouted
    <3> QED BY <1>1, <3>1 DEF Routing
  <2>3. ASSUME r <= Popped PROVE routedIn[r] <= windowId
    <3>1. r \in 1 .. Popped BY <1>6, <2>1, <2>3
    <3>2. routedIn[r] # NotRouted BY <1>1, <1>2, <3>1 DEF Routing
    <3> QED BY <1>1, <3>2 DEF Routing
  <2> QED BY <2>2, <2>3
<1>11. 1 .. c \subseteq R /\ 1 .. Popped \subseteq R BY <1>5, <1>6, <1>7, FirstWorker DEF R
<1>12. c <= Popped
  <2>1. CASE c = 0 BY <1>6, <2>1
  <2>2. CASE c # 0
    <3>1. c \in 1 .. c BY <1>5, <1>6, <2>2
    <3>2. c \in R /\ routedIn[c] < windowId BY <1>5, <1>9, <1>11, <3>1
    <3>3. routedIn[c] <= windowId BY <1>1, <1>6, <3>2, FirstWorker DEF TypedData, NotRouted
    <3> QED BY <1>10, <3>2, <3>3
  <2> QED BY <2>1, <2>2
<1>13. Current = c + 1 .. Popped
  <2>1. ASSUME NEW r \in Current PROVE r \in c + 1 .. Popped
    <3>1. r \in R /\ routedIn[r] = windowId BY DEF Current
    <3>2. r <= Popped /\ r \notin 1 .. c BY <1>5, <1>6, <1>9, <1>10, <3>1
    <3> QED BY <1>5, <1>6, <3>1, <3>2, FirstWorker DEF R
  <2>2. ASSUME NEW r \in c + 1 .. Popped PROVE r \in Current
    <3>1. r \in 1 .. Popped /\ r \notin 1 .. c BY <1>5, <1>6
    <3>2. r \in R /\ ~(routedIn[r] < windowId) /\ routedIn[r] <= windowId
      BY <1>5, <1>6, <1>9, <1>10, <1>11, <3>1
    <3>3. routedIn[r] = windowId BY <1>1, <1>6, <3>2, FirstWorker DEF TypedData, NotRouted
    <3> QED BY <3>2, <3>3 DEF Current
  <2> QED BY <2>1, <2>2
<1>14. [id |-> windowId, data |-> merged] \in Frames BY <1>1 DEF TypedControl, TypedData, Frames
<1> QED BY <1>3, <1>4, <1>5, <1>6, <1>7, <1>12, <1>13, <1>14

LEMMA NextCovers == Inv /\ Covers /\ [Next]_vars => Covers'
<1> SUFFICES ASSUME Inv, Covers, Touches PROVE Covers'
  BY StepIs
<1>1. fed \in Nat BY FirstWorker DEF Inv, Typed, TypedControl
<1>2. CASE Publish
  <2> DEFINE f == [id |-> windowId, data |-> merged]
  <2>1. published' = Append(published, f) /\ fed' = fed /\ published \in Seq(Frames)
    BY <1>2 DEF Publish, sourceVars, Inv, Typed, TypedData
  <2>2. Popped \in Nat /\ f \in Frames BY <1>2, PublishIs
  <2>3. PICK c \in 0 .. fed : /\ Shown(published) = 1 .. c /\ Popped \in c .. fed
                             /\ SeqRange(merged) = c + 1 .. Popped
    BY <1>2, PublishIs
  <2>4. Shown(published') = Shown(published) \cup SeqRange(merged) BY <2>1, <2>2, ShownIs
  <2> HIDE DEF f
  <2>5. Shown(published') = 1 .. Popped BY <1>1, <2>2, <2>3, <2>4
  <2>6. Popped \in 0 .. fed' BY <1>1, <2>1, <2>2, <2>3
  <2> QED BY <2>5, <2>6 DEF Covers
<1>3. CASE ~Publish
  <2>1. published' = published /\ fed' \in {fed, fed + 1}
    BY <1>3 DEF Touches, Feed, Outside, Top, TestDrained, Pop, Route, Fail, Tick, SendRotate,
                Collect, SendStop, Worker, CheckFlag, Receive, Report, Disconnected, outVars,
                sourceVars
  <2>2. 0 .. fed \subseteq 0 .. fed' BY <1>1, <2>1
  <2> QED BY <2>1, <2>2 DEF Covers
<1> QED BY <1>2, <1>3

LEMMA CoversHolds == Spec => [](Inv /\ Covers)
<1>1. Init => Covers
  <2> SUFFICES ASSUME Init PROVE Covers OBVIOUS
  <2>1. published = <<>> /\ fed = 0 BY DEF Init
  <2>2. Shown(published) = 1 .. 0 BY <2>1 DEF Shown
  <2> QED BY <2>1, <2>2 DEF Covers
<1> QED BY <1>1, InitInv, NextInv, NextCovers, PTL DEF Spec

LEMMA InitWindows == Init => Windows!Init
<1> SUFFICES ASSUME Init PROVE Windows!Init OBVIOUS
<1>1. published = <<>> /\ fed = 0 /\ taken = 0 BY DEF Init
<1>2. Log(published) = <<>> BY <1>1 DEF Log
<1> QED BY <1>1, <1>2 DEF Windows!Init

LEMMA StepWindows ==
  Inv /\ Covers /\ [Next]_vars => [Windows!Next]_<<fed, Log(published), taken>>
<1> SUFFICES ASSUME Inv, Covers, [Next]_vars
             PROVE  [Windows!Next]_<<fed, Log(published), taken>>
  OBVIOUS
<1>1. published \in Seq(Frames) BY DEF Inv, Typed, TypedData
<1>2. CASE Publish
  <2> DEFINE f == [id |-> windowId, data |-> merged]
             l == Log(published)
  <2>1. published' = Append(published, f) /\ UNCHANGED <<fed, taken>> /\ Unread < OutCap
    BY <1>2 DEF Publish, sourceVars
  <2>2. f \in Frames /\ Len(published) = windowId BY <1>2, PublishIs
  <2>3. PICK c \in 0 .. fed : /\ Shown(published) = 1 .. c /\ Popped \in c .. fed
                             /\ SeqRange(merged) = c + 1 .. Popped
    BY <1>2, PublishIs
  <2>4. Log(published') = Append(l, Seen(f)) /\ Len(l) = windowId
    BY <1>1, <2>1, <2>2, ShownIs
  <2>5. Seen(f) = [id |-> Len(l), readings |-> c + 1 .. Popped] BY <2>3, <2>4 DEF Seen
  <2>6. Windows!Covered = 1 .. c
    <3>1. Shown(published) = UNION {l[k].readings : k \in DOMAIN l} BY <1>1, <2>2, ShownIs
    <3> QED BY <2>3, <3>1 DEF Windows!Covered
  <2>7. Len(l) - taken < OutCap BY <2>1, <2>2, <2>4 DEF Unread
  <2> HIDE DEF f
  <2>8. Windows!Emit BY <2>1, <2>3, <2>4, <2>5, <2>6, <2>7 DEF Windows!Emit
  <2> QED BY <2>8 DEF Windows!Next
<1>3. CASE Feed
  <2>1. fed' = fed + 1 /\ UNCHANGED <<published, taken>> BY <1>3 DEF Feed, outVars
  <2>2. Log(published)' = Log(published) BY <2>1
  <2>3. Windows!Push BY <2>1, <2>2 DEF Windows!Push
  <2> QED BY <2>3 DEF Windows!Next
<1>4. CASE ReceiveFrame
  <2>1. fed' = fed /\ UNCHANGED published /\ taken' = taken + 1 /\ Unread > 0
    BY <1>4 DEF ReceiveFrame, sourceVars
  <2>2. Log(published)' = Log(published) BY <2>1
  <2>3. taken < Len(Log(published))
    <3>1. taken \in Nat /\ Len(published) \in Nat BY <1>1 DEF Inv, Typed, TypedData
    <3>2. Len(Log(published)) = Len(published)
      <4>1. [id |-> 0, data |-> <<>>] \in Frames BY FirstWorker DEF Frames
      <4> QED BY <1>1, <4>1, ShownIs
    <3> QED BY <2>1, <3>1, <3>2 DEF Unread
  <2>4. Windows!Take BY <2>1, <2>2, <2>3 DEF Windows!Take
  <2> QED BY <2>4 DEF Windows!Next
<1>5. CASE ~Publish /\ ~Feed /\ ~ReceiveFrame
  <2>1. UNCHANGED <<fed, published, taken>>
    <3>1. CASE Dispatcher
      BY <1>5, <3>1 DEF Dispatcher, Top, TestDrained, Pop, Route, RouteFails, Fail, Tick, SendRotate,
             RotateFails, Collect, CollectFails, SendStop, outVars, sourceVars
    <3>2. ASSUME NEW w \in Workers, Worker(w) PROVE UNCHANGED <<fed, published, taken>>
      BY <3>2 DEF Worker, CheckFlag, Receive, Report, Disconnected, outVars, sourceVars
    <3>3. CASE Consumer \/ CloseSource \/ Terminated \/ UNCHANGED vars
      BY <1>5, <3>3 DEF Consumer, Persisted, PersistFailed, Idle, ShutdownEngine, Join, CloseSource,
             Terminated, vars, outVars, sourceVars
    <3> QED BY <1>5, <3>1, <3>2, <3>3 DEF Next
  <2> QED BY <2>1
<1> QED BY <1>2, <1>3, <1>4, <1>5

\* The engine implements the log: a frame is the next window, readings come in
\* the order in which they were pushed, and after a window that could not be
\* completed there is none.
THEOREM ImplementsWindowsHolds == Spec => ImplementsWindows
BY InitWindows, StepWindows, CoversHolds, PTL DEF Spec, ImplementsWindows, Windows!Spec
=============================================================================
