----------------------------- MODULE StorageProofs -----------------------------
(***************************************************************************)
(* What holds of the published files for any callers, frames, hours and    *)
(* channel capacity, through failed file operations and process deaths:    *)
(* nothing acknowledged is lost, no file names a frame that is not there,  *)
(* the hourly files keep the order of the requests, every caller gets one  *)
(* answer, and all of it implements the log of FrameLog. And what readers  *)
(* get who list these files and read them one after the other while all    *)
(* this goes on: what they could know of, and no frame without the earlier *)
(* ones.                                                                   *)
(*                                                                         *)
(* Then the text files of the sensors: what they lose at most to failed    *)
(* writes and restarts, that a raw answer only grows, and that the         *)
(* statistics of an answer, put together by update and merge, are those    *)
(* of its values, for any values that are divided exactly.                 *)
(***************************************************************************)
EXTENDS Queries, RawFiles, SumTheorems, FiniteSetTheorems, SequenceTheorems, TLAPS

Persists == {Persist(f, c, s) : f \in Frames, c \in Clients, s \in BOOLEAN}
Messages == Persists \cup {Stop}

LEMMA MessageIs ==
  /\ \A m \in Persists : m.kind = "persist" /\ m.frame \in Frames
  /\ \A m \in Messages : m.kind = "persist" => m \in Persists
BY DEF Messages, Persists, Persist, Stop

\* What one more line does to a file.
LEMMA AppendIs ==
  ASSUME NEW s \in Seq(Frames), NEW x \in Frames
  PROVE  /\ Append(s, x) \in Seq(Frames)
         /\ SeqRange(Append(s, x)) = SeqRange(s) \cup {x}
         /\ Len(Append(s, x)) = Len(s) + 1
         /\ Append(s, x)[Len(s) + 1] = x
         /\ \A k \in 1 .. Len(s) : Append(s, x)[k] = s[k]
<1>1. DOMAIN s = 1 .. Len(s) /\ DOMAIN Append(s, x) = 1 .. Len(s) + 1
  OBVIOUS
<1>2. /\ Len(Append(s, x)) = Len(s) + 1 /\ Append(s, x)[Len(s) + 1] = x
      /\ \A k \in 1 .. Len(s) : Append(s, x)[k] = s[k]
  OBVIOUS
<1>3. SeqRange(Append(s, x)) = SeqRange(s) \cup {x}
  <2> DEFINE t == Append(s, x)
  <2> HIDE DEF t
  <2>1. \A k : k \in DOMAIN t <=> k \in DOMAIN s \/ k = Len(s) + 1
    BY <1>1 DEF t
  <2>2. t[Len(s) + 1] = x /\ \A k \in DOMAIN s : t[k] = s[k]
    BY <1>1, <1>2 DEF t
  <2>3. \A y : y \in SeqRange(t) <=> y \in SeqRange(s) \/ y = x
    BY <2>1, <2>2, Zenon DEF SeqRange
  <2> QED BY <2>3 DEF t
<1> QED BY <1>2, <1>3

Sorted(s) == \A j, k \in DOMAIN s : j < k => s[j] < s[k]

LEMMA AppendSorted ==
  ASSUME NEW s \in Seq(Frames), NEW x \in Frames, Sorted(s), \A y \in SeqRange(s) : y < x
  PROVE  Sorted(Append(s, x))
<1>1. \A k \in 1 .. Len(s) : s[k] < x BY DEF SeqRange
<1> QED BY <1>1 DEF Sorted

-----------------------------------------------------------------------------
\* Types of what the files are made from.
Typed ==
  /\ hourFile \in [Hours -> Seq(Frames)]
  /\ latestJson \in Nat /\ statsJson \in Nat /\ snapshotJson \in Nat /\ latestIndex \in Nat
  /\ lines \in Seq(Frames) /\ lastWindow \in Nat
  /\ queue \in Seq(Messages)
  /\ submitted \in 0 .. MaxFrames /\ acked \subseteq Frames

Writing == {"hour", "latest.json", "stats.json", "snapshot.json", "latest", "ack"}
Working == wpc \in Writing

AtWork == Working => req \in Persists

LEMMA HourOfIs == ASSUME NEW f \in Frames PROVE HourOf[f] \in Hours /\ HourOf[f] # None
BY StorageAssumption DEF Frames, Hours, None

LEMMA LinesOfIs ==
  ASSUME Typed, NEW h \in Hours PROVE LinesOf(h) \in Seq(Frames)
BY DEF Typed, LinesOf

LEMMA InitTyped == Init => Typed /\ AtWork
<1> SUFFICES ASSUME Init PROVE Typed /\ AtWork
  OBVIOUS
<1>1. hourFile \in [Hours -> Seq(Frames)] BY DEF Init
<1>2. submitted \in 0 .. MaxFrames BY StorageAssumption DEF Init
<1>3. queue \in Seq(Messages) /\ lines \in Seq(Frames) BY DEF Init, InitMemory
<1> QED BY <1>1, <1>2, <1>3 DEF Init, InitMemory, Typed, AtWork, Working, Writing, None

LEMMA NextTyped == Typed /\ AtWork /\ [Next]_vars => Typed' /\ AtWork'
<1> SUFFICES ASSUME Typed, AtWork, [Next]_vars PROVE Typed' /\ AtWork'
  OBVIOUS
<1> USE DEF files, memory, chan, workerVars, clientVars, histories, Working, Writing
<1>1. ASSUME NEW c \in Clients, NEW s \in BOOLEAN, PersistFrame(c, s)
      PROVE  Typed' /\ AtWork'
  <2>1. submitted + 1 \in Frames BY <1>1, StorageAssumption DEF PersistFrame, Typed, Frames
  <2>2. Persist(submitted + 1, c, s) \in Messages BY <2>1 DEF Messages, Persists
  <2>3. queue' \in Seq(Messages) BY <1>1, <2>2 DEF PersistFrame, Typed
  <2>4. submitted' \in 0 .. MaxFrames BY <1>1, <2>1 DEF PersistFrame, Frames
  <2> QED BY <1>1, <2>3, <2>4 DEF PersistFrame, Typed, AtWork
<1>2. ASSUME NEW c \in Clients, RaiseFlag(c) \/ SendStop(c) \/ TakeHandle(c) \/ Join(c)
      PROVE  Typed' /\ AtWork'
  <2>1. Stop \in Messages BY DEF Messages
  <2>2. queue' \in Seq(Messages)
    <3>1. Append(queue, Stop) \in Seq(Messages) BY <2>1 DEF Typed
    <3>2. queue' = queue \/ queue' = Append(queue, Stop)
      BY <1>2 DEF RaiseFlag, SendStop, TakeHandle, Join
    <3> QED BY <3>1, <3>2 DEF Typed
  <2> QED BY <1>2, <2>2 DEF RaiseFlag, SendStop, TakeHandle, Join, Typed, AtWork
<1>3. CASE Start \/ CheckFlag \/ DrainDone
  BY <1>3 DEF Start, CheckFlag, DrainDone, Typed, AtWork
<1>4. CASE Leave
  BY <1>4 DEF Leave, Typed, AtWork
<1>5. CASE TakeRequest
  <2>1. Head(queue) \in Messages /\ Tail(queue) \in Seq(Messages)
    BY <1>5 DEF TakeRequest, Typed
  <2> QED BY <1>5, <2>1, MessageIs DEF TakeRequest, Typed, AtWork
<1>6. CASE WriteHour
  <2>1. req.frame \in Frames BY <1>6, MessageIs DEF WriteHour, AtWork
  <2>2. lines' \in Seq(Frames)
    BY <1>6, <2>1, HourOfIs, LinesOfIs, AppendIs DEF WriteHour
  <2>3. hourFile' \in [Hours -> Seq(Frames)]
    BY <1>6, <2>1, <2>2, HourOfIs DEF WriteHour, Typed
  <2> QED BY <1>6, <2>2, <2>3 DEF WriteHour, Typed, AtWork
<1>7. CASE WriteLatestJson \/ WriteStatsJson \/ WriteSnapshotJson \/ WriteIndex \/ AckOk
  <2>1. req.frame \in Frames /\ req.frame \in Nat
    BY <1>7, MessageIs DEF WriteLatestJson, WriteStatsJson, WriteSnapshotJson, WriteIndex,
                           AckOk, AtWork, Frames
  <2>2. CASE WriteLatestJson BY <2>1, <2>2 DEF WriteLatestJson, Typed, AtWork
  <2>3. CASE WriteStatsJson BY <2>1, <2>3 DEF WriteStatsJson, Typed, AtWork
  <2>4. CASE WriteSnapshotJson BY <2>1, <2>4 DEF WriteSnapshotJson, Typed, AtWork
  <2>5. CASE WriteIndex BY <2>1, <2>5 DEF WriteIndex, Typed, AtWork
  <2>6. CASE AckOk BY <2>1, <2>6 DEF AckOk, Resume, Typed, AtWork
  <2> QED BY <1>7, <2>2, <2>3, <2>4, <2>5, <2>6
<1>8. CASE AckError
  <2>1. wpc = "hour" => lines' \in Seq(Frames)
    <3> SUFFICES ASSUME wpc = "hour" PROVE lines' \in Seq(Frames)
      OBVIOUS
    <3>1. req.frame \in Frames BY MessageIs DEF AtWork
    <3>2. Append(LinesOf(HourOf[req.frame]), req.frame) \in Seq(Frames)
      BY <3>1, HourOfIs, LinesOfIs, AppendIs
    <3> QED BY <1>8, <3>2 DEF AckError, Typed
  <2>2. lines' \in Seq(Frames) BY <1>8, <2>1 DEF AckError, Typed
  <2> QED BY <1>8, <2>2 DEF AckError, Resume, Typed, AtWork
<1>9. CASE Crash
  BY <1>9 DEF Crash, Typed, AtWork, None
<1>10. CASE UNCHANGED vars
  BY <1>10 DEF vars, Typed, AtWork
<1> QED
  BY <1>1, <1>2, <1>3, <1>4, <1>5, <1>6, <1>7, <1>8, <1>9, <1>10
     DEF Next, Client, Worker, StartFails, Exit, Terminated

-----------------------------------------------------------------------------
\* Where a frame may be: in an hourly file, or in the lines kept in memory.
Stored(x) == \E h \in Hours : x \in SeqRange(hourFile[h])
Seen(x) == Stored(x) \/ x \in SeqRange(lines)

Queued(k) == k \in DOMAIN queue /\ queue[k].kind = "persist"

\* Frames are worked on in the order of their numbers: what is in a file or in
\* memory is older than the request at hand, and that than what is queued; and
\* the lines in memory, when they are of an hour, have all of the hour's file.
Ordered ==
  /\ \A x : Seen(x) => x <= submitted /\ (Working => x <= req.frame)
                       /\ (wpc = "hour" => x < req.frame)
                       /\ \A k : Queued(k) => x < queue[k].frame
  /\ Working => req.frame <= submitted /\ \A k : Queued(k) => req.frame < queue[k].frame
  /\ \A k : Queued(k) => queue[k].frame <= submitted
  /\ \A j, k : Queued(j) /\ Queued(k) /\ j < k => queue[j].frame < queue[k].frame
  /\ Sorted(lines) /\ \A h \in Hours : Sorted(hourFile[h])
  /\ hour \in Hours => SeqRange(hourFile[hour]) \subseteq SeqRange(lines)

LEMMA LinesOfOrdered ==
  ASSUME Typed, Ordered, NEW h \in Hours
  PROVE  /\ Sorted(LinesOf(h))
         /\ \A x \in SeqRange(LinesOf(h)) : Seen(x)
         /\ SeqRange(hourFile[h]) \subseteq SeqRange(LinesOf(h))
BY DEF Ordered, LinesOf, Seen, Stored

LEMMA SeenIs ==
  ASSUME Typed, NEW x, Seen(x)
  PROVE  x \in Frames
<1>1. \A s \in Seq(Frames) : SeqRange(s) \subseteq Frames
  BY DEF SeqRange
<1> QED BY <1>1 DEF Typed, Seen, Stored

LEMMA QueuedIs ==
  ASSUME Typed, NEW k, Queued(k)
  PROVE  k \in Nat /\ queue[k] \in Persists /\ queue[k].frame \in Frames
<1>1. queue[k] \in Messages /\ k \in Nat BY DEF Typed, Queued
<1> QED BY <1>1, MessageIs DEF Queued

\* A line added to the hour of the request at hand keeps the order.
LEMMA NewLine ==
  ASSUME Typed, AtWork, Ordered, wpc = "hour", NEW h, h = HourOf[req.frame],
         NEW s, s = Append(LinesOf(h), req.frame)
  PROVE  /\ req.frame \in Frames /\ h \in Hours /\ s \in Seq(Frames) /\ Sorted(s)
         /\ \A x \in SeqRange(s) : Seen(x) \/ x = req.frame
         /\ SeqRange(hourFile[h]) \subseteq SeqRange(s)
         /\ req.frame \in SeqRange(s)
<1>1. req.frame \in Frames /\ h \in Hours
  BY MessageIs, HourOfIs DEF AtWork, Working, Writing
<1>2. LinesOf(h) \in Seq(Frames) BY <1>1, LinesOfIs
<1>3. \A x \in SeqRange(LinesOf(h)) : Seen(x) /\ x < req.frame
  BY <1>1, LinesOfOrdered DEF Ordered
<1>4. Sorted(s) BY <1>1, <1>2, <1>3, LinesOfOrdered, AppendSorted
<1>5. SeqRange(s) = SeqRange(LinesOf(h)) \cup {req.frame} BY <1>1, <1>2, AppendIs
<1> QED BY <1>1, <1>2, <1>3, <1>4, <1>5, LinesOfOrdered, AppendIs

\* What the channel holds after a request came in or was taken out.
LEMMA ChannelAppend ==
  ASSUME Typed, NEW m \in Messages, queue' = Append(queue, m), NEW k, Queued(k)'
  PROVE  \/ Queued(k) /\ queue'[k] = queue[k]
         \/ k = Len(queue) + 1 /\ queue'[k] = m /\ m.kind = "persist"
<1>1. queue \in Seq(Messages) BY DEF Typed
<1>2. k \in 1 .. Len(queue) + 1 /\ queue'[k].kind = "persist" BY <1>1 DEF Queued
<1>3. CASE k = Len(queue) + 1 BY <1>1, <1>2, <1>3
<1>4. CASE k \in 1 .. Len(queue) BY <1>1, <1>2, <1>4 DEF Queued
<1> QED BY <1>1, <1>2, <1>3, <1>4

LEMMA ChannelTail ==
  ASSUME Typed, queue # <<>>, queue' = Tail(queue), NEW k, Queued(k)'
  PROVE  k \in Nat /\ k >= 1 /\ Queued(k + 1) /\ queue'[k] = queue[k + 1]
<1>1. queue \in Seq(Messages) BY DEF Typed
<1>2. k \in 1 .. Len(queue) - 1 /\ queue'[k].kind = "persist" BY <1>1 DEF Queued
<1> QED BY <1>1, <1>2 DEF Queued

\* With the files, the lines, the counter and the channel as they were, only a
\* request that is begun needs a look.
LEMMA OrderedKept ==
  ASSUME Ordered, UNCHANGED <<hourFile, hour, lines, queue, submitted>>,
         Working' => Working /\ req' = req, wpc' = "hour" => wpc = "hour" /\ req' = req
  PROVE  Ordered'
<1>1. \A x : Seen(x)' <=> Seen(x) BY DEF Seen, Stored
<1>2. \A k : Queued(k)' <=> Queued(k) BY DEF Queued
<1> QED BY <1>1, <1>2 DEF Ordered

LEMMA NextOrdered ==
  ASSUME Typed, AtWork, Ordered, [Next]_vars
  PROVE  Ordered'
<1> USE DEF files, memory, chan, workerVars, clientVars, histories, Working, Writing
<1>1. ASSUME NEW c \in Clients, NEW s \in BOOLEAN, PersistFrame(c, s)
      PROVE  Ordered'
  <2> DEFINE m == Persist(submitted + 1, c, s)
  <2>1. submitted + 1 \in Frames /\ submitted \in Nat
    BY <1>1, StorageAssumption DEF PersistFrame, Typed, Frames
  <2>2. m \in Messages /\ m.frame = submitted + 1
    BY <2>1 DEF Messages, Persists, Persist
  <2>3. queue' = Append(queue, m) /\ submitted' = submitted + 1
          /\ UNCHANGED <<hourFile, hour, lines, wpc, req>>
    BY <1>1 DEF PersistFrame
  <2> HIDE DEF m
  <2>4. \A k : Queued(k)' => \/ Queued(k) /\ queue'[k] = queue[k]
                             \/ k = Len(queue) + 1 /\ queue'[k] = m
    BY <2>2, <2>3, ChannelAppend
  <2>5. \A x : Seen(x)' <=> Seen(x) BY <2>3 DEF Seen, Stored
  <2>6. \A x : Seen(x) => x \in Nat /\ x <= submitted BY SeenIs DEF Ordered, Frames
  <2>7. \A k : Queued(k) => /\ k \in 1 .. Len(queue)
                            /\ queue[k].frame \in Nat /\ queue[k].frame <= submitted
    BY QueuedIs DEF Ordered, Frames, Typed, Queued
  <2>8. Working => req.frame \in Nat /\ req.frame <= submitted
    BY MessageIs DEF AtWork, Ordered, Frames
  <2>9. ASSUME NEW x, Seen(x)'
        PROVE  /\ x <= submitted' /\ (Working' => x <= req'.frame)
               /\ wpc' = "hour" => x < req'.frame
               /\ \A k : Queued(k)' => x < queue'[k].frame
    <3>1. Seen(x) /\ x \in Nat /\ x <= submitted BY <2>5, <2>6, <2>9
    <3>2. x <= submitted' BY <2>1, <2>3, <3>1
    <3>3. (Working' => x <= req'.frame) /\ (wpc' = "hour" => x < req'.frame)
      BY <2>3, <3>1 DEF Ordered
    <3>4. ASSUME NEW k, Queued(k)' PROVE x < queue'[k].frame
      <4>1. CASE Queued(k) /\ queue'[k] = queue[k] BY <3>1, <4>1 DEF Ordered
      <4>2. CASE queue'[k] = m BY <2>1, <2>2, <3>1, <4>2
      <4> QED BY <2>4, <3>4, <4>1, <4>2
    <3> QED BY <3>2, <3>3, <3>4
  <2>10. ASSUME Working'
         PROVE  req'.frame <= submitted' /\ \A k : Queued(k)' => req'.frame < queue'[k].frame
    <3>1. Working /\ req' = req BY <2>3, <2>10
    <3>2. req.frame \in Nat /\ req.frame <= submitted BY <2>8, <3>1
    <3>3. ASSUME NEW k, Queued(k)' PROVE req.frame < queue'[k].frame
      <4>1. CASE Queued(k) /\ queue'[k] = queue[k] BY <3>1, <4>1 DEF Ordered
      <4>2. CASE queue'[k] = m BY <2>1, <2>2, <3>2, <4>2
      <4> QED BY <2>4, <3>3, <4>1, <4>2
    <3>4. req.frame <= submitted' BY <2>1, <2>3, <3>2
    <3> QED BY <3>1, <3>3, <3>4
  <2>11. \A k : Queued(k)' => queue'[k].frame <= submitted'
    BY <2>1, <2>2, <2>3, <2>4, <2>7
  <2>12. ASSUME NEW j, NEW k, Queued(j)', Queued(k)', j < k
         PROVE  queue'[j].frame < queue'[k].frame
    <3>1. Len(queue) \in Nat BY DEF Typed
    <3> QED BY <2>1, <2>2, <2>4, <2>7, <2>12, <3>1 DEF Ordered
  <2> QED BY <2>3, <2>9, <2>10, <2>11, <2>12 DEF Ordered
<1>2. ASSUME NEW c \in Clients, SendStop(c) PROVE Ordered'
  <2>1. \A k : Queued(k)' => Queued(k) /\ queue'[k] = queue[k]
    <3>1. Stop \in Messages /\ Stop.kind # "persist" BY DEF Messages, Stop
    <3>2. CASE queue' = Append(queue, Stop) BY <3>1, <3>2, ChannelAppend
    <3>3. CASE queue' = queue BY <3>3 DEF Queued
    <3> QED BY <1>2, <3>2, <3>3 DEF SendStop
  <2>2. UNCHANGED <<hourFile, hour, lines, wpc, req, submitted>> BY <1>2 DEF SendStop
  <2>3. \A x : Seen(x)' <=> Seen(x) BY <2>2 DEF Seen, Stored
  <2> QED BY <2>1, <2>2, <2>3 DEF Ordered
<1>3. ASSUME NEW c \in Clients, RaiseFlag(c) \/ TakeHandle(c) \/ Join(c) PROVE Ordered'
  <2>1. UNCHANGED <<hourFile, hour, lines, queue, submitted, wpc, req>>
    BY <1>3 DEF RaiseFlag, TakeHandle, Join
  <2> QED BY <2>1, OrderedKept
<1>4. CASE Start \/ CheckFlag \/ DrainDone
  <2>1. UNCHANGED <<hourFile, hour, lines, queue, submitted>> /\ ~Working'
    BY <1>4 DEF Start, CheckFlag, DrainDone
  <2> QED BY <2>1, OrderedKept
<1>5. CASE Leave
  <2>1. UNCHANGED <<hourFile, hour, lines, submitted>> /\ ~Working' /\ queue' = <<>>
    BY <1>5 DEF Leave
  <2>2. \A k : ~Queued(k)' BY <2>1 DEF Queued
  <2>3. \A x : Seen(x)' <=> Seen(x) BY <2>1 DEF Seen, Stored
  <2> QED BY <2>1, <2>2, <2>3 DEF Ordered
<1>6. CASE TakeRequest
  <2>1. queue # <<>> /\ queue' = Tail(queue) /\ UNCHANGED <<hourFile, hour, lines, submitted>>
    BY <1>6 DEF TakeRequest
  <2>2. \A k : Queued(k)' => k \in Nat /\ k >= 1 /\ Queued(k + 1) /\ queue'[k] = queue[k + 1]
    BY <2>1, ChannelTail
  <2>3. \A x : Seen(x)' <=> Seen(x) BY <2>1 DEF Seen, Stored
  <2>4. \A x : Seen(x)' => x <= submitted' /\ \A k : Queued(k)' => x < queue'[k].frame
    BY <2>1, <2>2, <2>3 DEF Ordered
  <2>5. \A j, k : Queued(j)' /\ Queued(k)' /\ j < k => queue'[j].frame < queue'[k].frame
    BY <2>2 DEF Ordered
  <2>6. \A k : Queued(k)' => queue'[k].frame <= submitted'
    BY <2>1, <2>2 DEF Ordered
  <2>7. CASE Head(queue).kind = "persist"
    <3>1. Queued(1) /\ req' = queue[1] /\ wpc' = "hour"
      BY <1>6, <2>1, <2>7 DEF TakeRequest, Queued, Typed
    <3>2. \A x : Seen(x)' => x < req'.frame /\ x <= req'.frame
      <4>1. \A x : Seen(x) => x < queue[1].frame BY <3>1 DEF Ordered
      <4>2. queue[1].frame \in Nat BY <3>1, QueuedIs DEF Frames
      <4> QED BY <2>3, <3>1, <4>1, <4>2, SeenIs DEF Frames
    <3>3. \A k : Queued(k)' => req'.frame < queue'[k].frame
      BY <2>2, <3>1 DEF Ordered
    <3>4. req'.frame <= submitted' BY <2>1, <3>1 DEF Ordered
    <3> QED BY <2>1, <2>4, <2>5, <2>6, <3>2, <3>3, <3>4 DEF Ordered
  <2>8. CASE Head(queue).kind # "persist"
    <3>1. ~Working' BY <1>6, <2>8 DEF TakeRequest
    <3> QED BY <2>1, <2>4, <2>5, <2>6, <3>1 DEF Ordered
  <2> QED BY <2>7, <2>8
<1>7. CASE WriteHour
  <2> DEFINE h == HourOf[req.frame]
             s == Append(LinesOf(h), req.frame)
  <2>1. /\ hour' = h /\ lines' = s /\ hourFile' = [hourFile EXCEPT ![h] = s]
        /\ wpc = "hour" /\ wpc' = "latest.json" /\ UNCHANGED <<queue, req, submitted>>
    BY <1>7 DEF WriteHour
  <2>2. /\ req.frame \in Frames /\ h \in Hours /\ s \in Seq(Frames) /\ Sorted(s)
        /\ \A x \in SeqRange(s) : Seen(x) \/ x = req.frame
    BY <2>1, NewLine
  <2> HIDE DEF h, s
  <2>3. hourFile'[h] = s /\ \A i \in Hours \ {h} : hourFile'[i] = hourFile[i]
    BY <2>1, <2>2 DEF Typed
  <2>4. \A x : Seen(x)' => Seen(x) \/ x = req.frame
    BY <2>1, <2>2, <2>3 DEF Seen, Stored
  <2>5. \A k : Queued(k)' <=> Queued(k) BY <2>1 DEF Queued
  <2>6. \A x : Seen(x)' => x <= req.frame
    BY <2>1, <2>2, <2>4 DEF Ordered, Frames
  <2>7. \A x : Seen(x)' => x <= submitted /\ \A k : Queued(k) => x < queue[k].frame
    BY <2>1, <2>4 DEF Ordered
  <2>8. \A i \in Hours : Sorted(hourFile'[i]) BY <2>2, <2>3 DEF Ordered
  <2> QED BY <2>1, <2>2, <2>3, <2>5, <2>6, <2>7, <2>8 DEF Ordered
<1>8. CASE WriteLatestJson \/ WriteStatsJson \/ WriteSnapshotJson \/ WriteIndex \/ AckOk
  <2>1. UNCHANGED <<hourFile, hour, lines, queue, submitted, req>> /\ Working /\ wpc' # "hour"
    BY <1>8 DEF WriteLatestJson, WriteStatsJson, WriteSnapshotJson, WriteIndex, AckOk, Resume
  <2> QED BY <2>1, OrderedKept
<1>9. CASE AckError
  <2>1. ~Working' /\ UNCHANGED <<hourFile, queue, submitted>>
    BY <1>9 DEF AckError, Resume
  <2>2. CASE UNCHANGED <<hour, lines>>
    BY <2>1, <2>2, OrderedKept
  <2>3. CASE wpc = "hour" /\ hour' = HourOf[req.frame]
               /\ lines' = Append(LinesOf(HourOf[req.frame]), req.frame)
    <3> DEFINE h == HourOf[req.frame]
               s == Append(LinesOf(h), req.frame)
    <3>1. /\ req.frame \in Frames /\ h \in Hours /\ s \in Seq(Frames) /\ Sorted(s)
          /\ \A x \in SeqRange(s) : Seen(x) \/ x = req.frame
          /\ SeqRange(hourFile[h]) \subseteq SeqRange(s)
      BY <2>3, NewLine
    <3>2. hour' = h /\ lines' = s /\ wpc = "hour" BY <2>3
    <3> HIDE DEF h, s
    <3>3. \A x : Seen(x)' => Seen(x) \/ x = req.frame
      BY <2>1, <3>1, <3>2 DEF Seen, Stored
    <3>4. \A k : Queued(k)' <=> Queued(k) BY <2>1 DEF Queued
    <3>5. \A x : Seen(x)' => x <= submitted /\ \A k : Queued(k) => x < queue[k].frame
      BY <3>2, <3>3 DEF Ordered
    <3> QED BY <2>1, <3>1, <3>2, <3>4, <3>5 DEF Ordered
  <2> QED BY <1>9, <2>2, <2>3 DEF AckError
<1>10. CASE Crash
  <2>1. /\ UNCHANGED <<hourFile, submitted>> /\ lines' = <<>> /\ queue' = <<>>
        /\ hour' = None /\ ~Working'
    BY <1>10 DEF Crash
  <2>2. \A k : ~Queued(k)' BY <2>1 DEF Queued
  <2>3. \A x : Seen(x)' => Seen(x) BY <2>1 DEF Seen, Stored, SeqRange
  <2>4. Sorted(lines') BY <2>1 DEF Sorted
  <2>5. None \notin Hours BY StorageAssumption DEF Hours, Frames, None
  <2> QED BY <2>1, <2>2, <2>3, <2>4, <2>5 DEF Ordered
<1>11. CASE UNCHANGED vars
  <2>1. UNCHANGED <<hourFile, hour, lines, queue, submitted, wpc, req>> BY <1>11 DEF vars
  <2> QED BY <2>1, OrderedKept
<1> QED
  BY <1>1, <1>2, <1>3, <1>4, <1>5, <1>6, <1>7, <1>8, <1>9, <1>10, <1>11
     DEF Next, Client, Worker, StartFails, Exit, Terminated

-----------------------------------------------------------------------------
\* How far the request at hand is published, and that no file is ahead of one that
\* is written before it.
Published ==
  /\ \A f \in acked : f \in SeqRange(hourFile[HourOf[f]])
  /\ \A f \in {latestJson, statsJson, snapshotJson, latestIndex} \ {None} :
       f \in Frames /\ f \in SeqRange(hourFile[HourOf[f]])
  /\ latestIndex <= latestJson
  /\ snapshotJson <= statsJson /\ statsJson <= latestJson
  /\ lastWindow <= latestIndex
  /\ Working /\ wpc # "hour" => req.frame \in SeqRange(hourFile[HourOf[req.frame]])
  /\ wpc \in {"stats.json", "snapshot.json", "latest", "ack"} => latestJson = req.frame
  /\ wpc = "snapshot.json" => statsJson = req.frame
  /\ wpc = "ack" => latestIndex = req.frame

\* What a file names is no newer than the request at hand.
LEMMA NamedIsOlder ==
  ASSUME Typed, AtWork, Ordered, Published, Working,
         NEW f \in {latestJson, statsJson, snapshotJson, latestIndex}
  PROVE  f <= req.frame
<1>1. req.frame \in Nat BY MessageIs DEF AtWork, Frames
<1>2. CASE f = None BY <1>1, <1>2 DEF None
<1>3. CASE f # None
  <2>1. f \in Frames /\ f \in SeqRange(hourFile[HourOf[f]]) BY <1>3 DEF Published
  <2>2. Seen(f) BY <2>1, HourOfIs DEF Seen, Stored
  <2> QED BY <2>2 DEF Ordered
<1> QED BY <1>2, <1>3

LEMMA NextPublished ==
  ASSUME Typed, AtWork, Ordered, Published, [Next]_vars
  PROVE  Published'
<1> USE DEF files, memory, chan, workerVars, clientVars, histories, Working, Writing
<1>1. ASSUME UNCHANGED <<files, acked>>, lastWindow' <= latestIndex, ~Working'
      PROVE  Published'
  BY <1>1 DEF Published
<1>2. ASSUME UNCHANGED <<files, acked, lastWindow, wpc, req>> PROVE Published'
  BY <1>2 DEF Published
<1>3. ASSUME NEW c \in Clients, Client(c) PROVE Published'
  BY <1>2, <1>3 DEF Client, PersistFrame, RaiseFlag, SendStop, TakeHandle, Join
<1>4. CASE Start \/ CheckFlag \/ DrainDone \/ Leave \/ AckError \/ Crash
  <2>1. ~Working'
    BY <1>4 DEF Start, CheckFlag, DrainDone, Leave, AckError, Crash, Resume
  <2>2. lastWindow' <= latestIndex
    <3>1. lastWindow <= latestIndex /\ None <= latestIndex BY DEF Published, Typed, None
    <3> QED BY <1>4, <3>1 DEF Start, CheckFlag, DrainDone, Leave, AckError, Crash
  <2> QED BY <1>1, <1>4, <2>1, <2>2 DEF Start, CheckFlag, DrainDone, Leave, AckError, Crash
<1>5. CASE TakeRequest
  <2>1. UNCHANGED <<files, acked, lastWindow>> /\ (Working' => wpc' = "hour")
    BY <1>5 DEF TakeRequest
  <2> QED BY <2>1 DEF Published
<1>6. CASE WriteHour
  <2> DEFINE h == HourOf[req.frame]
             s == Append(LinesOf(h), req.frame)
  <2>1. /\ hourFile' = [hourFile EXCEPT ![h] = s] /\ wpc = "hour" /\ wpc' = "latest.json"
        /\ UNCHANGED <<latestJson, statsJson, snapshotJson, latestIndex, acked, lastWindow, req>>
    BY <1>6 DEF WriteHour
  <2>2. /\ req.frame \in Frames /\ h \in Hours /\ req.frame \in SeqRange(s)
        /\ SeqRange(hourFile[h]) \subseteq SeqRange(s)
    BY <2>1, NewLine
  <2>3. req.frame \in SeqRange(hourFile'[h])
    BY <2>1, <2>2 DEF Typed
  <2> HIDE DEF s
  <2>4. ASSUME NEW f \in Frames, f \in SeqRange(hourFile[HourOf[f]])
        PROVE  f \in SeqRange(hourFile'[HourOf[f]])
    <3>1. HourOf[f] \in Hours BY HourOfIs
    <3>2. CASE HourOf[f] = h
      <4>1. hourFile'[h] = s BY <2>1, <2>2 DEF Typed
      <4> QED BY <2>2, <2>4, <3>2, <4>1
    <3>3. CASE HourOf[f] # h
      <4>1. hourFile'[HourOf[f]] = hourFile[HourOf[f]] BY <2>1, <3>1, <3>3 DEF Typed
      <4> QED BY <2>4, <4>1
    <3> QED BY <3>2, <3>3
  <2>5. \A f \in acked' : f \in SeqRange(hourFile'[HourOf[f]])
    BY <2>1, <2>4 DEF Published, Typed
  <2>6. \A f \in {latestJson', statsJson', snapshotJson', latestIndex'} \ {None} :
          f \in Frames /\ f \in SeqRange(hourFile'[HourOf[f]])
    BY <2>1, <2>4 DEF Published
  <2> QED BY <2>1, <2>3, <2>5, <2>6 DEF Published
<1>7. CASE WriteLatestJson \/ WriteStatsJson \/ WriteSnapshotJson \/ WriteIndex
  <2>1. /\ req.frame \in Frames /\ req.frame \in Nat
        /\ req.frame \in SeqRange(hourFile[HourOf[req.frame]])
    BY <1>7, MessageIs DEF WriteLatestJson, WriteStatsJson, WriteSnapshotJson, WriteIndex,
                           AtWork, Published, Frames
  <2>2. /\ statsJson <= req.frame /\ snapshotJson <= req.frame /\ latestIndex <= req.frame
    BY <1>7, NamedIsOlder DEF WriteLatestJson, WriteStatsJson, WriteSnapshotJson, WriteIndex
  <2>3. CASE WriteLatestJson
    BY <2>1, <2>2, <2>3 DEF WriteLatestJson, Published
  <2>4. CASE WriteStatsJson
    BY <2>1, <2>2, <2>4 DEF WriteStatsJson, Published
  <2>5. CASE WriteSnapshotJson
    BY <2>1, <2>2, <2>5 DEF WriteSnapshotJson, Published
  <2>6. CASE WriteIndex
    <3>1. lastWindow <= req.frame BY <2>1, <2>2 DEF Published, Typed
    <3> QED BY <2>1, <2>2, <2>6, <3>1 DEF WriteIndex, Published
  <2> QED BY <1>7, <2>3, <2>4, <2>5, <2>6
<1>8. CASE AckOk
  <2>1. req.frame \in SeqRange(hourFile[HourOf[req.frame]]) /\ latestIndex = req.frame
          /\ latestIndex \in Nat
    BY <1>8 DEF AckOk, Published, Typed
  <2>2. UNCHANGED files /\ acked' = acked \cup {req.frame} /\ lastWindow' = req.frame
          /\ ~Working'
    BY <1>8 DEF AckOk, Resume
  <2>3. lastWindow' <= latestIndex' BY <2>1, <2>2
  <2> QED BY <2>1, <2>2, <2>3 DEF Published
<1>9. CASE UNCHANGED vars BY <1>2, <1>9 DEF vars
<1> QED
  BY <1>3, <1>4, <1>5, <1>6, <1>7, <1>8, <1>9
     DEF Next, Worker, StartFails, Exit, Terminated

-----------------------------------------------------------------------------
LEMMA InitOrdered == Init => Ordered /\ Published
<1> SUFFICES ASSUME Init PROVE Ordered /\ Published
  OBVIOUS
<1>1. \A h \in Hours : hourFile[h] = <<>> BY DEF Init
<1>2. lines = <<>> /\ queue = <<>> /\ ~Working /\ hour = None
  BY DEF Init, InitMemory, Working, Writing
<1>3. \A x : ~Seen(x) BY <1>1, <1>2 DEF Seen, Stored, SeqRange
<1>4. \A k : ~Queued(k) BY <1>2 DEF Queued
<1>5. Sorted(<<>>) BY DEF Sorted
<1>6. None \notin Hours BY StorageAssumption DEF Hours, Frames, None
<1>7. Ordered BY <1>1, <1>2, <1>3, <1>4, <1>5, <1>6 DEF Ordered, Working, Writing
<1>8. Published BY <1>2 DEF Init, InitMemory, Published, None, Working, Writing
<1> QED BY <1>7, <1>8

LEMMA StorageInvariant == Spec => [](Typed /\ AtWork /\ Ordered /\ Published)
<1>2. Typed /\ AtWork /\ Ordered /\ Published /\ [Next]_vars
        => Typed' /\ AtWork' /\ Ordered' /\ Published'
  BY NextTyped, NextOrdered, NextPublished
<1> QED BY <1>2, InitTyped, InitOrdered, PTL DEF Spec

\* A frame whose persist_frame returned Ok is in its hour's file, and stays there,
\* through rewrites, failed writes, hour changes, clocks set back and restarts.
THEOREM AckedIsStoredHolds == Spec => []AckedIsStored
<1>1. Published => AckedIsStored BY DEF Published, AckedIsStored
<1> QED BY <1>1, StorageInvariant, PTL

\* The hourly files hold no frame twice and keep the order of the requests.
THEOREM HourFilesInOrderHolds == Spec => []HourFilesInOrder
<1>1. Ordered => HourFilesInOrder BY DEF Ordered, Sorted, HourFilesInOrder
<1> QED BY <1>1, StorageInvariant, PTL

\* A reader that follows a published file finds what it names, whatever has failed
\* or died between two renames.
THEOREM FilesFollowEachOtherHolds == Spec => []FilesFollowEachOther
<1>1. Published => FilesFollowEachOther BY DEF Published, FilesFollowEachOther
<1> QED BY <1>1, StorageInvariant, PTL

-----------------------------------------------------------------------------
\* The worker leaves its second loop only after shutdown() was called, and what
\* comes into the empty channel after that is late.
DrainsLate ==
  /\ cpc \in [Clients -> {"idle", "wait", "send_stop", "join", "joining", "done"}]
  /\ \A c \in Clients : cpc[c] = "send_stop" => shutdown
  /\ \A k \in DOMAIN queue : queue[k] = Stop => shutdown
  /\ draining => shutdown
  /\ wpc \in {"drain", "sync"} => draining
  /\ wpc = "sync" => \A k : Queued(k) => queue[k].frame \in late
  /\ dropped \subseteq late

LEMMA NextDrainsLate ==
  ASSUME Typed, DrainsLate, [Next]_vars
  PROVE  DrainsLate'
<1> USE DEF files, memory, chan, workerVars, clientVars, histories
<1>0. ASSUME UNCHANGED <<shutdown, queue, draining, late, dropped, cpc>>,
             wpc' \in {"drain", "sync"} => draining, wpc' = "sync" => wpc = "sync" \/ queue = <<>>
      PROVE  DrainsLate'
  <2>1. \A k : Queued(k)' <=> Queued(k) BY <1>0 DEF Queued
  <2>2. queue = <<>> => \A k : ~Queued(k) BY DEF Queued
  <2> QED BY <1>0, <2>1, <2>2 DEF DrainsLate
<1>1. ASSUME NEW c \in Clients, NEW s \in BOOLEAN, PersistFrame(c, s)
      PROVE  DrainsLate'
  <2> DEFINE m == Persist(submitted + 1, c, s)
  <2>1. submitted + 1 \in Frames
    BY <1>1, StorageAssumption DEF PersistFrame, Typed, Frames
  <2>2. m \in Messages /\ m.frame = submitted + 1 /\ m # Stop
    <3>1. m.kind = "persist" /\ Stop.kind # "persist" BY DEF Persist, Stop
    <3> QED BY <2>1, <3>1 DEF Messages, Persists, Persist
  <2>3. queue' = Append(queue, m) /\ UNCHANGED <<shutdown, draining, wpc, dropped>>
          /\ late \subseteq late' /\ (shutdown => submitted + 1 \in late')
    BY <1>1 DEF PersistFrame
  <2>4. cpc' = [cpc EXCEPT ![c] = "wait"] BY <1>1 DEF PersistFrame, ClientAt
  <2> HIDE DEF m
  <2>5. \A k : Queued(k)' => \/ Queued(k) /\ queue'[k] = queue[k]
                             \/ queue'[k] = m
    BY <2>2, <2>3, ChannelAppend
  <2>6. \A k \in DOMAIN queue' : queue'[k] = Stop => k \in DOMAIN queue /\ queue[k] = Stop
    <3>1. queue \in Seq(Messages) BY DEF Typed
    <3> QED BY <2>2, <2>3, <3>1
  <2> QED BY <2>2, <2>3, <2>4, <2>5, <2>6 DEF DrainsLate
<1>2. ASSUME NEW c \in Clients, RaiseFlag(c) PROVE DrainsLate'
  <2>1. shutdown' = TRUE /\ UNCHANGED <<queue, draining, late, dropped, wpc>>
          /\ cpc' = [cpc EXCEPT ![c] = "send_stop"]
    BY <1>2 DEF RaiseFlag, ClientAt
  <2>2. \A k : Queued(k)' <=> Queued(k) BY <2>1 DEF Queued
  <2> QED BY <2>1, <2>2 DEF DrainsLate
<1>3. ASSUME NEW c \in Clients, SendStop(c) PROVE DrainsLate'
  <2>1. shutdown /\ UNCHANGED <<shutdown, draining, late, dropped, wpc>>
          /\ cpc' = [cpc EXCEPT ![c] = "join"]
    BY <1>3 DEF SendStop, ClientAt, DrainsLate
  <2>2. \A k : Queued(k)' => Queued(k) /\ queue'[k] = queue[k]
    <3>1. Stop \in Messages /\ Stop.kind # "persist" BY DEF Messages, Stop
    <3>2. CASE queue' = Append(queue, Stop) BY <3>1, <3>2, ChannelAppend
    <3>3. CASE queue' = queue BY <3>3 DEF Queued
    <3> QED BY <1>3, <3>2, <3>3 DEF SendStop
  <2> QED BY <2>1, <2>2 DEF DrainsLate
<1>4. ASSUME NEW c \in Clients, TakeHandle(c) \/ Join(c) PROVE DrainsLate'
  <2>1. UNCHANGED <<shutdown, queue, draining, late, dropped, wpc>>
          /\ \E where \in {"done", "joining"} : cpc' = [cpc EXCEPT ![c] = where]
    BY <1>4 DEF TakeHandle, Join, ClientAt
  <2>2. \A k : Queued(k)' <=> Queued(k) BY <2>1 DEF Queued
  <2> QED BY <2>1, <2>2 DEF DrainsLate
<1>5. CASE Start \/ DrainDone \/ WriteHour \/ WriteLatestJson \/ WriteStatsJson
             \/ WriteSnapshotJson \/ WriteIndex
  BY <1>0, <1>5 DEF Start, DrainDone, WriteHour, WriteLatestJson, WriteStatsJson,
                    WriteSnapshotJson, WriteIndex, DrainsLate
<1>6. CASE CheckFlag
  <2>1. UNCHANGED <<shutdown, queue, late, dropped, cpc>> /\ draining' = shutdown
          /\ wpc' = IF shutdown THEN "drain" ELSE "recv"
    BY <1>6 DEF CheckFlag
  <2> QED BY <2>1 DEF DrainsLate
<1>7. CASE TakeRequest
  <2>1. /\ queue # <<>> /\ queue' = Tail(queue) /\ UNCHANGED <<shutdown, late, dropped, cpc>>
        /\ wpc' # "sync"
    BY <1>7 DEF TakeRequest
  <2>2. queue \in Seq(Messages) BY DEF Typed
  <2>3. \A k \in DOMAIN queue' : queue'[k] = Stop => shutdown
    BY <2>1, <2>2 DEF DrainsLate
  <2>4. (draining' => shutdown) /\ (wpc' = "drain" => draining')
    <3>1. CASE Head(queue).kind = "persist" BY <1>7, <3>1 DEF TakeRequest, DrainsLate
    <3>2. CASE Head(queue).kind # "persist"
      <4>1. Head(queue) \in Messages /\ Head(queue) = queue[1] /\ 1 \in DOMAIN queue
        BY <2>1, <2>2
      <4>2. Head(queue) = Stop BY <3>2, <4>1, MessageIs DEF Messages
      <4>3. shutdown BY <4>1, <4>2 DEF DrainsLate
      <4> QED BY <1>7, <3>2, <4>3 DEF TakeRequest
    <3> QED BY <3>1, <3>2
  <2> QED BY <2>1, <2>3, <2>4 DEF DrainsLate
<1>8. CASE StartFails \/ Exit
  <2> DEFINE lost == {queue[k] : k \in {j \in DOMAIN queue : queue[j].kind = "persist"}}
  <2>1. /\ UNCHANGED <<shutdown, draining, late>> /\ wpc' = "exited" /\ queue' = <<>>
        /\ dropped' = IF wpc = "start" THEN dropped ELSE dropped \cup {m.frame : m \in lost}
        /\ wpc \in {"start", "sync"}
    BY <1>8 DEF StartFails, Exit, Leave
  <2>2. wpc = "sync" => \A m \in lost : m.frame \in late
    BY DEF DrainsLate, Queued
  <2>3. cpc' = [c \in Clients |-> IF \E m \in lost : m.client = c THEN "idle" ELSE cpc[c]]
    BY <1>8 DEF StartFails, Exit, Leave
  <2> HIDE DEF lost
  <2>4. dropped' \subseteq late' BY <2>1, <2>2 DEF DrainsLate
  <2>5. \A c \in Clients : cpc'[c] = "idle" \/ cpc'[c] = cpc[c] BY <2>3
  <2>6. cpc' \in [Clients -> {"idle", "wait", "send_stop", "join", "joining", "done"}]
    BY <2>3 DEF DrainsLate
  <2> QED BY <2>1, <2>4, <2>5, <2>6 DEF DrainsLate
<1>9. CASE AckOk \/ AckError
  <2>1. UNCHANGED <<shutdown, queue, draining, late, dropped>> /\ wpc' = Resume
          /\ cpc' = [cpc EXCEPT ![req.client] = "idle"]
    BY <1>9 DEF AckOk, AckError, ClientAt
  <2>2. \A k : Queued(k)' <=> Queued(k) BY <2>1 DEF Queued
  <2> QED BY <2>1, <2>2 DEF DrainsLate, Resume
<1>10. CASE Crash
  <2>1. draining' = FALSE /\ queue' = <<>> /\ wpc' = "start" /\ UNCHANGED <<late, dropped>>
          /\ cpc' = [c \in Clients |-> "idle"]
    BY <1>10 DEF Crash
  <2> QED BY <2>1 DEF DrainsLate
<1>11. CASE UNCHANGED vars
  BY <1>0, <1>11 DEF vars, DrainsLate
<1> QED
  BY <1>1, <1>2, <1>3, <1>4, <1>5, <1>6, <1>7, <1>8, <1>9, <1>10, <1>11
     DEF Next, Client, Worker, Terminated

\* Only a request sent after shutdown() was called can be discarded by a worker
\* that has started, whoever races with whom.
THEOREM OnlyLateIsDroppedHolds == Spec => []OnlyLateIsDropped
<1>1. Init => DrainsLate BY DEF Init, InitMemory, DrainsLate
<1>2. Typed /\ DrainsLate /\ [Next]_vars => DrainsLate' BY NextDrainsLate
<1>3. DrainsLate => OnlyLateIsDropped BY DEF DrainsLate, OnlyLateIsDropped
<1> QED BY <1>1, <1>2, <1>3, StorageInvariant, PTL DEF Spec
-----------------------------------------------------------------------------
\* Who waits for an answer: a caller whose request is in the channel, at one place
\* of it, or at the worker, and nobody else.
CallerStates == {"idle", "wait", "send_stop", "join", "joining", "done"}
AtPlace(c, k) == Queued(k) /\ queue[k].client = c
AtWorker(c) == Working /\ req.client = c

Answers ==
  /\ cpc \in [Clients -> CallerStates]
  /\ \A c \in Clients : cpc[c] = "wait" <=> AtWorker(c) \/ \E k : AtPlace(c, k)
  /\ \A c \in Clients : AtWorker(c) => \A k : ~AtPlace(c, k)
  /\ \A c \in Clients : \A j, k : AtPlace(c, j) /\ AtPlace(c, k) => j = k

\* A step that leaves the requests where they are, and begins or ends nobody's wait.
LEMMA AnswersKept ==
  ASSUME Answers, cpc' \in [Clients -> CallerStates],
         \A c \in Clients : (cpc'[c] = "wait") <=> (cpc[c] = "wait"),
         \A k : Queued(k)' <=> Queued(k), \A k : Queued(k) => queue'[k] = queue[k],
         Working' <=> Working, Working => req' = req
  PROVE  Answers'
<1>1. \A c, k : AtPlace(c, k)' <=> AtPlace(c, k) BY DEF AtPlace
<1>2. \A c : AtWorker(c)' <=> AtWorker(c) BY DEF AtWorker
<1> QED BY <1>1, <1>2 DEF Answers

LEMMA NextAnswers ==
  ASSUME Typed, AtWork, Answers, [Next]_vars
  PROVE  Answers'
<1> USE DEF files, memory, chan, workerVars, clientVars, histories
<1>1. ASSUME NEW c \in Clients, NEW s \in BOOLEAN, PersistFrame(c, s)
      PROVE  Answers'
  <2> DEFINE m == Persist(submitted + 1, c, s)
  <2>0. PICK n \in Nat : n = Len(queue) + 1 BY DEF Typed
  <2>1. submitted + 1 \in Frames
    BY <1>1, StorageAssumption DEF PersistFrame, Typed, Frames
  <2>2. m \in Messages /\ m.client = c /\ m.kind = "persist"
    BY <2>1 DEF Messages, Persists, Persist
  <2>3. /\ queue' = Append(queue, m) /\ UNCHANGED <<wpc, req>>
        /\ cpc[c] = "idle" /\ cpc' = [cpc EXCEPT ![c] = "wait"]
    BY <1>1 DEF PersistFrame, ClientAt
  <2> HIDE DEF m
  <2>4. \A k : Queued(k)' => \/ Queued(k) /\ queue'[k] = queue[k]
                             \/ k = n /\ queue'[k] = m
    BY <2>0, <2>2, <2>3, ChannelAppend
  <2>5. /\ n \in DOMAIN queue' /\ queue'[n] = m
        /\ \A k \in DOMAIN queue : k \in DOMAIN queue' /\ queue'[k] = queue[k] /\ k # n
    <3>1. queue \in Seq(Messages) BY DEF Typed
    <3> QED BY <2>0, <2>2, <2>3, <3>1
  <2>6. Queued(n)' /\ \A k : Queued(k) => Queued(k)' /\ queue'[k] = queue[k] /\ k # n
    BY <2>2, <2>5 DEF Queued
  <2>7. \A d, k : AtPlace(d, k)' <=> AtPlace(d, k) \/ (d = c /\ k = n)
    BY <2>2, <2>4, <2>5, <2>6 DEF AtPlace
  <2>8. \A d : AtWorker(d)' <=> AtWorker(d) BY <2>3 DEF AtWorker, Working
  <2>9. ~AtWorker(c) /\ \A k : ~AtPlace(c, k) BY <2>3 DEF Answers
  <2>10. cpc' \in [Clients -> CallerStates] /\ cpc'[c] = "wait"
           /\ \A d \in Clients : d # c => cpc'[d] = cpc[d]
    BY <2>3 DEF Answers, CallerStates
  <2> QED BY <2>7, <2>8, <2>9, <2>10 DEF Answers
<1>2. ASSUME NEW c \in Clients, SendStop(c) PROVE Answers'
  <2>1. /\ UNCHANGED <<wpc, req>> /\ cpc[c] = "send_stop" /\ cpc' = [cpc EXCEPT ![c] = "join"]
    BY <1>2 DEF SendStop, ClientAt
  <2>2. Stop \in Messages /\ Stop.kind # "persist" BY DEF Messages, Stop
  <2>3. \A k : Queued(k)' <=> Queued(k)
    <3>1. CASE queue' = Append(queue, Stop)
      BY <2>2, <3>1 DEF Queued, Typed
    <3>2. CASE queue' = queue BY <3>2 DEF Queued
    <3> QED BY <1>2, <3>1, <3>2 DEF SendStop
  <2>4. \A k : Queued(k)' => queue'[k] = queue[k]
    <3>1. CASE queue' = Append(queue, Stop) BY <2>2, <3>1, ChannelAppend
    <3>2. CASE queue' = queue BY <3>2
    <3> QED BY <1>2, <3>1, <3>2 DEF SendStop
  <2>5. cpc' \in [Clients -> CallerStates]
          /\ \A d \in Clients : (cpc'[d] = "wait") <=> (cpc[d] = "wait")
    BY <2>1 DEF Answers, CallerStates
  <2> QED BY <2>1, <2>3, <2>4, <2>5, AnswersKept DEF Working
<1>3. ASSUME NEW c \in Clients, RaiseFlag(c) \/ TakeHandle(c) \/ Join(c) PROVE Answers'
  <2>1. /\ UNCHANGED <<queue, wpc, req>> /\ cpc[c] # "wait"
        /\ \E where \in {"send_stop", "done", "joining"} : cpc' = [cpc EXCEPT ![c] = where]
    BY <1>3 DEF RaiseFlag, TakeHandle, Join, ClientAt
  <2>2. cpc' \in [Clients -> CallerStates]
          /\ \A d \in Clients : (cpc'[d] = "wait") <=> (cpc[d] = "wait")
    BY <2>1 DEF Answers, CallerStates
  <2> QED BY <2>1, <2>2, AnswersKept DEF Queued, Working
<1>4. CASE Start \/ CheckFlag \/ DrainDone
  <2>1. UNCHANGED <<queue, cpc>> /\ ~Working /\ ~Working'
    BY <1>4 DEF Start, CheckFlag, DrainDone, Working, Writing
  <2> QED BY <2>1, AnswersKept DEF Answers, Queued
<1>5. CASE StartFails \/ Exit
  <2> DEFINE lost == {queue[k] : k \in {j \in DOMAIN queue : queue[j].kind = "persist"}}
  <2>1. ~Working /\ ~Working' /\ queue' = <<>>
    BY <1>5 DEF StartFails, Exit, Leave, Working, Writing
  <2>2. cpc' = [c \in Clients |-> IF \E m \in lost : m.client = c THEN "idle" ELSE cpc[c]]
    BY <1>5 DEF StartFails, Exit, Leave
  <2>3. ASSUME NEW c \in Clients PROVE cpc'[c] # "wait"
    <3>1. CASE cpc[c] = "wait"
      <4>1. PICK k : AtPlace(c, k) BY <2>1, <3>1 DEF Answers, AtWorker
      <4>2. queue[k] \in lost /\ queue[k].client = c BY <4>1 DEF AtPlace, Queued
      <4> QED BY <2>2, <4>2
    <3> QED BY <2>2, <3>1
  <2>4. cpc' \in [Clients -> CallerStates]
    BY <2>2 DEF Answers, CallerStates
  <2>5. \A c, k : ~AtPlace(c, k)' BY <2>1 DEF AtPlace, Queued
  <2> QED BY <2>1, <2>3, <2>4, <2>5 DEF Answers, AtWorker
<1>6. CASE TakeRequest
  <2>1. queue # <<>> /\ queue' = Tail(queue) /\ ~Working /\ cpc' = cpc
    BY <1>6 DEF TakeRequest, Working, Writing
  <2>2. \A k : Queued(k)' => k \in Nat /\ k >= 1 /\ Queued(k + 1) /\ queue'[k] = queue[k + 1]
    BY <2>1, ChannelTail
  <2>3. \A k : Queued(k) /\ k # 1 =>
               k \in Nat /\ Queued(k - 1)' /\ queue'[k - 1] = queue[k]
    BY <2>1 DEF Queued, Typed
  <2>4. ASSUME NEW c \in Clients, NEW j, NEW k, AtPlace(c, j)', AtPlace(c, k)'
        PROVE  j = k
    <3>1. AtPlace(c, j + 1) /\ AtPlace(c, k + 1) /\ j \in Nat /\ k \in Nat
      BY <2>2, <2>4 DEF AtPlace
    <3>2. j + 1 = k + 1 BY <3>1 DEF Answers
    <3> QED BY <3>1, <3>2
  <2>5. CASE Head(queue).kind = "persist"
    <3>1. Working' /\ req' = queue[1] /\ Queued(1)
      BY <1>6, <2>1, <2>5 DEF TakeRequest, Queued, Working, Writing, Typed
    <3>2. ASSUME NEW c \in Clients, AtWorker(c)', NEW k PROVE ~AtPlace(c, k)'
      <4> SUFFICES ASSUME AtPlace(c, k)' PROVE FALSE
        OBVIOUS
      <4>1. AtPlace(c, 1) BY <3>1, <3>2 DEF AtWorker, AtPlace
      <4>2. AtPlace(c, k + 1) /\ k \in Nat /\ k >= 1 BY <2>2 DEF AtPlace
      <4>3. 1 = k + 1 BY <4>1, <4>2 DEF Answers
      <4> QED BY <4>2, <4>3
    <3>3. ASSUME NEW c \in Clients PROVE cpc'[c] = "wait" <=> AtWorker(c)' \/ \E k : AtPlace(c, k)'
      <4>1. cpc'[c] = "wait" <=> \E k : AtPlace(c, k)
        BY <2>1 DEF Answers, AtWorker
      <4>2. ASSUME NEW k, AtPlace(c, k) PROVE AtWorker(c)' \/ \E j : AtPlace(c, j)'
        <5>1. CASE k = 1 BY <3>1, <4>2, <5>1 DEF AtPlace, AtWorker
        <5>2. CASE k # 1 BY <2>3, <4>2, <5>2 DEF AtPlace
        <5> QED BY <5>1, <5>2
      <4>3. AtWorker(c)' => AtPlace(c, 1) BY <3>1 DEF AtWorker, AtPlace
      <4>4. \A k : AtPlace(c, k)' => AtPlace(c, k + 1) BY <2>2 DEF AtPlace
      <4> QED BY <4>1, <4>2, <4>3, <4>4
    <3> QED BY <2>1, <2>4, <3>2, <3>3 DEF Answers
  <2>6. CASE Head(queue).kind # "persist"
    <3>1. ~Working' BY <1>6, <2>6 DEF TakeRequest, Working, Writing
    <3>2. ~Queued(1) BY <2>1, <2>6 DEF Queued, Typed
    <3>3. ASSUME NEW c \in Clients PROVE cpc'[c] = "wait" <=> \E k : AtPlace(c, k)'
      <4>1. cpc'[c] = "wait" <=> \E k : AtPlace(c, k)
        BY <2>1 DEF Answers, AtWorker
      <4>2. ASSUME NEW k, AtPlace(c, k) PROVE \E j : AtPlace(c, j)'
        BY <2>3, <3>2, <4>2 DEF AtPlace
      <4>3. \A k : AtPlace(c, k)' => AtPlace(c, k + 1) BY <2>2 DEF AtPlace
      <4> QED BY <4>1, <4>2, <4>3
    <3> QED BY <2>1, <2>4, <3>1, <3>3 DEF Answers, AtWorker
  <2> QED BY <2>5, <2>6
<1>7. CASE WriteHour \/ WriteLatestJson \/ WriteStatsJson \/ WriteSnapshotJson \/ WriteIndex
  <2>1. UNCHANGED <<queue, cpc, req>> /\ Working /\ Working'
    BY <1>7 DEF WriteHour, WriteLatestJson, WriteStatsJson, WriteSnapshotJson, WriteIndex,
                Working, Writing
  <2> QED BY <2>1, AnswersKept DEF Answers, Queued
<1>8. CASE AckOk \/ AckError
  <2>1. Working /\ ~Working' /\ queue' = queue /\ cpc' = [cpc EXCEPT ![req.client] = "idle"]
    BY <1>8 DEF AckOk, AckError, ClientAt, Working, Writing, Resume
  <2>2. req.client \in Clients BY <2>1 DEF AtWork, Persists, Persist
  <2>3. \A c, k : AtPlace(c, k)' <=> AtPlace(c, k) BY <2>1 DEF AtPlace, Queued
  <2>4. AtWorker(req.client) /\ \A c : AtWorker(c) => c = req.client BY <2>1 DEF AtWorker
  <2>5. \A c : ~AtWorker(c)' BY <2>1 DEF AtWorker
  <2>6. cpc' \in [Clients -> CallerStates] /\ cpc'[req.client] = "idle"
          /\ \A c \in Clients : c # req.client => cpc'[c] = cpc[c]
    BY <2>1, <2>2 DEF Answers, CallerStates
  <2> QED BY <2>2, <2>3, <2>4, <2>5, <2>6 DEF Answers
<1>9. CASE Crash
  <2>1. ~Working' /\ queue' = <<>> /\ cpc' = [c \in Clients |-> "idle"]
    BY <1>9 DEF Crash, Working, Writing
  <2>2. \A c, k : ~AtPlace(c, k)' BY <2>1 DEF AtPlace, Queued
  <2>3. cpc' \in [Clients -> CallerStates] /\ \A c \in Clients : cpc'[c] # "wait"
    BY <2>1 DEF CallerStates
  <2> QED BY <2>1, <2>2, <2>3 DEF Answers, AtWorker
<1>10. CASE UNCHANGED vars
  <2>1. UNCHANGED <<queue, cpc, req, wpc>> BY <1>10 DEF vars
  <2> QED BY <2>1, AnswersKept DEF Answers, Queued, Working
<1> QED
  BY <1>1, <1>2, <1>3, <1>4, <1>5, <1>6, <1>7, <1>8, <1>9, <1>10
     DEF Next, Client, Worker, Terminated

\* Every call of persist_frame gets exactly one answer: callers that wait are those
\* with one request in the channel or at the worker, also when the worker leaves the
\* channel behind and when callers race with shutdown().
THEOREM OneAnswerEachHolds == Spec => []OneAnswerEach
<1>1. Init => Answers
  <2> SUFFICES ASSUME Init PROVE Answers
    OBVIOUS
  <2>1. ~Working /\ queue = <<>> /\ cpc = [c \in Clients |-> "idle"]
    BY DEF Init, InitMemory, Working, Writing
  <2>2. \A c, k : ~AtPlace(c, k) BY <2>1 DEF AtPlace, Queued
  <2> QED BY <2>1, <2>2 DEF Answers, AtWorker, CallerStates
<1>2. Typed /\ AtWork /\ Answers /\ [Next]_vars => Answers' BY NextAnswers
<1>3. Answers => OneAnswerEach
  <2> SUFFICES ASSUME Answers PROVE OneAnswerEach
    OBVIOUS
  <2>1. ASSUME NEW c \in Clients
        PROVE  Cardinality({k \in DOMAIN queue : AtPlace(c, k)})
                 + (IF AtWorker(c) THEN 1 ELSE 0)
               = IF cpc[c] = "wait" THEN 1 ELSE 0
    <3> DEFINE P == {k \in DOMAIN queue : AtPlace(c, k)}
    <3>1. CASE \E k : AtPlace(c, k)
      <4>1. PICK k : AtPlace(c, k) BY <3>1
      <4>2. P = {k} BY <4>1 DEF Answers, AtPlace, Queued
      <4>3. Cardinality(P) = 1 BY <4>2, FS_Singleton
      <4>4. ~AtWorker(c) /\ cpc[c] = "wait" BY <4>1 DEF Answers
      <4> QED BY <4>3, <4>4
    <3>2. CASE \A k : ~AtPlace(c, k)
      <4>1. P = {} BY <3>2
      <4>2. Cardinality(P) = 0 BY <4>1, FS_EmptySet
      <4>3. AtWorker(c) <=> cpc[c] = "wait" BY <3>2 DEF Answers
      <4> QED BY <4>2, <4>3
    <3> QED BY <3>1, <3>2
  <2>2. ASSUME NEW c \in Clients
        PROVE  {k \in DOMAIN queue : queue[k].kind = "persist" /\ queue[k].client = c}
                 = {k \in DOMAIN queue : AtPlace(c, k)}
    BY DEF AtPlace, Queued
  <2> QED BY <2>1, <2>2 DEF OneAnswerEach, AtWorker, Working, Writing
<1> QED BY <1>1, <1>2, <1>3, StorageInvariant, PTL DEF Spec

-----------------------------------------------------------------------------
\* Requests for what is on disk.
LEMMA FramesFinite == IsFiniteSet(Frames)
<1>1. 1 \in Int /\ MaxFrames \in Int BY StorageAssumption
<1> QED BY <1>1, FS_Interval DEF Frames

\* What is taken of a file is all that matches, or as much as there is room for.
LEMMA MatchingIs ==
  ASSUME NEW s \in Seq(Frames), Sorted(s), NEW n \in Nat
  PROVE  /\ \A f \in Matching(s, n) : f \in SeqRange(s) /\ Matches(f)
         /\ \/ \A f \in SeqRange(s) : Matches(f) => f \in Matching(s, n)
            \/ n <= Cardinality(Matching(s, n))
         /\ n = Len(s) => \A f \in SeqRange(s) : Matches(f) => f \in Matching(s, n)
<1> DEFINE D == {j \in DOMAIN s : Matches(s[j])}
           I == {j \in D : Cardinality(Upto(D, j)) <= n}
<1>1. DOMAIN s = 1 .. Len(s) /\ Len(s) \in Nat /\ D \subseteq 1 .. Len(s) /\ D \subseteq Nat
  OBVIOUS
<1>2. IsFiniteSet(1 .. Len(s)) BY <1>1, FS_Interval
<1>3. IsFiniteSet(D) BY <1>1, <1>2, FS_Subset
<1>4. \A j \in DOMAIN s : {i \in 1 .. j : Matches(s[i])} = Upto(D, j) BY <1>1 DEF Upto
<1>5. Matching(s, n) = {s[k] : k \in I} BY <1>4 DEF Matching
<1>6. \A f \in Matching(s, n) : f \in SeqRange(s) /\ Matches(f) BY <1>5 DEF SeqRange
<1>7. I = D => \A f \in SeqRange(s) : Matches(f) => f \in Matching(s, n)
  BY <1>5 DEF SeqRange
<1>8. ASSUME n <= Cardinality(I) PROVE n <= Cardinality(Matching(s, n))
  <2> DEFINE F == [k \in I |-> s[k]]
             M == Matching(s, n)
  <2>1. IsFiniteSet(I) /\ Cardinality(I) \in Nat
    <3>1. I \in SUBSET D OBVIOUS
    <3> QED BY <1>3, <3>1, FS_Subset, FS_CardinalityType
  <2>2. F \in [I -> M] BY <1>5
  <2>3. \A a, b \in I : a < b => s[a] < s[b] BY DEF Sorted
  <2>4. \A a, b \in I : s[a] = s[b] => a = b
    <3> SUFFICES ASSUME NEW a \in I, NEW b \in I, s[a] = s[b], a # b PROVE FALSE
      OBVIOUS
    <3>1. a \in Nat /\ b \in Nat /\ a \in DOMAIN s /\ b \in DOMAIN s BY <1>1
    <3>2. a < b \/ b < a BY <3>1
    <3>3. s[a] < s[b] \/ s[b] < s[a] BY <2>3, <3>2
    <3>4. s[a] \in Nat /\ s[b] \in Nat
      <4>1. \A k \in DOMAIN s : s[k] \in Frames OBVIOUS
      <4> QED BY <3>1, <4>1 DEF Frames
    <3> QED BY <3>3, <3>4
  <2>5. IsInjective(F) BY <2>4 DEF IsInjective
  <2>6. F \in Injection(I, M) BY <2>2, <2>5 DEF Injection
  <2>7. SeqRange(s) \subseteq Frames BY DEF SeqRange
  <2>8. M \in SUBSET Frames BY <1>6, <2>7
  <2>9. IsFiniteSet(M) /\ Cardinality(M) \in Nat
    BY <2>8, FramesFinite, FS_Subset, FS_CardinalityType
  <2> HIDE DEF F, I
  <2>10. Cardinality(I) <= Cardinality(M) BY <2>6, <2>9, FS_Injection
  <2> QED BY <1>8, <2>1, <2>9, <2>10
<1>9. I = D \/ n <= Cardinality(I)
  <2> HIDE DEF D
  <2> QED BY <1>1, <1>3, FirstOnes
<1>10. n = Len(s) => I = D
  <2> SUFFICES ASSUME n = Len(s), NEW j \in D PROVE Cardinality(Upto(D, j)) <= n
    OBVIOUS
  <2>1. Upto(D, j) \in SUBSET (1 .. Len(s)) BY <1>1 DEF Upto
  <2>2. Cardinality(Upto(D, j)) <= Cardinality(1 .. Len(s)) BY <1>2, <2>1, FS_Subset
  <2>3. Cardinality(1 .. Len(s)) = Len(s)
    <3>1. 1 \in Int /\ Len(s) \in Int BY <1>1
    <3>2. Cardinality(1 .. Len(s)) = IF 1 > Len(s) THEN 0 ELSE Len(s) - 1 + 1
      BY <3>1, FS_Interval
    <3> QED BY <1>1, <3>2
  <2> QED BY <2>2, <2>3
<1> QED BY <1>6, <1>7, <1>8, <1>9, <1>10

-----------------------------------------------------------------------------
\* What is on disk.
OnDisk(f) == f \in Frames /\ f \in SeqRange(hourFile[HourOf[f]])

\* Every line is in the file of its hour, and the lines in memory are of one hour.
InHour ==
  /\ \A h \in Hours : \A f \in SeqRange(hourFile[h]) : HourOf[f] = h
  /\ hour \in Hours => \A f \in SeqRange(lines) : HourOf[f] = hour

\* A line left behind in memory by a failed write is newer than what is on disk.
Unwritten ==
  hour \in Hours =>
    \A x \in SeqRange(lines) \ SeqRange(hourFile[hour]) : \A y : OnDisk(y) => y < x

LEMMA OnDiskIs ==
  ASSUME Typed, InHour, NEW h \in Hours, NEW f \in SeqRange(hourFile[h])
  PROVE  OnDisk(f) /\ HourOf[f] = h /\ Seen(f)
<1>1. f \in Frames BY DEF Typed, SeqRange
<1>2. HourOf[f] = h BY DEF InHour
<1> QED BY <1>1, <1>2 DEF OnDisk, Seen, Stored

LEMMA OnDiskSeen == ASSUME NEW f, OnDisk(f) PROVE Seen(f)
BY HourOfIs DEF OnDisk, Seen, Stored

\* The line of the request at hand is one of its hour, and what it is added to is
\* newer than what is on disk, or there already.
LEMMA NewLineInHour ==
  ASSUME Typed, AtWork, Ordered, InHour, Unwritten, wpc = "hour",
         NEW h, h = HourOf[req.frame], NEW s, s = Append(LinesOf(h), req.frame)
  PROVE  /\ \A f \in SeqRange(s) : HourOf[f] = h
         /\ \A x \in SeqRange(s) \ SeqRange(hourFile[h]) : \A y : OnDisk(y) => y < x
<1>1. req.frame \in Frames /\ h \in Hours BY NewLine
<1>2. LinesOf(h) \in Seq(Frames) BY <1>1, LinesOfIs
<1>3. SeqRange(s) = SeqRange(LinesOf(h)) \cup {req.frame} BY <1>1, <1>2, AppendIs
<1>4. \A f \in SeqRange(LinesOf(h)) : HourOf[f] = h BY <1>1 DEF LinesOf, InHour
<1>5. \A y : OnDisk(y) => y < req.frame BY OnDiskSeen DEF Ordered
<1>6. \A x \in SeqRange(LinesOf(h)) \ SeqRange(hourFile[h]) : \A y : OnDisk(y) => y < x
  BY <1>1 DEF LinesOf, Unwritten
<1> QED BY <1>3, <1>4, <1>5, <1>6

DiskKept == UNCHANGED <<hourFile, hour, lines>>

\* What every step does to the files and the lines in memory.
LEMMA DiskSteps ==
  ASSUME [Next]_vars
  PROVE  \/ DiskKept
         \/ WriteHour
         \/ /\ wpc = "hour" /\ UNCHANGED hourFile /\ hour' = HourOf[req.frame]
            /\ lines' = Append(LinesOf(HourOf[req.frame]), req.frame)
         \/ UNCHANGED hourFile /\ hour' = None /\ lines' = <<>>
<1> USE DEF files, memory, chan, workerVars, clientVars, histories, DiskKept
<1>1. ASSUME NEW c \in Clients, Client(c) PROVE DiskKept
  BY <1>1 DEF Client, PersistFrame, RaiseFlag, SendStop, TakeHandle, Join
<1>2. CASE AckError BY <1>2 DEF AckError
<1>3. CASE Leave BY <1>3 DEF Leave
<1>4. CASE Start \/ CheckFlag \/ TakeRequest \/ DrainDone
  BY <1>4 DEF Start, CheckFlag, TakeRequest, DrainDone
<1>5. CASE WriteLatestJson \/ WriteStatsJson \/ WriteSnapshotJson \/ WriteIndex \/ AckOk
  BY <1>5 DEF WriteLatestJson, WriteStatsJson, WriteSnapshotJson, WriteIndex, AckOk
<1>6. CASE Crash BY <1>6 DEF Crash
<1>7. CASE UNCHANGED vars BY <1>7 DEF vars
<1> QED BY <1>1, <1>2, <1>3, <1>4, <1>5, <1>6, <1>7
        DEF Next, Worker, StartFails, Exit, Terminated

\* A line on disk stays there, and one that comes is newer than all the others.
LEMMA DiskGrows ==
  ASSUME Typed, AtWork, Ordered, InHour, Unwritten, [Next]_vars
  PROVE  /\ \A h \in Hours : SeqRange(hourFile[h]) \subseteq SeqRange(hourFile'[h])
         /\ \A f : OnDisk(f) => OnDisk(f)'
         /\ \A f : OnDisk(f)' => OnDisk(f) \/ \A y : OnDisk(y) => y < f
         /\ InHour' /\ Unwritten'
<1>1. CASE WriteHour
  <2> DEFINE h == HourOf[req.frame]
             s == Append(LinesOf(h), req.frame)
  <2>1. /\ hour' = h /\ lines' = s /\ hourFile' = [hourFile EXCEPT ![h] = s] /\ wpc = "hour"
    BY <1>1 DEF WriteHour
  <2>2. h \in Hours /\ SeqRange(hourFile[h]) \subseteq SeqRange(s) BY <2>1, NewLine
  <2>3. /\ \A f \in SeqRange(s) : HourOf[f] = h
        /\ \A x \in SeqRange(s) \ SeqRange(hourFile[h]) : \A y : OnDisk(y) => y < x
    BY <2>1, NewLineInHour
  <2> HIDE DEF h, s
  <2>4. hourFile'[h] = s /\ \A i \in Hours \ {h} : hourFile'[i] = hourFile[i]
    BY <2>1, <2>2 DEF Typed
  <2>5. \A i \in Hours : SeqRange(hourFile[i]) \subseteq SeqRange(hourFile'[i])
    BY <2>2, <2>4
  <2>6. \A f : OnDisk(f) => OnDisk(f)' BY <2>5, HourOfIs DEF OnDisk
  <2>7. ASSUME NEW f, OnDisk(f)' PROVE OnDisk(f) \/ \A y : OnDisk(y) => y < f
    <3>1. f \in Frames /\ HourOf[f] \in Hours /\ f \in SeqRange(hourFile'[HourOf[f]])
      BY <2>7, HourOfIs DEF OnDisk
    <3>2. CASE HourOf[f] = h BY <2>3, <2>4, <3>1, <3>2 DEF OnDisk
    <3>3. CASE HourOf[f] # h BY <2>4, <3>1, <3>3 DEF OnDisk
    <3> QED BY <3>2, <3>3
  <2>8. InHour' BY <2>1, <2>3, <2>4 DEF InHour
  <2>9. Unwritten' BY <2>1, <2>4 DEF Unwritten
  <2> QED BY <2>5, <2>6, <2>7, <2>8, <2>9
<1>2. ASSUME hourFile' = hourFile
      PROVE  /\ \A h \in Hours : SeqRange(hourFile[h]) \subseteq SeqRange(hourFile'[h])
             /\ \A f : OnDisk(f)' <=> OnDisk(f)
  BY <1>2 DEF OnDisk
<1>3. CASE DiskKept
  <2>1. InHour' /\ Unwritten' BY <1>2, <1>3 DEF DiskKept, InHour, Unwritten
  <2> QED BY <1>2, <1>3, <2>1 DEF DiskKept
<1>4. CASE /\ wpc = "hour" /\ UNCHANGED hourFile /\ hour' = HourOf[req.frame]
           /\ lines' = Append(LinesOf(HourOf[req.frame]), req.frame)
  <2> DEFINE h == HourOf[req.frame]
             s == Append(LinesOf(h), req.frame)
  <2>1. /\ \A f \in SeqRange(s) : HourOf[f] = h
        /\ \A x \in SeqRange(s) \ SeqRange(hourFile[h]) : \A y : OnDisk(y) => y < x
    BY <1>4, NewLineInHour
  <2>2. hour' = h /\ lines' = s /\ hourFile' = hourFile BY <1>4
  <2> HIDE DEF h, s
  <2>3. InHour' /\ Unwritten' BY <1>2, <2>1, <2>2 DEF InHour, Unwritten
  <2> QED BY <1>2, <1>4, <2>3
<1>5. CASE UNCHANGED hourFile /\ hour' = None /\ lines' = <<>>
  <2>1. None \notin Hours BY StorageAssumption DEF Hours, Frames, None
  <2>2. InHour' /\ Unwritten' BY <1>5, <2>1 DEF InHour, Unwritten
  <2> QED BY <1>2, <1>5, <2>2
<1> QED BY <1>1, <1>3, <1>4, <1>5, DiskSteps

\* All that holds of the storage and is needed here.
Sound == Typed /\ AtWork /\ Ordered /\ Published /\ InHour /\ Unwritten

LEMMA InitSound == Init => Sound
<1> SUFFICES ASSUME Init PROVE Sound
  OBVIOUS
<1>1. InHour /\ Unwritten
  <2>1. None \notin Hours BY StorageAssumption DEF Hours, Frames, None
  <2>2. \A h \in Hours : SeqRange(hourFile[h]) = {} BY DEF Init, SeqRange
  <2> QED BY <2>1, <2>2 DEF Init, InitMemory, InHour, Unwritten
<1> QED BY <1>1, InitTyped, InitOrdered DEF Sound

LEMMA NextSound ==
  ASSUME Sound, [Next]_vars
  PROVE  Sound'
<1>1. Typed' /\ AtWork' /\ Ordered' /\ Published'
  BY NextTyped, NextOrdered, NextPublished DEF Sound
<1>2. InHour' /\ Unwritten' BY DiskGrows DEF Sound
<1> QED BY <1>1, <1>2 DEF Sound

-----------------------------------------------------------------------------
\* The frames on disk, and what is published of them, against the log.
InFiles == {f \in Frames : f \in SeqRange(hourFile[HourOf[f]])}
Names == <<latestJson, statsJson, snapshotJson, latestIndex, acked>>

LEMMA InFilesIs == \A f : f \in InFiles <=> OnDisk(f)
BY DEF InFiles, OnDisk

\* Only five steps of the worker change what is published, and of those only the
\* first what is stored.
LEMMA Publishes ==
  ASSUME [Next]_vars, ~WriteHour
  PROVE  /\ UNCHANGED hourFile
         /\ \/ UNCHANGED Names
            \/ WriteLatestJson \/ WriteStatsJson \/ WriteSnapshotJson \/ WriteIndex \/ AckOk
<1> USE DEF files, memory, chan, workerVars, clientVars, histories, Names
<1>1. ASSUME NEW c \in Clients, Client(c) PROVE UNCHANGED <<hourFile, Names>>
  BY <1>1 DEF Client, PersistFrame, RaiseFlag, SendStop, TakeHandle, Join
<1>2. CASE Start \/ CheckFlag \/ TakeRequest \/ DrainDone
  BY <1>2 DEF Start, CheckFlag, TakeRequest, DrainDone
<1>3. CASE Leave BY <1>3 DEF Leave
<1>4. CASE WriteLatestJson \/ WriteStatsJson \/ WriteSnapshotJson \/ WriteIndex \/ AckOk
  BY <1>4 DEF WriteLatestJson, WriteStatsJson, WriteSnapshotJson, WriteIndex, AckOk
<1>5. CASE AckError BY <1>5 DEF AckError
<1>6. CASE Crash BY <1>6 DEF Crash
<1>7. CASE UNCHANGED vars BY <1>7 DEF vars
<1> QED BY <1>1, <1>2, <1>3, <1>4, <1>5, <1>6, <1>7
        DEF Next, Worker, StartFails, Exit, Terminated

\* The request at hand, once its line is written, is the newest on disk.
LEMMA AtHandIsNewest ==
  ASSUME Sound, Working, wpc # "hour"
  PROVE  Log!Newest(req.frame)
<1>1. req.frame \in Frames BY MessageIs DEF Sound, AtWork
<1>2. OnDisk(req.frame) BY <1>1 DEF Sound, Published, OnDisk
<1>3. \A g : OnDisk(g) => g <= req.frame BY OnDiskSeen DEF Sound, Ordered
<1> QED BY <1>2, <1>3, InFilesIs DEF Log!Newest, InFiles

LEMMA LogStep ==
  ASSUME Sound, [Next]_vars
  PROVE  [Log!Next]_(Log!logVars)
<1> USE DEF InFiles
<1>1. CASE WriteHour
  <2>1. UNCHANGED Names BY <1>1 DEF WriteHour, Names, histories
  <2>2. /\ \A f : OnDisk(f) => OnDisk(f)'
        /\ \A f : OnDisk(f)' => OnDisk(f) \/ \A y : OnDisk(y) => y < f
    BY DiskGrows DEF Sound
  <2>3. \A f : f \in InFiles' <=> OnDisk(f)' BY DEF OnDisk
  <2>4. InFiles' \in SUBSET Frames OBVIOUS
  <2>5. InFiles \subseteq InFiles' BY <2>2, <2>3, InFilesIs
  <2>6. \A f \in InFiles, g \in InFiles' \ InFiles : f < g BY <2>2, <2>3, InFilesIs
  <2>7. Log!Store BY <2>1, <2>4, <2>5, <2>6 DEF Log!Store, Names
  <2> QED BY <2>7 DEF Log!Next
<1>2. CASE ~WriteHour
  <2>1. UNCHANGED hourFile /\ InFiles' = InFiles BY <1>2, Publishes
  <2>2. CASE UNCHANGED Names BY <2>1, <2>2 DEF Log!logVars, Names
  <2>3. CASE WriteLatestJson \/ WriteStatsJson \/ WriteSnapshotJson \/ WriteIndex \/ AckOk
    <3>1. Working /\ wpc # "hour"
      BY <2>3 DEF WriteLatestJson, WriteStatsJson, WriteSnapshotJson, WriteIndex, AckOk,
                  Working, Writing
    <3> DEFINE f == req.frame
    <3>2. Log!Newest(f) /\ f \in InFiles BY <3>1, AtHandIsNewest DEF Log!Newest
    <3>3. CASE WriteLatestJson
      <4>1. Log!PublishLatest(f)
        BY <2>1, <3>2, <3>3 DEF WriteLatestJson, Log!PublishLatest, histories
      <4> QED BY <3>2, <4>1 DEF Log!Next
    <3>4. CASE WriteStatsJson
      <4>1. latestJson = f BY <3>4 DEF WriteStatsJson, Sound, Published
      <4>2. Log!PublishStats(f)
        BY <2>1, <3>2, <3>4, <4>1 DEF WriteStatsJson, Log!PublishStats, histories
      <4> QED BY <3>2, <4>2 DEF Log!Next
    <3>5. CASE WriteSnapshotJson
      <4>1. statsJson = f BY <3>5 DEF WriteSnapshotJson, Sound, Published
      <4>2. Log!PublishSnapshot(f)
        BY <2>1, <3>2, <3>5, <4>1 DEF WriteSnapshotJson, Log!PublishSnapshot, histories
      <4> QED BY <3>2, <4>2 DEF Log!Next
    <3>6. CASE WriteIndex
      <4>1. latestJson = f BY <3>6 DEF WriteIndex, Sound, Published
      <4>2. Log!PublishIndex(f)
        BY <2>1, <3>2, <3>6, <4>1 DEF WriteIndex, Log!PublishIndex, histories
      <4> QED BY <3>2, <4>2 DEF Log!Next
    <3>7. CASE AckOk
      <4>1. latestIndex = f BY <3>7 DEF AckOk, Sound, Published
      <4>2. Log!Acknowledge(f)
        BY <2>1, <3>2, <3>7, <4>1 DEF AckOk, Log!Acknowledge, files, histories
      <4> QED BY <3>2, <4>2 DEF Log!Next
    <3> QED BY <2>3, <3>3, <3>4, <3>5, <3>6, <3>7
  <2> QED BY <1>2, <2>2, <2>3, Publishes
<1> QED BY <1>1, <1>2

\* The worker with its lines in memory, its hours, failed writes, restarts and clocks
\* set back implements the log of frames the report promises.
THEOREM ImplementsLogHolds == Spec => ImplementsLog
<1>1. Init => Log!Init
  <2> SUFFICES ASSUME Init PROVE Log!Init
    OBVIOUS
  <2>1. \A f \in Frames : SeqRange(hourFile[HourOf[f]]) = {}
    BY HourOfIs DEF Init, SeqRange
  <2> QED BY <2>1 DEF Init, Log!Init, None
<1>2. Sound /\ [Next]_vars => Sound' /\ [Log!Next]_(Log!logVars) BY NextSound, LogStep
<1> QED BY <1>1, <1>2, InitSound, PTL DEF Spec, ImplementsLog, Log!Spec

-----------------------------------------------------------------------------
\* Requests.
\* Types, and that nothing is left of a request when there is none.
QueryTyped ==
  /\ asked.kind \in Kinds \cup {"none"}
  /\ list \subseteq Hours /\ out \subseteq Frames
  /\ windowOf \in Seq(Nat) /\ nextWindow \in Nat /\ Len(windowOf) = submitted
  /\ qpc \in {"idle", "fallback", "scan", "answer"}
  /\ qpc \in {"idle", "fallback"} => list = {} /\ out = {}

\* What is known to exist is on disk, what is found is, in a file that was read.
KnownOnDisk == \A f \in before \cup shown : OnDisk(f)
OutRead == \A f \in out : OnDisk(f) /\ HourOf[f] \notin list

\* A known frame that belongs to the answer is found, or its file will be read, ...
KnownInReach ==
  qpc \in {"scan", "answer"} /\ asked.kind # "stats" /\ ~Enough =>
    \A f \in before : Matches(f) => f \in out \/ HourOf[f] \in list

\* ... until all files are read or there is no more room.
ScanIsOver == qpc = "answer" => list = {} \/ Enough

\* A file listed has lines, and a frame of an earlier hour whose file was not listed
\* is newer than one of them.
ListedFirst ==
  asked.kind = "sensor" =>
    \A h \in list :
      /\ hourFile[h] # <<>>
      /\ \A g : OnDisk(g) /\ HourOf[g] < h /\ HourOf[g] \notin list
                  => \E e \in SeqRange(hourFile[h]) : e < g

\* What is older than a frame found is found, or its file will be read.
OlderInReach ==
  asked.kind = "sensor" =>
    \A f \in out : InOrder(f) =>
      \A g \in 1 .. (f - 1) : OnDisk(g) /\ Matches(g) => g \in out \/ HourOf[g] \in list

Reading == /\ QueryTyped /\ KnownOnDisk /\ OutRead /\ KnownInReach /\ ScanIsOver
           /\ ListedFirst /\ OlderInReach

LEMMA InitReading == QueriesInit => Reading
<1> SUFFICES ASSUME QueriesInit PROVE Reading
  OBVIOUS
<1>1. QueryTyped BY DEF QueriesInit, QueryTyped, Idle, Init
<1> QED BY <1>1 DEF QueriesInit, Reading, KnownOnDisk, OutRead, KnownInReach, ScanIsOver,
                    ListedFirst, OlderInReach

\* Requests leave the storage alone.
LEMMA QueriesStep == [QueriesNext]_allVars => [Next]_vars
<1> SUFFICES ASSUME [QueriesNext]_allVars PROVE [Next]_vars
  OBVIOUS
<1>1. ASSUME NEW c \in Clients, Submit(c) PROVE Next
  BY <1>1 DEF Submit, Next, Client
<1>2. CASE StorageStep BY <1>2 DEF StorageStep, Next, Client
<1>3. CASE Die BY <1>3 DEF Die, Next
<1>4. CASE Query
  BY <1>4 DEF Query, Ask, ReadFile, ReadHour, Reply, Done, ShowSnapshot, ShowLatest
<1> QED BY <1>1, <1>2, <1>3, <1>4 DEF QueriesNext, allVars

LEMMA OnDiskSubmitted ==
  ASSUME Sound, NEW f, OnDisk(f)
  PROVE  f \in Frames /\ f <= submitted /\ HourOf[f] \in Hours
BY OnDiskSeen, HourOfIs DEF Sound, Ordered, OnDisk

\* Later frames do not change the window of an earlier one.
LEMMA MatchesKept ==
  ASSUME Sound, QueryTyped, asked' = asked,
         windowOf' = windowOf \/ windowOf' = Append(windowOf, nextWindow)
  PROVE  \A f : OnDisk(f) => (Matches(f)' <=> Matches(f))
<1> SUFFICES ASSUME NEW f, OnDisk(f) PROVE Matches(f)' <=> Matches(f)
  OBVIOUS
<1>1. f \in Nat /\ 1 <= f /\ f <= submitted BY OnDiskSubmitted DEF Frames
<1>2. windowOf \in Seq(Nat) /\ Len(windowOf) = submitted BY DEF QueryTyped
<1>3. f \in 1 .. Len(windowOf) BY <1>1, <1>2
<1>4. windowOf'[f] = windowOf[f] BY <1>2, <1>3
<1> QED BY <1>4 DEF Matches

\* While the storage goes on, no request does.
LEMMA ReadingKept ==
  ASSUME Sound, Reading, [Next]_vars, UNCHANGED <<queryVars, shown>>, QueryTyped',
         windowOf' = windowOf \/ windowOf' = Append(windowOf, nextWindow)
  PROVE  Reading'
<1>1. UNCHANGED <<qpc, asked, list, out, before, shown>> BY DEF queryVars
<1>2. /\ \A h \in Hours : SeqRange(hourFile[h]) \subseteq SeqRange(hourFile'[h])
      /\ \A f : OnDisk(f) => OnDisk(f)'
      /\ \A f : OnDisk(f)' => OnDisk(f) \/ \A y : OnDisk(y) => y < f
  BY DiskGrows DEF Sound
<1>3. \A f : OnDisk(f) => (Matches(f)' <=> Matches(f))
  BY <1>1, MatchesKept DEF Reading
<1>4. KnownOnDisk' /\ OutRead' BY <1>1, <1>2 DEF Reading, KnownOnDisk, OutRead
<1>5. Enough' <=> Enough BY <1>1 DEF Enough, Limited, Most
<1>6. KnownInReach' /\ ScanIsOver'
  BY <1>1, <1>3, <1>5 DEF Reading, KnownOnDisk, KnownInReach, ScanIsOver
<1>7. ListedFirst'
  <2> SUFFICES ASSUME asked.kind = "sensor", NEW h \in list
               PROVE  /\ hourFile'[h] # <<>>
                      /\ \A g : OnDisk(g)' /\ HourOf[g] < h /\ HourOf[g] \notin list
                           => \E e \in SeqRange(hourFile'[h]) : e < g
    BY <1>1 DEF ListedFirst
  <2>1. h \in Hours BY DEF Reading, QueryTyped
  <2>2. /\ hourFile[h] # <<>>
        /\ \A g : OnDisk(g) /\ HourOf[g] < h /\ HourOf[g] \notin list
             => \E e \in SeqRange(hourFile[h]) : e < g
    BY DEF Reading, ListedFirst
  <2>3. hourFile[h] \in Seq(Frames) BY <2>1 DEF Sound, Typed
  <2>4. PICK e \in SeqRange(hourFile[h]) : TRUE
    <3>1. 1 \in DOMAIN hourFile[h] BY <2>2, <2>3
    <3> QED BY <3>1 DEF SeqRange
  <2>5. OnDisk(e) /\ e \in SeqRange(hourFile'[h])
    BY <1>2, <2>1, <2>4, OnDiskIs DEF Sound
  <2>6. hourFile'[h] # <<>> BY <2>5 DEF SeqRange
  <2>7. ASSUME NEW g, OnDisk(g)', HourOf[g] < h, HourOf[g] \notin list
        PROVE  \E x \in SeqRange(hourFile'[h]) : x < g
    <3>1. CASE OnDisk(g) BY <1>2, <2>1, <2>2, <2>7, <3>1
    <3>2. CASE ~OnDisk(g) BY <1>2, <2>5, <2>7, <3>2
    <3> QED BY <3>1, <3>2
  <2> QED BY <2>6, <2>7
<1>8. OlderInReach'
  <2> SUFFICES ASSUME asked.kind = "sensor", NEW f \in out, InOrder(f),
                      NEW g \in 1 .. (f - 1), OnDisk(g)', Matches(g)'
               PROVE  g \in out \/ HourOf[g] \in list
    BY <1>1 DEF OlderInReach, InOrder
  <2>1. OnDisk(f) BY DEF Reading, OutRead
  <2>2. f \in Nat BY <2>1 DEF OnDisk, Frames
  <2>3. OnDisk(g) BY <1>2, <2>1, <2>2
  <2> QED BY <1>3, <2>3 DEF Reading, OlderInReach
<1> QED BY <1>4, <1>6, <1>7, <1>8 DEF Reading

LEMMA HoursFinite == IsFiniteSet(Hours)
<1> DEFINE F == [f \in Frames |-> HourOf[f]]
<1>1. F \in Surjection(Frames, Hours) BY DEF Surjection, Hours
<1> QED BY <1>1, FramesFinite, FS_Surjection

LEMMA HoursNat == Hours \subseteq Nat
BY QueriesAssumption DEF Hours

LEMMA NewestIs ==
  ASSUME list \subseteq Hours, list # {}
  PROVE  Newest \in list /\ \A k \in list : k <= Newest
<1>1. IsFiniteSet(list) BY HoursFinite, FS_Subset
<1>2. list \subseteq Nat BY HoursNat
<1>3. \E h \in list : \A k \in list : k <= h BY <1>1, <1>2, Greatest
<1> QED BY <1>3 DEF Newest

LEMMA OldestIs ==
  ASSUME list \subseteq Hours, list # {}
  PROVE  Oldest \in list
<1>1. IsFiniteSet(list) BY HoursFinite, FS_Subset
<1>2. list \subseteq Nat BY HoursNat
<1>3. \E h \in list : \A k \in list : h <= k BY <1>1, <1>2, Least
<1> QED BY <1>3 DEF Oldest

\* What is added of a file, when there is room: all that matches, unless the answer is
\* full then.
LEMMA AddedIs ==
  ASSUME Sound, Reading, ~Enough, NEW h \in list
  PROVE  /\ \A f \in Added(hourFile[h]) :
              f \in SeqRange(hourFile[h]) /\ OnDisk(f) /\ HourOf[f] = h /\ Matches(f)
         /\ \/ \A f \in SeqRange(hourFile[h]) : Matches(f) => f \in Added(hourFile[h])
            \/ Limited /\ Cardinality(out \cup Added(hourFile[h])) >= Most
<1> DEFINE s == hourFile[h]
           n == IF Limited THEN Most - Cardinality(out) ELSE Len(s)
<1>1. h \in Hours /\ out \subseteq Frames BY DEF Reading, QueryTyped
<1>2. s \in Seq(Frames) /\ Sorted(s) BY <1>1 DEF Sound, Typed, Ordered
<1>3. IsFiniteSet(out) /\ Cardinality(out) \in Nat
  BY <1>1, FramesFinite, FS_Subset, FS_CardinalityType
<1>4. Most \in Nat BY QueriesAssumption DEF Most
<1>5. n \in Nat
  <2>1. CASE Limited BY <1>3, <1>4, <2>1 DEF Enough
  <2>2. CASE ~Limited BY <1>2, <2>2
  <2> QED BY <2>1, <2>2
<1>6. Added(s) = Matching(s, n) BY DEF Added
<1>7. ~Limited => n = Len(s) OBVIOUS
<1>8. Limited => n = Most - Cardinality(out) OBVIOUS
<1>9. \A f \in SeqRange(s) : OnDisk(f) /\ HourOf[f] = h
  BY <1>1, OnDiskIs DEF Sound
<1> HIDE DEF s, n
<1>10. \A f \in Added(s) : f \in SeqRange(s) /\ Matches(f)
  BY <1>2, <1>5, <1>6, MatchingIs
<1>11. CASE ~Limited
  <2>1. \A f \in SeqRange(s) : Matches(f) => f \in Added(s)
    BY <1>2, <1>5, <1>6, <1>7, <1>11, MatchingIs
  <2> QED BY <1>9, <1>10, <2>1 DEF s
<1>0. CASE Limited
  <2>1. \/ \A f \in SeqRange(s) : Matches(f) => f \in Added(s)
        \/ n <= Cardinality(Added(s))
    BY <1>2, <1>5, <1>6, MatchingIs
  <2>2. ASSUME n <= Cardinality(Added(s)) PROVE Cardinality(out \cup Added(s)) >= Most
    <3>1. Added(s) \subseteq Frames BY <1>9, <1>10 DEF OnDisk
    <3>2. IsFiniteSet(Added(s)) /\ Cardinality(Added(s)) \in Nat
      BY <3>1, FramesFinite, FS_Subset, FS_CardinalityType
    <3>3. out \cap Added(s) = {} BY <1>9, <1>10 DEF Reading, OutRead
    <3>4. Cardinality(out \cap Added(s)) = 0 BY <3>3, FS_EmptySet
    <3>5. Cardinality(out \cup Added(s))
            = Cardinality(out) + Cardinality(Added(s)) - Cardinality(out \cap Added(s))
      BY <1>3, <3>2, FS_Union
    <3>6. n = Most - Cardinality(out) BY <1>8, <1>0
    <3> QED BY <1>3, <1>4, <1>5, <2>2, <3>2, <3>4, <3>5, <3>6
  <2> QED BY <1>9, <1>10, <1>0, <2>1, <2>2 DEF s
<1> QED BY <1>11, <1>0

\* One more file is read.
LEMMA FileRead ==
  ASSUME Sound, Reading, ~Enough, qpc = "scan", NEW h \in list,
         out' = out \cup Added(hourFile[h]), list' = list \ {h},
         UNCHANGED <<vars, qpc, asked, before, windowOf, nextWindow, shown>>
  PROVE  /\ QueryTyped' /\ KnownOnDisk' /\ OutRead' /\ KnownInReach' /\ ScanIsOver'
         /\ asked.kind = "sensor" =>
              \A f \in SeqRange(hourFile[h]) : Matches(f) => f \in out'
<1>1. UNCHANGED <<hourFile, submitted>> BY DEF vars, files, histories
<1>2. /\ \A f : OnDisk(f)' <=> OnDisk(f)
      /\ \A f : Matches(f)' <=> Matches(f)
  BY <1>1 DEF OnDisk, Matches
<1>3. /\ \A f \in Added(hourFile[h]) : OnDisk(f) /\ HourOf[f] = h
      /\ \/ \A f \in SeqRange(hourFile[h]) : Matches(f) => f \in Added(hourFile[h])
         \/ Limited /\ Cardinality(out') >= Most
  BY AddedIs
<1>4. QueryTyped'
  <2>1. out' \subseteq Frames BY <1>3 DEF Reading, QueryTyped, OnDisk
  <2>2. list' \subseteq Hours BY DEF Reading, QueryTyped
  <2> QED BY <1>1, <2>1, <2>2 DEF Reading, QueryTyped
<1>5. KnownOnDisk' BY <1>2 DEF Reading, KnownOnDisk
<1>6. OutRead' BY <1>2, <1>3 DEF Reading, OutRead
<1>7. Limited /\ Cardinality(out') >= Most => Enough' BY DEF Enough, Limited, Most
<1>8. KnownInReach'
  <2> SUFFICES ASSUME asked.kind # "stats", ~Enough', NEW f \in before, Matches(f)
               PROVE  f \in out' \/ HourOf[f] \in list'
    BY <1>2 DEF KnownInReach
  <2>1. \A g \in SeqRange(hourFile[h]) : Matches(g) => g \in Added(hourFile[h])
    BY <1>3, <1>7
  <2>2. f \in out \/ HourOf[f] \in list BY DEF Reading, KnownInReach
  <2>3. f \in SeqRange(hourFile[HourOf[f]]) BY DEF Reading, KnownOnDisk, OnDisk
  <2> QED BY <2>1, <2>2, <2>3
<1>9. ScanIsOver' BY DEF ScanIsOver
<1>10. ASSUME asked.kind = "sensor" PROVE ~Limited BY <1>10 DEF Limited
<1> QED BY <1>3, <1>4, <1>5, <1>6, <1>8, <1>9, <1>10

LEMMA NewestRead ==
  ASSUME Sound, Reading, ReadFile
  PROVE  Reading'
<1> DEFINE h == Newest
<1>1. /\ qpc = "scan" /\ list # {} /\ ~Enough
      /\ out' = out \cup Added(hourFile[h]) /\ list' = list \ {h}
      /\ UNCHANGED <<vars, qpc, asked, before, windowOf, nextWindow, shown>>
  BY DEF ReadFile, windows
<1>2. list \subseteq Hours BY DEF Reading, QueryTyped
<1>3. h \in list /\ \A k \in list : k <= h BY <1>1, <1>2, NewestIs
<1> HIDE DEF h
<1>4. /\ QueryTyped' /\ KnownOnDisk' /\ OutRead' /\ KnownInReach' /\ ScanIsOver'
      /\ asked.kind = "sensor" =>
           \A f \in SeqRange(hourFile[h]) : Matches(f) => f \in out'
  BY <1>1, <1>3, FileRead
<1>5. UNCHANGED <<hourFile, submitted>> BY <1>1 DEF vars, files, histories
<1>6. /\ \A f : OnDisk(f)' <=> OnDisk(f)
      /\ \A f : Matches(f)' <=> Matches(f)
  BY <1>1, <1>5 DEF OnDisk, Matches
<1>7. ListedFirst'
  <2> SUFFICES ASSUME asked.kind = "sensor", NEW i \in list \ {h}
               PROVE  /\ hourFile[i] # <<>>
                      /\ \A g : OnDisk(g) /\ HourOf[g] < i /\ HourOf[g] \notin list \ {h}
                           => \E e \in SeqRange(hourFile[i]) : e < g
    BY <1>1, <1>5, <1>6 DEF ListedFirst
  <2>1. /\ hourFile[i] # <<>>
        /\ \A g : OnDisk(g) /\ HourOf[g] < i /\ HourOf[g] \notin list
             => \E e \in SeqRange(hourFile[i]) : e < g
    BY DEF Reading, ListedFirst
  <2>2. i \in Nat /\ h \in Nat /\ i <= h BY <1>2, <1>3, HoursNat
  <2>3. \A g : HourOf[g] < i => HourOf[g] # h BY <2>2
  <2> QED BY <2>1, <2>3
<1>8. OlderInReach'
  <2> SUFFICES ASSUME asked.kind = "sensor", NEW f \in out', InOrder(f),
                      NEW g \in 1 .. (f - 1), OnDisk(g), Matches(g)
               PROVE  g \in out' \/ HourOf[g] \in list'
    BY <1>1, <1>6 DEF OlderInReach, InOrder
  <2>1. g \in SeqRange(hourFile[HourOf[g]]) /\ g \in Frames BY DEF OnDisk
  <2>2. CASE HourOf[g] = h BY <1>4, <2>1, <2>2
  <2>3. CASE HourOf[g] # h /\ f \in out
    <3>1. g \in out \/ HourOf[g] \in list BY <2>3 DEF Reading, OlderInReach
    <3> QED BY <1>1, <2>3, <3>1
  <2>4. CASE HourOf[g] # h /\ f \notin out
    <3>1. OnDisk(f) /\ HourOf[f] = h BY <1>1, <1>3, <2>4, AddedIs
    <3>2. f \in Nat /\ g \in Nat /\ g < f /\ g \in 1 .. f /\ f \in 1 .. f
      BY <3>1 DEF OnDisk, Frames
    <3>3. g <= f /\ HourOf[g] <= h BY <3>1, <3>2 DEF InOrder
    <3>4. h \in Nat /\ HourOf[g] \in Nat BY <1>2, <1>3, <2>1, HoursNat, HourOfIs
    <3>5. HourOf[g] < h BY <2>4, <3>3, <3>4
    <3>6. HourOf[g] \in list
      <4> SUFFICES ASSUME HourOf[g] \notin list PROVE FALSE
        OBVIOUS
      <4>1. PICK e \in SeqRange(hourFile[h]) : e < g
        BY <1>3, <3>5 DEF Reading, ListedFirst
      <4>2. OnDisk(e) /\ HourOf[e] = h BY <1>2, <1>3, <4>1, OnDiskIs DEF Sound
      <4>3. e \in Nat /\ 1 <= e BY <4>2 DEF OnDisk, Frames
      <4>4. e \in 1 .. f /\ e <= g BY <3>2, <4>1, <4>3
      <4>5. h <= HourOf[g] BY <3>2, <4>2, <4>4 DEF InOrder
      <4> QED BY <3>4, <3>5, <4>5
    <3> QED BY <1>1, <2>4, <3>6
  <2> QED BY <2>2, <2>3, <2>4
<1> QED BY <1>4, <1>7, <1>8 DEF Reading

LEMMA WorkerSubmitsNothing == Worker => submitted' = submitted
<1> SUFFICES ASSUME Worker PROVE submitted' = submitted
  OBVIOUS
<1> USE DEF histories
<1>1. CASE Start \/ CheckFlag \/ TakeRequest \/ DrainDone
  BY <1>1 DEF Start, CheckFlag, TakeRequest, DrainDone
<1>2. CASE Leave BY <1>2 DEF Leave
<1>3. CASE WriteHour \/ WriteLatestJson \/ WriteStatsJson \/ WriteSnapshotJson \/ WriteIndex
  BY <1>3 DEF WriteHour, WriteLatestJson, WriteStatsJson, WriteSnapshotJson, WriteIndex
<1>4. CASE AckOk \/ AckError BY <1>4 DEF AckOk, AckError
<1> QED BY <1>1, <1>2, <1>3, <1>4 DEF Worker, StartFails, Exit

LEMMA NextReading ==
  ASSUME Sound, Reading, [QueriesNext]_allVars
  PROVE  Reading'
<1> USE DEF windows
<1>0. [Next]_vars BY QueriesStep
<1>1. ASSUME NEW c \in Clients, Submit(c) PROVE Reading'
  <2>1. /\ windowOf' = Append(windowOf, nextWindow) /\ nextWindow' = nextWindow + 1
        /\ UNCHANGED <<queryVars, shown>> /\ submitted' = submitted + 1
    BY <1>1 DEF Submit, PersistFrame
  <2>2. QueryTyped'
    <3>1. windowOf \in Seq(Nat) /\ nextWindow \in Nat /\ Len(windowOf) = submitted
      BY DEF Reading, QueryTyped
    <3>2. windowOf' \in Seq(Nat) /\ Len(windowOf') = submitted' /\ nextWindow' \in Nat
      BY <2>1, <3>1
    <3> QED BY <2>1, <3>2 DEF Reading, QueryTyped, queryVars
  <2> QED BY <1>0, <2>1, <2>2, ReadingKept
<1>2. CASE StorageStep
  <2>1. UNCHANGED <<queryVars, windowOf, nextWindow, shown>> BY <1>2 DEF StorageStep
  <2>2. submitted' = submitted
    <3>1. ASSUME NEW c \in Clients, RaiseFlag(c) \/ SendStop(c) \/ TakeHandle(c) \/ Join(c)
          PROVE  submitted' = submitted
      BY <3>1 DEF RaiseFlag, SendStop, TakeHandle, Join, histories
    <3>2. CASE Worker BY <3>2, WorkerSubmitsNothing
    <3>3. CASE Terminated BY <3>3 DEF Terminated, vars, histories
    <3> QED BY <1>2, <3>1, <3>2, <3>3 DEF StorageStep
  <2>3. QueryTyped' BY <2>1, <2>2 DEF Reading, QueryTyped, queryVars
  <2> QED BY <1>0, <2>1, <2>3, ReadingKept
<1>3. ASSUME asked' = Idle, qpc' = "idle", list' = {}, out' = {}, before' = {},
             UNCHANGED <<windowOf, shown, submitted>>, nextWindow' \in Nat
      PROVE  Reading'
  <2>1. QueryTyped' BY <1>3 DEF Reading, QueryTyped, Idle
  <2>2. \A f : OnDisk(f) => OnDisk(f)' BY <1>0, DiskGrows DEF Sound
  <2>3. KnownOnDisk' BY <1>3, <2>2 DEF Reading, KnownOnDisk
  <2> QED BY <1>3, <2>1, <2>3 DEF Reading, OutRead, KnownInReach, ScanIsOver, ListedFirst,
                                  OlderInReach
<1>4. CASE Die
  <2>1. submitted' = submitted /\ UNCHANGED <<windowOf, shown>> /\ nextWindow' = 0
    BY <1>4 DEF Die, Crash
  <2>2. CASE asked.kind = "dashboard"
    <3>1. UNCHANGED queryVars BY <1>4, <2>2 DEF Die
    <3>2. QueryTyped' BY <2>1, <3>1 DEF Reading, QueryTyped, queryVars
    <3> QED BY <1>0, <2>1, <3>1, <3>2, ReadingKept
  <2>3. CASE asked.kind # "dashboard" BY <1>3, <1>4, <2>1, <2>3 DEF Die
  <2> QED BY <2>2, <2>3
<1>5. ASSUME NEW q \in Requests, Ask(q) PROVE Reading'
  <2>1. /\ UNCHANGED <<hourFile, submitted, windowOf, nextWindow, shown, out>>
        /\ qpc = "idle" /\ qpc' = "scan" /\ asked' = q /\ before' = acked \cup shown
    BY <1>5 DEF Ask, vars, files, histories
  <2>2. out' = {} BY <2>1 DEF Reading, QueryTyped
  <2>3. q.kind \in Kinds BY QueriesAssumption
  <2>4. list' \subseteq Hours BY <1>5 DEF Ask, DataFiles, NewestFiles
  <2>5. QueryTyped' BY <2>1, <2>2, <2>3, <2>4 DEF Reading, QueryTyped
  <2>6. \A f : OnDisk(f)' <=> OnDisk(f) BY <2>1 DEF OnDisk
  <2>7. \A f \in before' \cup shown' : OnDisk(f)
    BY <2>1 DEF Sound, Published, Typed, Reading, KnownOnDisk, OnDisk
  <2>8. q.kind # "stats" => \A f : OnDisk(f) => HourOf[f] \in list'
    <3> SUFFICES ASSUME q.kind # "stats", NEW f, OnDisk(f) PROVE HourOf[f] \in list'
      OBVIOUS
    <3>1. HourOf[f] \in Hours /\ hourFile[HourOf[f]] # <<>>
      BY HourOfIs DEF OnDisk, SeqRange
    <3>2. list' = Hours \/ list' = DataFiles BY <1>5 DEF Ask
    <3> QED BY <3>1, <3>2 DEF DataFiles
  <2>9. KnownOnDisk' BY <2>6, <2>7 DEF KnownOnDisk
  <2>10. KnownInReach' BY <2>1, <2>7, <2>8 DEF KnownInReach
  <2>11. ListedFirst'
    <3>1. asked'.kind = "sensor" => list' = DataFiles BY <1>5, <2>1 DEF Ask
    <3>2. asked'.kind = "sensor" => \A f : OnDisk(f) => HourOf[f] \in list' BY <2>1, <2>8
    <3> QED BY <2>1, <2>6, <3>1, <3>2 DEF ListedFirst, DataFiles
  <2> QED BY <2>1, <2>2, <2>5, <2>9, <2>10, <2>11
          DEF Reading, OutRead, ScanIsOver, OlderInReach
<1>6. CASE ReadFile BY <1>6, NewestRead
<1>7. CASE ReadHour
  <2>1. /\ qpc = "scan" /\ asked.kind = "dashboard" /\ list # {}
        /\ out' = out \cup Added(hourFile[Oldest]) /\ list' = list \ {Oldest}
        /\ UNCHANGED <<vars, qpc, asked, before, windowOf, nextWindow, shown>>
    BY <1>7 DEF ReadHour
  <2>2. list \subseteq Hours BY DEF Reading, QueryTyped
  <2>3. Oldest \in list BY <2>1, <2>2, OldestIs
  <2>4. ~Enough BY <2>1 DEF Enough, Limited
  <2>5. QueryTyped' /\ KnownOnDisk' /\ OutRead' /\ KnownInReach' /\ ScanIsOver'
    BY <2>1, <2>3, <2>4, FileRead
  <2> QED BY <2>1, <2>5 DEF Reading, ListedFirst, OlderInReach
<1>8. CASE Done
  BY <1>3, <1>8 DEF Done, vars, histories, Reading, QueryTyped
<1>9. CASE Reply
  <2>1. /\ UNCHANGED <<hourFile, submitted, asked, list, out, before, windowOf, nextWindow, shown>>
        /\ qpc = "scan" /\ qpc' = "answer" /\ (list = {} \/ Enough)
    BY <1>9 DEF Reply, vars, files, histories
  <2>2. /\ \A f : OnDisk(f)' <=> OnDisk(f)
        /\ \A f : Matches(f)' <=> Matches(f)
        /\ Enough' <=> Enough
    BY <2>1 DEF OnDisk, Matches, Enough, Limited, Most
  <2>3. QueryTyped' BY <2>1 DEF Reading, QueryTyped
  <2>4. KnownOnDisk' /\ OutRead' BY <2>1, <2>2 DEF Reading, KnownOnDisk, OutRead
  <2>5. KnownInReach' /\ ScanIsOver' BY <2>1, <2>2 DEF Reading, KnownInReach, ScanIsOver
  <2>6. ListedFirst' BY <2>1, <2>2 DEF Reading, ListedFirst
  <2>7. OlderInReach' BY <2>1, <2>2 DEF Reading, OlderInReach, InOrder
  <2> QED BY <2>3, <2>4, <2>5, <2>6, <2>7 DEF Reading
<1>10. CASE ShowSnapshot \/ ShowLatest
  <2>1. /\ UNCHANGED <<hourFile, submitted, asked, list, out, before, windowOf, nextWindow>>
        /\ qpc \in {"idle", "fallback"} /\ qpc' \in {"idle", "fallback"}
        /\ shown' \subseteq shown \cup ({snapshotJson, latestJson} \ {None})
    BY <1>10 DEF ShowSnapshot, ShowLatest, vars, files, histories
  <2>2. \A f \in {snapshotJson, latestJson} \ {None} : OnDisk(f)
    BY DEF Sound, Published, OnDisk
  <2>3. list' = {} /\ out' = {} BY <2>1 DEF Reading, QueryTyped
  <2>4. \A f : OnDisk(f)' <=> OnDisk(f) BY <2>1 DEF OnDisk
  <2>5. QueryTyped' BY <2>1 DEF Reading, QueryTyped
  <2>6. KnownOnDisk' BY <2>1, <2>2, <2>4 DEF Reading, KnownOnDisk
  <2> QED BY <2>1, <2>3, <2>5, <2>6 DEF Reading, OutRead, KnownInReach, ScanIsOver,
                                        ListedFirst, OlderInReach
<1>11. CASE UNCHANGED allVars
  <2>1. UNCHANGED <<queryVars, windowOf, nextWindow, shown, submitted>>
    BY <1>11 DEF allVars, vars, histories
  <2>2. QueryTyped' BY <2>1 DEF Reading, QueryTyped, queryVars
  <2> QED BY <1>0, <2>1, <2>2, ReadingKept
<1> QED BY <1>1, <1>2, <1>4, <1>5, <1>6, <1>7, <1>8, <1>9, <1>10, <1>11
        DEF QueriesNext, Query

LEMMA ReadingInvariant == QueriesSpec => [](Sound /\ Reading)
<1>1. QueriesInit => Sound /\ Reading BY InitSound, InitReading DEF QueriesInit
<1>2. Sound /\ Reading /\ [QueriesNext]_allVars => Sound' /\ Reading'
  BY QueriesStep, NextSound, NextReading
<1> QED BY <1>1, <1>2, PTL DEF QueriesSpec

\* A frame that was acknowledged, or shown as the latest, is in every answer to a
\* later request that it belongs to, whatever is written, fails or dies between two
\* files that are read; only a full answer may be without it.
THEOREM KnownIsFoundHolds == QueriesSpec => []KnownIsFound
<1>1. Reading => KnownIsFound
  <2> SUFFICES ASSUME Reading, Answered, asked.kind # "stats", ~Enough,
                      NEW f \in before, Matches(f)
               PROVE  f \in out
    BY DEF KnownIsFound, Enough, Limited
  <2>1. list = {} BY DEF Reading, ScanIsOver, Answered
  <2> QED BY <2>1 DEF Reading, KnownInReach, Answered
<1> QED BY <1>1, ReadingInvariant, PTL

\* Until the clock is set back, an answer about a sensor has with a frame every
\* earlier one that is on disk, whenever that was written.
THEOREM NoHoleHolds == QueriesSpec => []NoHole
<1>1. Reading => NoHole
  <2> SUFFICES ASSUME Reading, Answered, asked.kind = "sensor", NEW f \in out, InOrder(f),
                      NEW g \in 1 .. (f - 1), Matches(g), g \in SeqRange(hourFile[HourOf[g]])
               PROVE  g \in out
    BY DEF NoHole
  <2>1. list = {} BY DEF Reading, ScanIsOver, Answered, Enough, Limited
  <2>2. f \in Frames BY DEF Reading, OutRead, OnDisk
  <2>3. OnDisk(g) BY <2>2, StorageAssumption DEF OnDisk, Frames
  <2> QED BY <2>1, <2>3 DEF Reading, OlderInReach
<1> QED BY <1>1, ReadingInvariant, PTL

\* The web server and the dashboard, which only read, leave all of it as it is.
THEOREM QueriesKeepStorage == QueriesSpec => Spec
<1>1. QueriesInit => Init BY DEF QueriesInit
<1>2. [QueriesNext]_allVars => [Next]_vars BY QueriesStep
<1> QED BY <1>1, <1>2, PTL DEF QueriesSpec, Spec

-----------------------------------------------------------------------------
\* Sums over a sequence of numbers.
LEMMA SumOverIs == ASSUME NEW v PROVE SumOver(v) = SumOf(v, DOMAIN v)
BY DEF SumOver, SumOf

LEMMA SumOverType ==
  ASSUME NEW v \in Seq(Int)
  PROVE  SumOver(v) \in Int
<1>1. DOMAIN v = 1 .. Len(v) /\ Len(v) \in Nat /\ \A k \in DOMAIN v : v[k] \in Int
  BY LenProperties
<1>2. SumOver(v) = SumOf(v, DOMAIN v)
  BY SumOverIs
<1> QED BY <1>1, <1>2, SumType, FS_Interval

LEMMA SumOverEmpty == ASSUME NEW v, DOMAIN v = {} PROVE SumOver(v) = 0
<1>1. SumOver(v) = SumOf(v, DOMAIN v)
  BY SumOverIs
<1> QED BY <1>1, SumEmpty

LEMMA SumOverAppend ==
  ASSUME NEW v \in Seq(Int), NEW x \in Int
  PROVE  SumOver(Append(v, x)) = SumOver(v) + x
<1> DEFINE w == Append(v, x)
           n == Len(v)
<1>1. /\ n \in Nat /\ DOMAIN v = 1 .. n
      /\ w \in Seq(Int) /\ Len(w) = n + 1 /\ DOMAIN w = 1 .. n + 1
      /\ w[n + 1] = x /\ \A k \in 1 .. n : w[k] = v[k]
  BY AppendProperties, LenProperties
<1>2. \A k \in DOMAIN w : w[k] \in Int
  BY <1>1
<1> HIDE DEF w, n
<1>3. SumOver(w) = SumOf(w, 1 .. n + 1) /\ SumOver(v) = SumOf(v, 1 .. n)
  BY <1>1, SumOverIs
<1>4. SumOf(w, 1 .. n + 1) = w[n + 1] + SumOf(w, (1 .. n + 1) \ {n + 1})
  <2>1. /\ IsFiniteSet(1 .. n + 1) /\ \A k \in 1 .. n + 1 : w[k] \in Int
        /\ n + 1 \in 1 .. n + 1
    BY <1>1, <1>2, FS_Interval
  <2> DEFINE D == 1 .. n + 1
             y == n + 1
  <2> HIDE DEF D, y
  <2>2. IsFiniteSet(D) /\ (\A k \in D : w[k] \in Int) /\ y \in D
    BY <2>1 DEF D, y
  <2>3. SumOf(w, D) = w[y] + SumOf(w, D \ {y})
    BY <2>2, SumRemove
  <2> QED BY <2>3 DEF D, y
<1>5. (1 .. n + 1) \ {n + 1} = 1 .. n
  BY <1>1
<1>6. SumOf(w, 1 .. n) = SumOf(v, 1 .. n)
  <2>1. IsFiniteSet(1 .. n) /\ \A k \in 1 .. n : w[k] = v[k]
    BY <1>1, FS_Interval
  <2> QED BY <2>1, SumSame
<1>7. SumOver(v) \in Int
  BY SumOverType
<1>8. SumOver(w) = x + SumOver(v)
  BY <1>1, <1>3, <1>4, <1>5, <1>6
<1> QED BY <1>7, <1>8 DEF w

-----------------------------------------------------------------------------
\* Means and moments.  The part of Unit that one of n values has.
Share(n) == Unit \div n

LEMMA ShareIs ==
  ASSUME NEW n \in 1 .. MaxCount
  PROVE  Share(n) \in Int /\ Unit = n * Share(n)
<1>1. n \in Nat \ {0} /\ Unit \in Nat /\ Unit % n = 0
  BY StatsAssumption
<1>2. Unit = (n * (Unit \div n)) + (Unit % n) /\ Unit \div n \in Int
  BY <1>1
<1> QED BY <1>1, <1>2 DEF Share

LEMMA DivExact ==
  ASSUME NEW n \in Nat \ {0}, NEW x \in Int, NEW y \in Int, y = n * x
  PROVE  y \div n = x
OBVIOUS

\* What the statistics of some values are made of: how many values there are, their
\* sum and that of their squares, and between what they lie.
Sums == [n : Nat \ {0}, s : Int, q : Int, lo : Int, hi : Int]

Stats(a) ==
  [count |-> a.n, min |-> a.lo, max |-> a.hi,
   mean |-> a.s * Share(a.n), m2 |-> (a.n * a.q - a.s * a.s) * Share(a.n)]

More(a, x) ==
  [n |-> a.n + 1, s |-> a.s + x, q |-> a.q + x * x,
   lo |-> Lower(a.lo, x), hi |-> Upper(a.hi, x)]

Both(a, b) ==
  [n |-> a.n + b.n, s |-> a.s + b.s, q |-> a.q + b.q,
   lo |-> Lower(a.lo, b.lo), hi |-> Upper(a.hi, b.hi)]

LEMMA UpdateIs ==
  ASSUME NEW a \in Sums, a.n < MaxCount, NEW x \in Int
  PROVE  Update(Stats(a), x) = Stats(More(a, x))
<1> DEFINE n == a.n
           s == a.s
           q == a.q
<1>0. n \in Nat \ {0} /\ s \in Int /\ q \in Int /\ n < MaxCount
  BY DEF Sums
<1> HIDE DEF n, s, q
<1> DEFINE u == Share(n)
           w == Share(n + 1)
           t == u - w
<1>1. /\ u \in Int /\ w \in Int /\ Unit \in Nat \ {0} /\ n \in Nat \ {0}
      /\ Unit = n * u /\ Unit = (n + 1) * w
  <2>1. n \in 1 .. MaxCount /\ n + 1 \in 1 .. MaxCount BY <1>0, StatsAssumption
  <2> QED BY <1>0, <2>1, ShareIs, StatsAssumption
<1> HIDE DEF u, w
<1>2. t \in Int /\ u = (n + 1) * t /\ w = n * t
  BY <1>0, <1>1
<1>3. Unit = n * ((n + 1) * t)
  BY <1>0, <1>1, <1>2
<1> HIDE DEF t
<1> DEFINE delta == x * Unit - s * u
           e == t * (n * x - s)
           m == s * u + delta \div (n + 1)
<1>4. delta = (n + 1) * e /\ e \in Int /\ delta \in Int
  BY <1>0, <1>1, <1>2, <1>3
<1>5. delta \div (n + 1) = e
  <2> HIDE DEF delta, e
  <2> QED BY <1>0, <1>1, <1>4, DivExact
<1>6. m = (s + x) * w
  <2>1. s * u + e = (s + x) * w
    BY <1>0, <1>1, <1>2
  <2> QED BY <1>5, <2>1
<1>7. delta * (x * Unit - m) = Unit * (t * ((n * x - s) * (n * x - s)))
  <2>1. x * Unit - (s + x) * w = n * e
    BY <1>0, <1>1, <1>2, <1>3
  <2>2. delta * (n * e) = Unit * (t * ((n * x - s) * (n * x - s)))
    <3>1. ((n + 1) * e) * (n * e) = (n * ((n + 1) * t)) * (t * ((n * x - s) * (n * x - s)))
      BY <1>0, <1>1, <1>2
    <3> HIDE DEF delta, e
    <3> QED BY <1>3, <1>4, <3>1
  <2> QED BY <1>6, <2>1, <2>2
<1> DEFINE d == t * ((n * x - s) * (n * x - s))
<1>8. (delta * (x * Unit - m)) \div Unit = d
  <2>1. d \in Int /\ Unit * d \in Int
    BY <1>0, <1>1, <1>2
  <2> HIDE DEF d, delta, m
  <2>2. (Unit * d) \div Unit = d
    BY <1>0, <1>1, <2>1, DivExact
  <2> QED BY <1>7, <2>2 DEF d
<1>9. (n * q - s * s) * u + d = ((n + 1) * (q + x * x) - (s + x) * (s + x)) * w
  BY <1>0, <1>1, <1>2
<1>10. Update(Stats(a), x) =
         [count |-> n + 1, min |-> Lower(a.lo, x), max |-> Upper(a.hi, x),
          mean |-> m, m2 |-> (n * q - s * s) * u + (delta * (x * Unit - m)) \div Unit]
  BY <1>0, <1>1 DEF Update, Stats, n, s, q, u
<1> QED
  BY <1>6, <1>8, <1>9, <1>10 DEF Stats, More, n, s, q, w

LEMMA MergeIs ==
  ASSUME NEW a \in Sums, NEW b \in Sums, a.n + b.n <= MaxCount
  PROVE  Merge(Stats(a), Stats(b)) = Stats(Both(a, b))
<1> DEFINE n == a.n
           r == b.n
           s == a.s
           z == b.s
           q == a.q
           y == b.q
<1>0. /\ n \in Nat \ {0} /\ r \in Nat \ {0} /\ n + r <= MaxCount
      /\ s \in Int /\ z \in Int /\ q \in Int /\ y \in Int
  BY DEF Sums
<1> HIDE DEF n, r, s, z, q, y
<1> DEFINE u == Share(n)
           v == Share(r)
           w == Share(n + r)
           delta == z * v - s * u
           e == z * w - s * u + s * w
           f == z * v - z * w - s * w
<1>1. /\ u \in Int /\ v \in Int /\ w \in Int /\ Unit \in Nat \ {0}
      /\ n \in Nat \ {0} /\ r \in Nat \ {0}
      /\ Unit = n * u /\ Unit = r * v /\ Unit = (n + r) * w
  <2>1. n \in 1 .. MaxCount /\ r \in 1 .. MaxCount /\ n + r \in 1 .. MaxCount
    BY <1>0, StatsAssumption
  <2> QED BY <1>0, <2>1, ShareIs, StatsAssumption
<1> HIDE DEF u, v, w
<1>2. e \in Int /\ f \in Int /\ delta \in Int /\ delta = e + f
  BY <1>0, <1>1
<1>3. delta * r = (n + r) * e
  <2>1. delta * r = z * (r * v) - s * u * r
    BY <1>0, <1>1
  <2>2. (n + r) * e = z * ((n + r) * w) - s * (n * u) - s * u * r + s * ((n + r) * w)
    BY <1>0, <1>1
  <2>3. delta * r = z * Unit - s * u * r
    BY <1>0, <1>1, <2>1
  <2>4. (n + r) * e = z * Unit - s * Unit - s * u * r + s * Unit
    BY <1>0, <1>1, <2>2
  <2>5. z * Unit - s * Unit - s * u * r + s * Unit = z * Unit - s * u * r
    BY <1>0, <1>1
  <2> QED BY <2>3, <2>4, <2>5
<1> DEFINE g == z * f - s * e
<1>4. delta * delta * n * r = ((n + r) * Unit) * g
  <2> DEFINE D == n * z - r * s
  <2>1. D \in Int
    BY <1>0, <1>1
  <2>2. n * delta = (n + r) * f
    <3>1. (n + r) * delta - r * delta = n * delta
      BY <1>0, <1>1, <1>2
    <3>2. (n + r) * e + (n + r) * f = (n + r) * delta
      <4> HIDE DEF e, f, delta
      <4>1. (n + r) * (e + f) = (n + r) * e + (n + r) * f
        BY <1>0, <1>1, <1>2
      <4> QED BY <1>2, <4>1
    <3>3. r * delta = delta * r
      <4> HIDE DEF delta
      <4> QED BY <1>0, <1>1, <1>2
    <3> HIDE DEF e, f, delta
    <3> QED BY <1>0, <1>1, <1>2, <1>3, <3>1, <3>2, <3>3
  <2>3. delta * n * r = Unit * D
    <3>1. delta * n * r = (r * v) * (n * z) - (n * u) * (r * s)
      BY <1>0, <1>1
    <3>2. delta * n * r = Unit * (n * z) - Unit * (r * s)
      BY <1>0, <1>1, <3>1
    <3> QED BY <1>0, <1>1, <3>2
  <2>4. D * delta = (n + r) * g
    <3> HIDE DEF delta, e, f
    <3>1. D * delta = z * (n * delta) - s * (delta * r)
      BY <1>0, <1>1, <1>2
    <3>2. D * delta = z * ((n + r) * f) - s * ((n + r) * e)
      BY <1>3, <2>2, <3>1
    <3> QED BY <1>0, <1>1, <1>2, <3>2
  <2>5. delta * delta * n * r = Unit * (D * delta)
    <3> HIDE DEF delta, D
    <3>1. delta * delta * n * r = delta * (delta * n * r)
      BY <1>0, <1>1, <1>2
    <3>2. delta * delta * n * r = delta * (Unit * D)
      BY <2>3, <3>1
    <3> QED BY <1>0, <1>1, <1>2, <2>1, <3>2
  <2>6. g \in Int
    BY <1>0, <1>1, <1>2
  <2> HIDE DEF delta, D, g
  <2>7. delta * delta * n * r = Unit * ((n + r) * g)
    BY <2>4, <2>5
  <2> QED BY <1>0, <1>1, <2>6, <2>7
<1>5. (delta * r) \div (n + r) = e
  <2> HIDE DEF delta, e
  <2>1. n + r \in Nat \ {0} /\ delta * r \in Int
    BY <1>0, <1>1, <1>2
  <2> QED BY <1>2, <1>3, <2>1, DivExact
<1>6. (delta * delta * n * r) \div ((n + r) * Unit) = g
  <2>1. g \in Int
    BY <1>0, <1>1, <1>2
  <2> HIDE DEF delta, g
  <2>2. (n + r) * Unit \in Nat \ {0} /\ delta * delta * n * r \in Int
    BY <1>0, <1>1, <1>2
  <2> QED BY <1>4, <2>1, <2>2, DivExact
<1>7. s * u + e = (s + z) * w
  BY <1>0, <1>1
<1>8. (n * q - s * s) * u + (r * y - z * z) * v + g
        = ((n + r) * (q + y) - (s + z) * (s + z)) * w
  <2>1. (n * q - s * s) * u = q * Unit - s * s * u
    <3>1. (n * q - s * s) * u = q * (n * u) - s * s * u
      BY <1>0, <1>1
    <3> QED BY <1>0, <1>1, <3>1
  <2>2. (r * y - z * z) * v = y * Unit - z * z * v
    <3>1. (r * y - z * z) * v = y * (r * v) - z * z * v
      BY <1>0, <1>1
    <3> QED BY <1>0, <1>1, <3>1
  <2>3. ((n + r) * (q + y) - (s + z) * (s + z)) * w
          = q * Unit + y * Unit - (s + z) * (s + z) * w
    <3>1. ((n + r) * (q + y) - (s + z) * (s + z)) * w
            = q * ((n + r) * w) + y * ((n + r) * w) - (s + z) * (s + z) * w
      BY <1>0, <1>1
    <3> QED BY <1>0, <1>1, <3>1
  <2>4. g = s * s * u + z * z * v - (s + z) * (s + z) * w
    BY <1>0, <1>1
  <2>5. (q * Unit - s * s * u) + (y * Unit - z * z * v)
           + (s * s * u + z * z * v - (s + z) * (s + z) * w)
          = q * Unit + y * Unit - (s + z) * (s + z) * w
    BY <1>0, <1>1
  <2> QED BY <2>1, <2>2, <2>3, <2>4, <2>5
<1>9. Merge(Stats(a), Stats(b)) =
        [count |-> n + r, min |-> Lower(a.lo, b.lo), max |-> Upper(a.hi, b.hi),
         mean |-> s * u + (delta * r) \div (n + r),
         m2 |-> (n * q - s * s) * u + (r * y - z * z) * v
                   + (delta * delta * n * r) \div ((n + r) * Unit)]
  BY <1>0, <1>1 DEF Merge, Stats, n, r, s, z, q, y, u, v
<1> QED BY <1>5, <1>6, <1>7, <1>8, <1>9 DEF Stats, Both, n, r, s, z, q, y, w

-----------------------------------------------------------------------------
ValueSet(v) == {v[k] : k \in DOMAIN v}
Squares(v) == [k \in DOMAIN v |-> v[k] * v[k]]

LEMMA SquaresIs ==
  ASSUME NEW v \in Seq(Int)
  PROVE  /\ Squares(v) \in Seq(Int) /\ Len(Squares(v)) = Len(v)
         /\ \A k \in 1 .. Len(v) : Squares(v)[k] = v[k] * v[k]
BY DEF Squares

\* One value more.
LEMMA OneMore ==
  ASSUME NEW v \in Seq(Int), NEW x \in Int
  PROVE  /\ Append(v, x) \in Seq(Int) /\ Len(Append(v, x)) = Len(v) + 1
         /\ Squares(Append(v, x)) = Append(Squares(v), x * x)
         /\ ValueSet(Append(v, x)) = ValueSet(v) \cup {x}
<1> DEFINE w == Append(v, x)
           n == Len(v)
<1>1. /\ n \in Nat /\ DOMAIN v = 1 .. n
      /\ w \in Seq(Int) /\ Len(w) = n + 1 /\ DOMAIN w = 1 .. n + 1
      /\ w[n + 1] = x /\ \A k \in 1 .. n : w[k] = v[k] /\ v[k] \in Int
  BY AppendProperties, LenProperties
<1> HIDE DEF w, n
<1>2. Squares(w) = Append(Squares(v), x * x)
  <2>1. x * x \in Int
    OBVIOUS
  <2> DEFINE q == Squares(v)
             s == Append(q, x * x)
  <2>2. q \in Seq(Int) /\ Len(q) = n /\ \A k \in 1 .. n : q[k] = v[k] * v[k]
    BY SquaresIs DEF n
  <2>3. s \in Seq(Int) /\ Len(s) = n + 1 /\ s[n + 1] = x * x /\ \A k \in 1 .. n : s[k] = q[k]
    <3> HIDE DEF q
    <3> QED BY <1>1, <2>1, <2>2, AppendProperties
  <2>4. Squares(w) \in Seq(Int) /\ Len(Squares(w)) = n + 1
        /\ \A k \in 1 .. n + 1 : Squares(w)[k] = w[k] * w[k]
    BY <1>1, SquaresIs
  <2>5. \A k \in 1 .. n + 1 : Squares(w)[k] = s[k]
    <3> SUFFICES ASSUME NEW k \in 1 .. n + 1 PROVE Squares(w)[k] = s[k]
      OBVIOUS
    <3> HIDE DEF s, q
    <3>1. CASE k = n + 1
      BY <1>1, <2>3, <2>4, <3>1
    <3>2. CASE k \in 1 .. n
      BY <1>1, <2>2, <2>3, <2>4, <3>2
    <3> QED BY <1>1, <3>1, <3>2
  <2> HIDE DEF s
  <2>6. Squares(w) = s
    BY <2>3, <2>4, <2>5, SeqEqual
  <2> QED BY <2>6 DEF s
<1>3. ValueSet(w) = ValueSet(v) \cup {x}
  BY <1>1 DEF ValueSet
<1> QED BY <1>1, <1>2, <1>3 DEF w, n

\* The smallest and the largest of the values.
IsMin(V, m) == m \in V /\ \A y \in V : m <= y
IsMax(V, m) == m \in V /\ \A y \in V : m >= y

LEMMA MinMaxUnique ==
  ASSUME NEW V, V \subseteq Int, NEW m
  PROVE  /\ IsMin(V, m) => Min(V) = m
         /\ IsMax(V, m) => Max(V) = m
<1>1. ASSUME IsMin(V, m) PROVE Min(V) = m
  <2>1. /\ Min(V) \in V /\ \A y \in V : Min(V) <= y
    BY <1>1 DEF IsMin, Min
  <2>2. m \in V /\ m \in Int /\ Min(V) \in Int /\ m <= Min(V)
    BY <1>1, <2>1 DEF IsMin
  <2> QED BY <2>1, <2>2
<1>2. ASSUME IsMax(V, m) PROVE Max(V) = m
  <2>1. /\ Max(V) \in V /\ \A y \in V : Max(V) >= y
    BY <1>2 DEF IsMax, Max
  <2>2. m \in V /\ m \in Int /\ Max(V) \in Int /\ m >= Max(V)
    BY <1>2, <2>1 DEF IsMax
  <2> QED BY <2>1, <2>2
<1> QED BY <1>1, <1>2

LEMMA MinMaxExist ==
  ASSUME NEW v \in Seq(Int), Len(v) # 0
  PROVE  \E lo, hi \in Int : IsMin(ValueSet(v), lo) /\ IsMax(ValueSet(v), hi)
<1> DEFINE n == Len(v)
           Bounds(k, lo, hi) == \A j \in 1 .. k : v[lo] <= v[j] /\ v[hi] >= v[j]
           T == {k \in 0 .. n - 1 : \E lo, hi \in 1 .. k + 1 : Bounds(k + 1, lo, hi)}
<1>1. n \in Nat \ {0} /\ DOMAIN v = 1 .. n /\ \A k \in 1 .. n : v[k] \in Int
  BY LenProperties
<1>2. 0 \in T
  <2>1. Bounds(1, 1, 1)
    BY <1>1
  <2> QED BY <1>1, <2>1
<1>3. ASSUME NEW k \in 0 .. n - 1, k < n - 1, k \in T PROVE k + 1 \in T
  <2>1. PICK lo, hi \in 1 .. k + 1 : Bounds(k + 1, lo, hi)
    BY <1>3
  <2> DEFINE a == IF v[k + 2] < v[lo] THEN k + 2 ELSE lo
             b == IF v[k + 2] > v[hi] THEN k + 2 ELSE hi
  <2>2. a \in 1 .. k + 2 /\ b \in 1 .. k + 2
    BY <1>1, <1>3
  <2>3. ASSUME NEW j \in 1 .. k + 2 PROVE v[a] <= v[j] /\ v[b] >= v[j]
    <3> DEFINE x == v[k + 2]
               l == v[lo]
               h == v[hi]
               y == v[j]
    <3>1. /\ x \in Int /\ l \in Int /\ h \in Int /\ y \in Int
          /\ v[a] = (IF x < l THEN x ELSE l) /\ v[b] = (IF x > h THEN x ELSE h)
      BY <1>1, <1>3
    <3>2. y = x \/ (l <= y /\ h >= y)
      <4>1. j = k + 2 \/ j \in 1 .. k + 1
        BY <1>3
      <4> QED BY <2>1, <4>1
    <3> HIDE DEF x, l, h, y, a, b
    <3>3. v[a] <= y /\ v[b] >= y
      BY <3>1, <3>2
    <3> QED BY <3>3 DEF y
  <2>4. Bounds(k + 2, a, b) /\ (k + 1) + 1 = k + 2 /\ k + 1 \in 0 .. n - 1
    BY <1>1, <1>3, <2>3
  <2> HIDE DEF Bounds, a, b
  <2> QED BY <2>2, <2>4
<1>4. n - 1 \in T
  <2> DEFINE m == n - 1
  <2>1. m \in Nat /\ 0 \in T /\ \A k \in 0 .. m : k < m /\ k \in T => k + 1 \in T
    BY <1>1, <1>2, <1>3
  <2> HIDE DEF T, m
  <2>2. 0 .. m \subseteq T
    BY <2>1, NumbersUpTo
  <2> QED BY <2>1, <2>2 DEF m
<1>5. PICK lo, hi \in 1 .. n : Bounds(n, lo, hi)
  BY <1>1, <1>4
<1>6. IsMin(ValueSet(v), v[lo]) /\ IsMax(ValueSet(v), v[hi])
  BY <1>1, <1>5 DEF IsMin, IsMax, ValueSet
<1> QED BY <1>1, <1>6

LEMMA MinMaxIs ==
  ASSUME NEW v \in Seq(Int), Len(v) # 0
  PROVE  LET V == ValueSet(v) IN
         V \subseteq Int /\ Min(V) \in Int /\ Max(V) \in Int /\ IsMin(V, Min(V)) /\ IsMax(V, Max(V))
<1> DEFINE V == ValueSet(v)
<1>1. V \subseteq Int
  BY LenProperties DEF ValueSet
<1>2. PICK lo, hi \in Int : IsMin(V, lo) /\ IsMax(V, hi)
  BY MinMaxExist
<1> HIDE DEF V
<1>3. Min(V) = lo /\ Max(V) = hi
  BY <1>1, <1>2, MinMaxUnique
<1> QED BY <1>1, <1>2, <1>3 DEF V

LEMMA MinMaxUnion ==
  ASSUME NEW A, NEW B, A \subseteq Int, B \subseteq Int,
         IsMin(A, Min(A)), IsMin(B, Min(B)), IsMax(A, Max(A)), IsMax(B, Max(B))
  PROVE  /\ Min(A \cup B) = Lower(Min(A), Min(B))
         /\ Max(A \cup B) = Upper(Max(A), Max(B))
<1> DEFINE C == A \cup B
           a == Min(A)
           b == Min(B)
           c == Max(A)
           d == Max(B)
<1>1. C \subseteq Int
  OBVIOUS
<1>2. /\ a \in A /\ a \in Int /\ b \in B /\ b \in Int /\ c \in A /\ c \in Int
      /\ d \in B /\ d \in Int
      /\ \A y \in A : y \in Int /\ a <= y /\ c >= y
      /\ \A y \in B : y \in Int /\ b <= y /\ d >= y
  BY DEF IsMin, IsMax
<1> HIDE DEF a, b, c, d
<1>3. IsMin(C, Lower(a, b)) /\ IsMax(C, Upper(c, d))
  BY <1>2 DEF IsMin, IsMax, Lower, Upper
<1> HIDE DEF C
<1>4. Min(C) = Lower(a, b) /\ Max(C) = Upper(c, d)
  BY <1>1, <1>3, MinMaxUnique
<1> QED BY <1>4 DEF a, b, c, d, C

-----------------------------------------------------------------------------
\* The statistics of a sequence are those of its sums.
SumsOf(v) ==
  [n |-> Len(v), s |-> SumOver(v), q |-> SumOver(Squares(v)),
   lo |-> Min(ValueSet(v)), hi |-> Max(ValueSet(v))]

LEMMA SumsType ==
  ASSUME NEW v \in Seq(Int), Len(v) # 0
  PROVE  SumsOf(v) \in Sums
<1>1. /\ Len(v) \in Nat \ {0} /\ SumOver(v) \in Int /\ Squares(v) \in Seq(Int)
  BY LenProperties, SumOverType, SquaresIs
<1>2. SumOver(Squares(v)) \in Int
  BY <1>1, SumOverType
<1>3. Min(ValueSet(v)) \in Int /\ Max(ValueSet(v)) \in Int
  BY MinMaxIs
<1> QED BY <1>1, <1>2, <1>3 DEF SumsOf, Sums

LEMMA StatsOfIs ==
  ASSUME NEW v \in Seq(Int), Len(v) <= MaxCount
  PROVE  StatsOf(v) = IF Len(v) = 0 THEN Default ELSE Stats(SumsOf(v))
<1>1. CASE Len(v) = 0
  BY <1>1 DEF StatsOf
<1>2. CASE Len(v) # 0
  <2> DEFINE n == Len(v)
             s == SumOver(v)
             q == SumOver(Squares(v))
             u == Share(n)
  <2>1. n \in 1 .. MaxCount /\ n \in Nat \ {0} /\ s \in Int /\ q \in Int
    BY <1>2, StatsAssumption, LenProperties, SumOverType, SquaresIs
  <2>2. StatsOf(v) = [count |-> n, min |-> Min(ValueSet(v)), max |-> Max(ValueSet(v)),
                      mean |-> (s * Unit) \div n, m2 |-> ((n * q - s * s) * Unit) \div n]
    BY <1>2 DEF StatsOf, ValueSet, Squares
  <2> HIDE DEF n, s, q
  <2>3. u \in Int /\ Unit = n * u
    BY <2>1, ShareIs
  <2> HIDE DEF u
  <2>4. (s * Unit) \div n = s * u
    <3>1. s * Unit = n * (s * u) /\ s * u \in Int /\ s * Unit \in Int
      BY <2>1, <2>3
    <3> QED BY <2>1, <3>1, DivExact
  <2>5. ((n * q - s * s) * Unit) \div n = (n * q - s * s) * u
    <3> DEFINE z == n * q - s * s
    <3>1. z \in Int
      BY <2>1
    <3> HIDE DEF z
    <3>2. z * Unit = n * (z * u) /\ z * u \in Int /\ z * Unit \in Int
      BY <2>1, <2>3, <3>1
    <3>3. (z * Unit) \div n = z * u
      BY <2>1, <3>2, DivExact
    <3> QED BY <3>3 DEF z
  <2> QED BY <1>2, <2>2, <2>4, <2>5 DEF SumsOf, Stats, n, s, q, u
<1> QED BY <1>1, <1>2

\* SensorStats::update (Welford) is exact: from the statistics of some values and
\* one value more it makes those of all of them, as they are defined.
THEOREM UpdateExact ==
  ASSUME NEW v \in Seq(Int), Len(v) < MaxCount, NEW x \in Int
  PROVE  Update(StatsOf(v), x) = StatsOf(Append(v, x))
<1> DEFINE w == Append(v, x)
           a == SumsOf(v)
<1>1. /\ Len(v) \in Nat /\ SumOver(v) \in Int /\ Squares(v) \in Seq(Int) /\ x * x \in Int
      /\ SumOver(Squares(v)) \in Int
  BY LenProperties, SumOverType, SquaresIs
<1>2. /\ w \in Seq(Int) /\ Len(w) = Len(v) + 1
      /\ ValueSet(w) = ValueSet(v) \cup {x} /\ Squares(w) = Append(Squares(v), x * x)
  BY OneMore
<1>3. SumOver(w) = SumOver(v) + x /\ SumOver(Squares(w)) = SumOver(Squares(v)) + x * x
  BY <1>1, <1>2, SumOverAppend
<1> HIDE DEF w
<1>4. StatsOf(w) = Stats(SumsOf(w))
  BY <1>1, <1>2, StatsAssumption, StatsOfIs
<1>5. Min({x}) = x /\ Max({x}) = x /\ IsMin({x}, x) /\ IsMax({x}, x)
  <2>1. IsMin({x}, x) /\ IsMax({x}, x) /\ {x} \subseteq Int
    BY DEF IsMin, IsMax
  <2> QED BY <2>1, MinMaxUnique
<1>6. CASE Len(v) = 0
  <2>1. ValueSet(v) = {} /\ DOMAIN v = {} /\ DOMAIN Squares(v) = {}
    BY <1>6, LenProperties DEF ValueSet, Squares
  <2>2. SumOver(v) = 0 /\ SumOver(Squares(v)) = 0
    BY <2>1, SumOverEmpty
  <2>3. Len(w) = 1 /\ SumOver(w) = x /\ SumOver(Squares(w)) = x * x
    BY <1>1, <1>2, <1>3, <1>6, <2>2
  <2>9. ValueSet(w) = {x}
    BY <1>2, <2>1
  <2>4. SumsOf(w) = [n |-> 1, s |-> x, q |-> x * x, lo |-> x, hi |-> x]
    BY <1>5, <2>3, <2>9 DEF SumsOf
  <2>5. Share(1) = Unit
    BY StatsAssumption, ShareIs, 1 \in 1 .. MaxCount
  <2>6. StatsOf(v) = Default
    BY <1>6 DEF StatsOf
  <2>7. Update(Default, x) = [count |-> 1, min |-> x, max |-> x, mean |-> x * Unit, m2 |-> 0]
    BY DEF Update, Default
  <2>8. (1 * (x * x) - x * x) * Unit = 0
    BY StatsAssumption
  <2> QED BY <1>4, <2>4, <2>5, <2>6, <2>7, <2>8 DEF Stats, w
<1>7. CASE Len(v) # 0
  <2>1. a \in Sums /\ a.n < MaxCount
    BY <1>7, SumsType DEF SumsOf
  <2>2. StatsOf(v) = Stats(a)
    BY <1>1, <1>7, StatsAssumption, StatsOfIs
  <2>3. Update(Stats(a), x) = Stats(More(a, x))
    <3> HIDE DEF a
    <3> QED BY <2>1, UpdateIs
  <2>4. Min(ValueSet(w)) = Lower(Min(ValueSet(v)), x) /\ Max(ValueSet(w)) = Upper(Max(ValueSet(v)), x)
    <3> DEFINE A == ValueSet(v)
               B == {x}
    <3>1. A \subseteq Int /\ B \subseteq Int /\ IsMin(A, Min(A)) /\ IsMax(A, Max(A))
      BY <1>7, MinMaxIs
    <3>2. IsMin(B, Min(B)) /\ IsMax(B, Max(B)) /\ Min(B) = x /\ Max(B) = x
      BY <1>5
    <3> HIDE DEF A, B
    <3>3. Min(A \cup B) = Lower(Min(A), Min(B)) /\ Max(A \cup B) = Upper(Max(A), Max(B))
      BY <3>1, <3>2, MinMaxUnion
    <3>4. ValueSet(w) = A \cup B
      BY <1>2 DEF A, B
    <3> QED BY <3>2, <3>3, <3>4 DEF A
  <2>5. SumsOf(w) = More(a, x)
    BY <1>2, <1>3, <2>4 DEF SumsOf, More
  <2> HIDE DEF a
  <2> QED BY <1>4, <2>2, <2>3, <2>5 DEF w
<1> QED BY <1>6, <1>7

\* One sequence of values after another.
LEMMA SumOverConcat ==
  ASSUME NEW a \in Seq(Int), NEW b \in Seq(Int)
  PROVE  SumOver(a \o b) = SumOver(a) + SumOver(b)
<1> DEFINE n == Len(b)
           Begin(k) == SubSeq(b, 1, k)
           T == {k \in 0 .. n : SumOver(a \o Begin(k)) = SumOver(a) + SumOver(Begin(k))}
<1>1. n \in Nat /\ SumOver(a) \in Int
  BY LenProperties, SumOverType
<1>2. 0 \in T
  <2>1. Begin(0) = <<>> /\ a \o <<>> = a
    OBVIOUS
  <2>2. SumOver(<<>>) = 0
    BY SumOverEmpty
  <2>3. SumOver(a \o Begin(0)) = SumOver(a) + SumOver(Begin(0))
    <3>1. a \o Begin(0) = a
      BY <2>1, Zenon
    <3>2. SumOver(Begin(0)) = 0
      BY <2>1, <2>2, Zenon
    <3>3. SumOver(a \o Begin(0)) = SumOver(a)
      BY <3>1, Zenon
    <3> HIDE DEF Begin
    <3> QED BY <1>1, <3>2, <3>3
  <2>4. 0 \in 0 .. n
    BY <1>1
  <2> HIDE DEF Begin, n
  <2> QED BY <2>3, <2>4
<1>3. ASSUME NEW k \in 0 .. n, k < n, k \in T PROVE k + 1 \in T
  <2> DEFINE x == b[k + 1]
             c == Begin(k)
             d == Begin(k + 1)
             e == a \o c
             f == a \o d
  <2>1. x \in Int /\ c \in Seq(Int) /\ d \in Seq(Int) /\ e \in Seq(Int)
    BY <1>1, <1>3
  <2>2. d = Append(c, x)
    BY <1>1, <1>3
  <2>3. a \o Append(c, x) = Append(a \o c, x)
    <3> HIDE DEF x, c
    <3> QED BY <2>1
  <2>4. SumOver(e) = SumOver(a) + SumOver(c)
    BY <1>3
  <2>5. f = Append(e, x)
    <3> HIDE DEF c, d, x
    <3> QED BY <2>2, <2>3
  <2> HIDE DEF c, d, e, f, x
  <2>6. SumOver(Append(e, x)) = SumOver(e) + x /\ SumOver(Append(c, x)) = SumOver(c) + x
    BY <2>1, SumOverAppend
  <2>7. SumOver(c) \in Int
    BY <2>1, SumOverType
  <2>8. SumOver(f) = SumOver(a) + SumOver(d)
    <3>1. SumOver(f) = SumOver(e) + x /\ SumOver(d) = SumOver(c) + x
      BY <2>2, <2>5, <2>6
    <3> QED BY <1>1, <2>1, <2>4, <2>7, <3>1
  <2> QED BY <1>1, <1>3, <2>8 DEF d, f
<1>4. n \in T
  <2> HIDE DEF T, n
  <2>1. 0 .. n \subseteq T
    BY <1>1, <1>2, <1>3, NumbersUpTo
  <2> QED BY <1>1, <2>1
<1>5. Begin(n) = b
  OBVIOUS
<1> QED BY <1>4, <1>5

LEMMA BothParts ==
  ASSUME NEW a \in Seq(Int), NEW b \in Seq(Int)
  PROVE  /\ a \o b \in Seq(Int) /\ Len(a \o b) = Len(a) + Len(b)
         /\ Squares(a \o b) = Squares(a) \o Squares(b)
         /\ ValueSet(a \o b) = ValueSet(a) \cup ValueSet(b)
<1> DEFINE c == a \o b
           m == Len(a)
           n == Len(b)
           p == Squares(a)
           q == Squares(b)
           r == Squares(c)
<1>1. /\ m \in Nat /\ n \in Nat /\ DOMAIN a = 1 .. m /\ DOMAIN b = 1 .. n
      /\ c \in Seq(Int) /\ Len(c) = m + n /\ DOMAIN c = 1 .. m + n
      /\ \A k \in 1 .. m : c[k] = a[k] /\ a[k] \in Int
      /\ \A k \in 1 .. n : c[m + k] = b[k] /\ b[k] \in Int
  BY ConcatProperties, LenProperties
<1>2. /\ p \in Seq(Int) /\ Len(p) = m /\ \A k \in 1 .. m : p[k] = a[k] * a[k]
      /\ q \in Seq(Int) /\ Len(q) = n /\ \A k \in 1 .. n : q[k] = b[k] * b[k]
      /\ r \in Seq(Int) /\ Len(r) = m + n /\ \A k \in 1 .. m + n : r[k] = c[k] * c[k]
  <2> HIDE DEF c
  <2> QED BY <1>1, SquaresIs
<1> HIDE DEF c, m, n, p, q, r
<1>3. ASSUME NEW k \in 1 .. m + n
      PROVE  k \in 1 .. m \/ (k - m \in 1 .. n /\ c[k] = b[k - m])
  <2>1. CASE k > m
    <3>1. k - m \in 1 .. n /\ m + (k - m) = k
      BY <1>1, <2>1
    <3> QED BY <1>1, <3>1
  <2>2. CASE ~(k > m)
    BY <1>1, <2>2
  <2> QED BY <2>1, <2>2
<1>4. r = p \o q
  <2>1. p \o q \in Seq(Int) /\ Len(p \o q) = m + n
    BY <1>2, ConcatProperties
  <2>2. ASSUME NEW k \in 1 .. m + n PROVE r[k] = (p \o q)[k]
    <3>1. CASE k \in 1 .. m
      BY <1>1, <1>2, <3>1
    <3>2. CASE ~(k \in 1 .. m)
      <4>1. k - m \in 1 .. n /\ c[k] = b[k - m]
        BY <1>3, <3>2
      <4>2. (p \o q)[k] = q[k - m]
        <5>1. (p \o q)[k] = IF k <= Len(p) THEN p[k] ELSE q[k - Len(p)]
          BY <1>1, <1>2, ConcatProperties
        <5> QED BY <1>1, <1>2, <3>2, <5>1
      <4> QED BY <1>1, <1>2, <4>1, <4>2
    <3> QED BY <3>1, <3>2
  <2> DEFINE z == p \o q
  <2> HIDE DEF z
  <2>3. z = r
    BY <1>2, <2>1, <2>2, SeqEqual DEF z
  <2> QED BY <2>3 DEF z
<1>5. ValueSet(c) = ValueSet(a) \cup ValueSet(b)
  <2>1. ASSUME NEW k \in 1 .. n PROVE m + k \in 1 .. m + n /\ c[m + k] = b[k]
    BY <1>1
  <2>2. ASSUME NEW k \in 1 .. m PROVE k \in 1 .. m + n
    BY <1>1
  <2>3. ValueSet(a) \subseteq ValueSet(c) /\ ValueSet(b) \subseteq ValueSet(c)
    BY <1>1, <2>1, <2>2 DEF ValueSet
  <2>4. ASSUME NEW k \in 1 .. m + n PROVE c[k] \in ValueSet(a) \cup ValueSet(b)
    BY <1>1, <1>3 DEF ValueSet
  <2>5. ValueSet(c) \subseteq ValueSet(a) \cup ValueSet(b)
    BY <1>1, <2>4 DEF ValueSet
  <2> QED BY <2>3, <2>5
<1> QED BY <1>1, <1>4, <1>5 DEF c, m, n, p, q, r

LEMMA SumsOfConcat ==
  ASSUME NEW a \in Seq(Int), NEW b \in Seq(Int), Len(a) # 0, Len(b) # 0
  PROVE  SumsOf(a \o b) = Both(SumsOf(a), SumsOf(b))
<1> DEFINE c == a \o b
<1>1. /\ c \in Seq(Int) /\ Len(c) = Len(a) + Len(b)
      /\ Squares(c) = Squares(a) \o Squares(b)
      /\ ValueSet(c) = ValueSet(a) \cup ValueSet(b)
  BY BothParts
<1>2. SumOver(c) = SumOver(a) + SumOver(b)
  BY SumOverConcat
<1>3. SumOver(Squares(c)) = SumOver(Squares(a)) + SumOver(Squares(b))
  <2> DEFINE p == Squares(a)
             q == Squares(b)
  <2>1. p \in Seq(Int) /\ q \in Seq(Int)
    BY SquaresIs
  <2> HIDE DEF p, q
  <2>2. SumOver(p \o q) = SumOver(p) + SumOver(q)
    BY <2>1, SumOverConcat
  <2> QED BY <1>1, <2>2 DEF p, q
<1>4. /\ Min(ValueSet(c)) = Lower(Min(ValueSet(a)), Min(ValueSet(b)))
      /\ Max(ValueSet(c)) = Upper(Max(ValueSet(a)), Max(ValueSet(b)))
  <2> DEFINE A == ValueSet(a)
             B == ValueSet(b)
  <2>1. /\ A \subseteq Int /\ B \subseteq Int
        /\ IsMin(A, Min(A)) /\ IsMax(A, Max(A)) /\ IsMin(B, Min(B)) /\ IsMax(B, Max(B))
    BY MinMaxIs
  <2> HIDE DEF A, B
  <2>2. Min(A \cup B) = Lower(Min(A), Min(B)) /\ Max(A \cup B) = Upper(Max(A), Max(B))
    BY <2>1, MinMaxUnion
  <2> QED BY <1>1, <2>2 DEF A, B
<1> HIDE DEF c
<1> QED BY <1>1, <1>2, <1>3, <1>4 DEF SumsOf, Both, c

LEMMA BothCommutes ==
  ASSUME NEW a \in Sums, NEW b \in Sums
  PROVE  Both(a, b) = Both(b, a)
BY DEF Both, Sums, Lower, Upper

\* SensorStats::merge (Chan) is exact: from the statistics of two parts it makes
\* those of the whole, whichever part is merged into the other.
THEOREM MergeExact ==
  ASSUME NEW a \in Seq(Int), NEW b \in Seq(Int), Len(a) + Len(b) <= MaxCount
  PROVE  /\ Merge(StatsOf(a), StatsOf(b)) = StatsOf(a \o b)
         /\ Merge(StatsOf(b), StatsOf(a)) = StatsOf(a \o b)
<1>1. Len(a) \in Nat /\ Len(b) \in Nat /\ MaxCount \in Nat
  BY LenProperties, StatsAssumption
<1>2. ASSUME NEW v \in Seq(Int)
      PROVE  StatsOf(v).count = Len(v) /\ (Len(v) = 0 => StatsOf(v) = Default)
  BY DEF StatsOf, Default
<1>3. CASE Len(a) = 0
  <2>1. a = <<>> /\ a \o b = b
    BY <1>3, EmptySeq
  <2>2. StatsOf(a).count = 0 /\ (StatsOf(b).count = 0 => StatsOf(b) = StatsOf(a))
    BY <1>2, <1>3
  <2> QED BY <2>1, <2>2 DEF Merge
<1>4. CASE Len(b) = 0
  <2>1. b = <<>> /\ a \o b = a
    BY <1>4, EmptySeq
  <2>2. StatsOf(b).count = 0 /\ (StatsOf(a).count = 0 => StatsOf(b) = StatsOf(a))
    BY <1>2, <1>4
  <2> QED BY <2>1, <2>2 DEF Merge
<1>5. CASE Len(a) # 0 /\ Len(b) # 0
  <2> DEFINE c == a \o b
             p == SumsOf(a)
             q == SumsOf(b)
  <2>1. c \in Seq(Int) /\ Len(c) = Len(a) + Len(b)
    BY BothParts
  <2>2. p \in Sums /\ q \in Sums /\ p.n = Len(a) /\ q.n = Len(b)
    BY <1>5, SumsType DEF SumsOf
  <2>3. SumsOf(c) = Both(p, q)
    BY <1>5, SumsOfConcat
  <2> HIDE DEF c
  <2>4. StatsOf(a) = Stats(p) /\ StatsOf(b) = Stats(q) /\ StatsOf(c) = Stats(SumsOf(c))
    BY <1>1, <1>5, <2>1, StatsOfIs
  <2> HIDE DEF p, q
  <2>5. p.n + q.n <= MaxCount /\ q.n + p.n <= MaxCount
    BY <1>1, <2>2
  <2>6. Merge(Stats(p), Stats(q)) = Stats(Both(p, q)) /\ Merge(Stats(q), Stats(p)) = Stats(Both(q, p))
    BY <2>2, <2>5, MergeIs
  <2>7. Both(p, q) = Both(q, p)
    BY <2>2, BothCommutes
  <2> QED BY <2>3, <2>4, <2>6, <2>7 DEF c
<1> QED BY <1>3, <1>4, <1>5

-----------------------------------------------------------------------------
\* What read_sensor_file makes of a file.
Text == [id : Nat, value : Int]
File == Seq(Seq(Text))

NextRead(t, line) == IF Parses(line) THEN Append(t, line[1]) ELSE t

IsReadings(r, file) ==
  r = [k \in 0 .. Len(file) |-> IF k = 0 THEN <<>>
                                ELSE IF Parses(file[k]) THEN Append(r[k - 1], file[k][1])
                                ELSE r[k - 1]]

LEMMA ReadingsChosen ==
  ASSUME NEW file
  PROVE  Readings(file) = (CHOOSE r : IsReadings(r, file))[Len(file)]
BY DEF Readings, IsReadings

LEMMA ReadingsIs ==
  ASSUME NEW r, NEW file, IsReadings(r, file)
  PROVE  /\ 0 \in 0 .. Len(file) => r[0] = <<>>
         /\ \A k \in 0 .. Len(file) : k # 0 => r[k] = NextRead(r[k - 1], file[k])
BY DEF IsReadings, NextRead

LEMMA LineIs ==
  ASSUME NEW line \in Seq(Text), Parses(line)
  PROVE  line[1] \in Text
<1>1. Len(line) = 1
  BY DEF Parses
<1> QED BY <1>1, ElementOfSeq

LEMMA ReadingsExist ==
  ASSUME NEW file \in File
  PROVE  \E r : IsReadings(r, file)
<1> DEFINE n == Len(file)
           X == Seq(Text)
           g == [p \in (1 .. n) \X X |-> NextRead(p[2], file[p[1]])]
<1>1. n \in Nat /\ <<>> \in X /\ \A k \in 1 .. n : file[k] \in X
  BY LenProperties DEF File
<1>2. ASSUME NEW k \in 1 .. n, NEW t \in X PROVE NextRead(t, file[k]) \in X
  <2>1. CASE Parses(file[k])
    <3>1. file[k][1] \in Text
      BY <1>1, <2>1, LineIs
    <3> QED BY <2>1, <3>1, AppendProperties DEF NextRead
  <2> QED BY <2>1 DEF NextRead
<1> HIDE DEF n, X
<1>3. g \in [(1 .. n) \X X -> X]
  BY <1>2
<1>4. ASSUME NEW k \in 1 .. n, NEW t \in X PROVE g[<<k, t>>] = NextRead(t, file[k])
  OBVIOUS
<1> HIDE DEF g
<1>5. PICK r \in [0 .. n -> X] : r[0] = <<>> /\ \A k \in 1 .. n : r[k] = g[<<k, r[k - 1]>>]
  <2> DEFINE a == <<>>
  <2>1. n \in Nat /\ a \in X
    BY <1>1
  <2> HIDE DEF a
  <2>2. \E r : StepByStep(r, n, X, a, g)
    BY <1>3, <2>1, Recursion
  <2> QED BY <2>2 DEF a, StepByStep
<1>6. ASSUME NEW k \in 0 .. n
      PROVE  r[k] = IF k = 0 THEN <<>>
                    ELSE IF Parses(file[k]) THEN Append(r[k - 1], file[k][1])
                    ELSE r[k - 1]
  <2>1. CASE k = 0
    BY <1>5, <2>1
  <2>2. CASE k # 0
    <3>1. k \in 1 .. n /\ k - 1 \in 0 .. n
      BY <1>1, <2>2
    <3>2. r[k] = NextRead(r[k - 1], file[k])
      BY <1>4, <1>5, <3>1
    <3> QED BY <2>2, <3>2 DEF NextRead
  <2> QED BY <2>1, <2>2
<1>7. IsReadings(r, file)
  BY <1>5, <1>6 DEF IsReadings, n
<1> QED BY <1>7

LEMMA ReadingsGet ==
  ASSUME NEW file \in File
  PROVE  \E r : /\ Readings(file) = r[Len(file)] /\ r[0] = <<>>
                /\ \A k \in 1 .. Len(file) : r[k] = NextRead(r[k - 1], file[k])
<1> DEFINE r == CHOOSE r : IsReadings(r, file)
<1>1. IsReadings(r, file)
  BY ReadingsExist
<1>2. Readings(file) = r[Len(file)]
  BY ReadingsChosen
<1> HIDE DEF r
<1>3. Len(file) \in Nat
  BY LenProperties DEF File
<1>4. 0 \in 0 .. Len(file) /\ \A k \in 1 .. Len(file) : k \in 0 .. Len(file) /\ k # 0
  BY <1>3
<1> QED BY <1>1, <1>2, <1>4, ReadingsIs

LEMMA ReadingsType ==
  ASSUME NEW file \in File
  PROVE  Readings(file) \in Seq(Text) /\ Len(Readings(file)) <= Len(file)
<1> DEFINE n == Len(file)
<1>1. PICK r : /\ Readings(file) = r[n] /\ r[0] = <<>>
               /\ \A k \in 1 .. n : r[k] = NextRead(r[k - 1], file[k])
  BY ReadingsGet
<1>2. n \in Nat /\ \A k \in 1 .. n : file[k] \in Seq(Text)
  BY LenProperties DEF File
<1> HIDE DEF n
<1> DEFINE T == {k \in 0 .. n : r[k] \in Seq(Text) /\ Len(r[k]) <= k}
<1>3. 0 \in T
  <2>1. r[0] \in Seq(Text) /\ Len(r[0]) = 0
    BY <1>1
  <2> QED BY <1>2, <2>1
<1>4. ASSUME NEW k \in 0 .. n, k < n, k \in T PROVE k + 1 \in T
  <2> DEFINE t == r[k]
             line == file[k + 1]
  <2>1. /\ k + 1 \in 1 .. n /\ (k + 1) - 1 = k /\ k + 1 \in 0 .. n
    BY <1>2, <1>4
  <2>2. t \in Seq(Text) /\ Len(t) \in Nat /\ Len(t) <= k /\ line \in Seq(Text)
    BY <1>2, <1>4, <2>1
  <2>3. r[k + 1] = NextRead(t, line)
    BY <1>1, <2>1
  <2> HIDE DEF t, line
  <2>4. NextRead(t, line) \in Seq(Text) /\ Len(NextRead(t, line)) <= k + 1
    <3>1. CASE Parses(line)
      <4>1. line[1] \in Text
        BY <2>2, <3>1, LineIs
      <4>2. Append(t, line[1]) \in Seq(Text) /\ Len(Append(t, line[1])) = Len(t) + 1
        BY <2>2, <4>1, AppendProperties
      <4> QED BY <1>2, <2>2, <3>1, <4>2 DEF NextRead
    <3>2. CASE ~Parses(line)
      BY <1>2, <2>2, <3>2 DEF NextRead
    <3> QED BY <3>1, <3>2
  <2> QED BY <2>1, <2>3, <2>4
<1>5. n \in T
  <2> HIDE DEF T
  <2>1. 0 .. n \subseteq T
    BY <1>2, <1>3, <1>4, NumbersUpTo
  <2> QED BY <1>2, <2>1
<1> QED BY <1>1, <1>5 DEF n

LEMMA ReadingsEmpty == Readings(<<>>) = <<>>
<1>1. <<>> \in File /\ Len(<<>>) = 0
  BY DEF File
<1> QED BY <1>1, ReadingsGet

\* The file with one line more gives what it gave and, if the line parses, that.
LEMMA ReadingsAppend ==
  ASSUME NEW file \in File, NEW line \in Seq(Text)
  PROVE  Readings(Append(file, line)) = NextRead(Readings(file), line)
<1> DEFINE n == Len(file)
           more == Append(file, line)
<1>1. /\ n \in Nat /\ more \in File /\ Len(more) = n + 1 /\ more[n + 1] = line
      /\ \A k \in 1 .. n : more[k] = file[k]
  BY LenProperties, AppendProperties DEF File
<1>2. PICK r : /\ Readings(file) = r[n] /\ r[0] = <<>>
               /\ \A k \in 1 .. n : r[k] = NextRead(r[k - 1], file[k])
  BY ReadingsGet
<1> HIDE DEF n, more
<1>3. PICK q : /\ Readings(more) = q[n + 1] /\ q[0] = <<>>
               /\ \A k \in 1 .. n + 1 : q[k] = NextRead(q[k - 1], more[k])
  <2>1. \E q : /\ Readings(more) = q[Len(more)] /\ q[0] = <<>>
               /\ \A k \in 1 .. Len(more) : q[k] = NextRead(q[k - 1], more[k])
    BY <1>1, ReadingsGet
  <2> QED BY <1>1, <2>1
<1> DEFINE T == {k \in 0 .. n : q[k] = r[k]}
<1>4. 0 \in T
  BY <1>1, <1>2, <1>3
<1>5. ASSUME NEW k \in 0 .. n, k < n, k \in T PROVE k + 1 \in T
  <2> DEFINE j == k + 1
  <2>1. j \in 1 .. n /\ j \in 1 .. n + 1 /\ j - 1 = k /\ j \in 0 .. n
    BY <1>1, <1>5
  <2> HIDE DEF j
  <2>2. r[j] = NextRead(r[k], file[j]) /\ q[j] = NextRead(q[k], more[j]) /\ more[j] = file[j]
    BY <1>1, <1>2, <1>3, <2>1
  <2>3. q[k] = r[k]
    BY <1>5
  <2>4. j \in T
    BY <2>1, <2>2, <2>3
  <2> QED BY <2>4 DEF j
<1>6. q[n] = r[n]
  <2> HIDE DEF T
  <2>1. 0 .. n \subseteq T
    BY <1>1, <1>4, <1>5, NumbersUpTo
  <2> QED BY <1>1, <2>1 DEF T
<1>7. n + 1 \in 1 .. n + 1 /\ (n + 1) - 1 = n
  BY <1>1
<1>8. q[n + 1] = NextRead(q[n], line)
  BY <1>1, <1>3, <1>7
<1> QED BY <1>2, <1>3, <1>6, <1>8 DEF more

-----------------------------------------------------------------------------
\* The loop of aggregate_from_raw_data.
IsAdded(f, v) ==
  f = [k \in 0 .. Len(v) |-> IF k = 0 THEN Default ELSE Update(f[k - 1], v[k])]

LEMMA AddedOneByOne ==
  ASSUME NEW f, NEW v, IsAdded(f, v)
  PROVE  /\ 0 \in 0 .. Len(v) => f[0] = Default
         /\ \A k \in 0 .. Len(v) : k # 0 => f[k] = Update(f[k - 1], v[k])
BY DEF IsAdded

LEMMA AddedExact ==
  ASSUME NEW v \in Seq(Int), Len(v) <= MaxCount
  PROVE  (CHOOSE f : IsAdded(f, v))[Len(v)] = StatsOf(v)
<1> DEFINE n == Len(v)
           Begin(k) == SubSeq(v, 1, k)
           g == [k \in 0 .. n |-> StatsOf(Begin(k))]
<1>1. n \in Nat /\ n <= MaxCount /\ MaxCount \in Nat
  BY LenProperties, StatsAssumption
<1>2. StatsOf(Begin(0)) = Default
  <2>1. Len(Begin(0)) = 0
    OBVIOUS
  <2> QED BY <2>1 DEF StatsOf
<1>3. ASSUME NEW k \in 1 .. n
      PROVE  StatsOf(Begin(k)) = Update(StatsOf(Begin(k - 1)), v[k])
  <2> DEFINE a == Begin(k - 1)
             x == v[k]
  <2>1. a \in Seq(Int) /\ Len(a) = k - 1 /\ x \in Int /\ Begin(k) = Append(a, x)
    BY <1>1
  <2>2. Len(a) < MaxCount
    BY <1>1, <2>1
  <2> HIDE DEF a, x
  <2>3. Update(StatsOf(a), x) = StatsOf(Append(a, x))
    BY <2>1, <2>2, UpdateExact
  <2> HIDE DEF Begin
  <2> QED BY <2>1, <2>3 DEF a, x
<1>4. IsAdded(g, v)
  <2> HIDE DEF Begin
  <2>1. ASSUME NEW k \in 0 .. n
        PROVE  g[k] = IF k = 0 THEN Default ELSE Update(g[k - 1], v[k])
    <3>1. CASE k = 0
      BY <1>2, <3>1
    <3>2. CASE k # 0
      <4>1. k \in 1 .. n /\ k - 1 \in 0 .. n
        BY <1>1, <3>2
      <4>2. g[k] = StatsOf(Begin(k)) /\ g[k - 1] = StatsOf(Begin(k - 1))
        BY <4>1
      <4> HIDE DEF g
      <4> QED BY <1>3, <3>2, <4>1, <4>2
    <3> QED BY <3>1, <3>2
  <2>2. g = [k \in 0 .. n |-> g[k]]
    OBVIOUS
  <2> HIDE DEF g
  <2>3. [k \in 0 .. n |-> g[k]]
          = [k \in 0 .. n |-> IF k = 0 THEN Default ELSE Update(g[k - 1], v[k])]
    BY <2>1
  <2> QED BY <2>2, <2>3 DEF IsAdded
<1> DEFINE f == CHOOSE f : IsAdded(f, v)
<1>5. IsAdded(f, v)
  <2> HIDE DEF g
  <2> QED BY <1>4
<1> HIDE DEF f
<1>6. f[0] = Default /\ \A k \in 1 .. n : f[k] = Update(f[k - 1], v[k])
  <2>1. 0 \in 0 .. n /\ \A k \in 1 .. n : k \in 0 .. n /\ k # 0
    BY <1>1
  <2> QED BY <1>5, <2>1, AddedOneByOne
<1> DEFINE T == {k \in 0 .. n : f[k] = StatsOf(Begin(k))}
<1>7. 0 \in T
  <2> HIDE DEF Begin, n
  <2> QED BY <1>1, <1>2, <1>6
<1>8. ASSUME NEW k \in 0 .. n, k < n, k \in T PROVE k + 1 \in T
  <2> DEFINE j == k + 1
  <2>1. j \in 1 .. n /\ j - 1 = k /\ j \in 0 .. n
    BY <1>1, <1>8
  <2> HIDE DEF j, Begin, n
  <2>2. f[j] = Update(f[k], v[j]) /\ StatsOf(Begin(j)) = Update(StatsOf(Begin(k)), v[j])
    BY <1>3, <1>6, <2>1
  <2>3. j \in T
    BY <1>8, <2>1, <2>2
  <2> QED BY <2>3 DEF j
<1>9. n \in T
  <2> HIDE DEF T, n
  <2>1. 0 .. n \subseteq T
    BY <1>1, <1>7, <1>8, NumbersUpTo
  <2> QED BY <1>1, <2>1
<1>10. Begin(n) = v
  OBVIOUS
<1> QED BY <1>9, <1>10 DEF f

LEMMA AggregatedIs ==
  ASSUME NEW s
  PROVE  Aggregated(s) = (CHOOSE f : IsAdded(f, ValuesOf(seen[s])))[Len(ValuesOf(seen[s]))]
BY DEF Aggregated, IsAdded

LEMMA ValuesOfType ==
  ASSUME NEW t \in Seq(Text)
  PROVE  ValuesOf(t) \in Seq(Int) /\ Len(ValuesOf(t)) = Len(t)
<1>1. Len(t) \in Nat /\ DOMAIN t = 1 .. Len(t) /\ \A k \in DOMAIN t : t[k] \in Text
  BY LenProperties
<1>3. \A k \in DOMAIN t : t[k].value \in Int
  BY <1>1 DEF Text
<1>2. ValuesOf(t) \in [1 .. Len(t) -> Int]
  BY <1>1, <1>3 DEF ValuesOf
<1> QED BY <1>1, <1>2, LenProperties, SeqDef

LEMMA SplitExact ==
  ASSUME NEW v \in Seq(Int), Len(v) <= MaxCount, NEW k \in 0 .. Len(v)
  PROVE  LET a == StatsOf(SubSeq(v, 1, k))
             b == StatsOf(SubSeq(v, k + 1, Len(v)))
         IN  Merge(a, b) = StatsOf(v) /\ Merge(b, a) = StatsOf(v)
<1> DEFINE p == SubSeq(v, 1, k)
           q == SubSeq(v, k + 1, Len(v))
<1>1. p \in Seq(Int) /\ q \in Seq(Int) /\ Len(p) = k /\ Len(q) = Len(v) - k
  OBVIOUS
<1>2. v = p \o q
  <2> DEFINE m == 1
             n == Len(v)
  <2>1. m \in 1 .. Len(v) + 1 /\ k \in m - 1 .. Len(v) /\ n \in k .. Len(v)
    BY LenProperties
  <2> HIDE DEF m, n
  <2>2. SubSeq(v, m, k) \o SubSeq(v, k + 1, n) = SubSeq(v, m, n)
    BY <2>1, ConcatAdjacentSubSeq
  <2> QED BY <2>2, SubSeqFull DEF m, n
<1> HIDE DEF p, q
<1>3. Len(p) + Len(q) <= MaxCount
  BY <1>1, StatsAssumption, LenProperties
<1>4. Merge(StatsOf(p), StatsOf(q)) = StatsOf(p \o q) /\ Merge(StatsOf(q), StatsOf(p)) = StatsOf(p \o q)
  BY <1>1, <1>3, MergeExact
<1> QED BY <1>2, <1>4 DEF p, q

-----------------------------------------------------------------------------
\* The last line of a file and what a text does to it.
LastLine(file) == file[Len(file)]
Others(file) == SubSeq(file, 1, Len(file) - 1)
Joined(file, t) == [file EXCEPT ![Len(file)] = Append(@, t)]
WholeId(line) == IF Parses(line) THEN {line[1].id} ELSE {}

LEMMA IdsMore ==
  ASSUME NEW t \in Seq(Text), NEW line \in Seq(Text)
  PROVE  Ids(NextRead(t, line)) = Ids(t) \cup WholeId(line)
<1>1. CASE Parses(line)
  <2> DEFINE x == line[1]
             n == Len(t)
             u == Append(t, x)
  <2>1. x \in Text
    BY <1>1, LineIs
  <2>2. n \in Nat /\ DOMAIN t = 1 .. n /\ DOMAIN u = 1 .. n + 1
        /\ u[n + 1] = x /\ \A k \in 1 .. n : u[k] = t[k]
    BY <2>1, AppendProperties, LenProperties
  <2> HIDE DEF n, u, x
  <2>3. Ids(u) = Ids(t) \cup {x.id}
    BY <2>2 DEF Ids
  <2> QED BY <1>1, <2>3 DEF NextRead, WholeId, u, x
<1>2. CASE ~Parses(line)
  BY <1>2 DEF NextRead, WholeId
<1> QED BY <1>1, <1>2

LEMMA IdsAppend ==
  ASSUME NEW file \in File, NEW line \in Seq(Text)
  PROVE  Ids(Readings(Append(file, line))) = Ids(Readings(file)) \cup WholeId(line)
BY ReadingsAppend, ReadingsType, IdsMore

LEMMA FileParts ==
  ASSUME NEW file \in File, file # <<>>, NEW t \in Text
  PROVE  /\ Len(file) \in Nat \ {0}
         /\ Others(file) \in File /\ LastLine(file) \in Seq(Text)
         /\ file = Append(Others(file), LastLine(file))
         /\ Joined(file, t) = Append(Others(file), Append(LastLine(file), t))
<1> DEFINE n == Len(file)
           L == Seq(Text)
           r == LastLine(file)
           q == Append(r, t)
<1>1. n \in Nat \ {0} /\ file \in Seq(L) /\ file \in [1 .. n -> L]
  BY LenProperties, EmptySeq DEF File
<1>2. r \in L /\ q \in L
  BY <1>1 DEF LastLine
<1> HIDE DEF L
<1>3. Others(file) \in Seq(L) /\ Len(Others(file)) = n - 1
      /\ \A k \in 1 .. n - 1 : Others(file)[k] = file[k]
  BY <1>1 DEF Others
<1> HIDE DEF r, q, n
<1>4. ASSUME NEW l \in L
      PROVE  /\ Append(Others(file), l) \in Seq(L) /\ Len(Append(Others(file), l)) = n
             /\ \A k \in 1 .. n : Append(Others(file), l)[k] = IF k = n THEN l ELSE file[k]
  <2> DEFINE o == Others(file)
  <2>1. o \in Seq(L) /\ Len(o) = n - 1 /\ \A k \in 1 .. n - 1 : o[k] = file[k]
    BY <1>3
  <2> HIDE DEF o
  <2>2. Append(o, l) \in Seq(L) /\ Len(Append(o, l)) = n /\ Append(o, l)[n] = l
        /\ \A k \in 1 .. n - 1 : Append(o, l)[k] = o[k]
    BY <1>1, <2>1
  <2>3. \A k \in 1 .. n : k = n \/ k \in 1 .. n - 1
    BY <1>1
  <2> QED BY <2>1, <2>2, <2>3 DEF o
<1>5. file = Append(Others(file), r)
  <2> DEFINE a == Append(Others(file), r)
  <2>1. a \in Seq(L) /\ Len(a) = n /\ \A k \in 1 .. n : a[k] = file[k]
    BY <1>2, <1>4 DEF r, n, LastLine
  <2> HIDE DEF a
  <2>2. a = file
    BY <1>1, <2>1, SeqEqual DEF n
  <2> QED BY <2>2 DEF a
<1>6. Joined(file, t) = Append(Others(file), q)
  <2> DEFINE a == Append(Others(file), q)
             b == Joined(file, t)
  <2>1. a \in Seq(L) /\ Len(a) = n /\ \A k \in 1 .. n : a[k] = IF k = n THEN q ELSE file[k]
    BY <1>2, <1>4
  <2>2. b = [file EXCEPT ![n] = q]
    BY DEF Joined, n, q, r, LastLine
  <2>3. b \in Seq(L) /\ Len(b) = n /\ \A k \in 1 .. n : b[k] = IF k = n THEN q ELSE file[k]
    BY <1>1, <1>2, <2>2, ExceptSeq DEF n
  <2> HIDE DEF a, b
  <2>4. a = b
    BY <2>1, <2>3, SeqEqual
  <2> QED BY <2>4 DEF a, b
<1> QED BY <1>1, <1>2, <1>3, <1>5, <1>6 DEF File, L, r, q, n

LEMMA JoinedIs ==
  ASSUME NEW file \in File, file # <<>>, LastLine(file) # <<>>, NEW t \in Text
  PROVE  /\ Joined(file, t) \in File /\ Len(Joined(file, t)) = Len(file)
         /\ LastLine(Joined(file, t)) # <<>> /\ ~Parses(LastLine(Joined(file, t)))
         /\ Ids(Readings(file)) \subseteq Ids(Readings(Joined(file, t))) \cup WholeId(LastLine(file))
<1> DEFINE o == Others(file)
           l == LastLine(file)
           q == Append(l, t)
           g == Joined(file, t)
<1>1. /\ o \in File /\ l \in Seq(Text) /\ file = Append(o, l) /\ g = Append(o, q)
      /\ l # <<>>
  BY FileParts
<1> HIDE DEF o, l, g
<1>2. q \in Seq(Text) /\ Len(q) = Len(l) + 1 /\ Len(l) \in Nat \ {0}
  BY <1>1, AppendProperties, EmptySeq
<1>3. q # <<>> /\ ~Parses(q)
  BY <1>2, EmptySeq DEF Parses
<1> HIDE DEF q
<1>4. /\ g \in File /\ Len(g) = Len(o) + 1 /\ Len(file) = Len(o) + 1
      /\ Len(o) \in Nat /\ LastLine(g) = q
  BY <1>1, <1>2, AppendProperties, LenProperties DEF File, LastLine
<1>5. /\ Ids(Readings(g)) = Ids(Readings(o)) \cup WholeId(q)
      /\ Ids(Readings(file)) = Ids(Readings(o)) \cup WholeId(l)
  BY <1>1, <1>2, IdsAppend
<1>6. Ids(Readings(file)) \subseteq Ids(Readings(g)) \cup WholeId(l)
  BY <1>5
<1> QED BY <1>3, <1>4, <1>6 DEF g, l

LEMMA NewLineIs ==
  ASSUME NEW file \in File, NEW t \in Text
  PROVE  LET more == Append(file, <<t>>) IN
         /\ more \in File /\ Len(more) = Len(file) + 1 /\ LastLine(more) = <<t>>
         /\ LastLine(more) # <<>> /\ (Parses(LastLine(more)) <=> t # Piece)
         /\ Readings(more) = (IF t = Piece THEN Readings(file) ELSE Append(Readings(file), t))
         /\ Ids(Readings(more)) = Ids(Readings(file)) \cup (IF t = Piece THEN {} ELSE {t.id})
<1> DEFINE l == <<t>>
           more == Append(file, l)
<1>1. l \in Seq(Text) /\ Len(l) = 1 /\ l[1] = t /\ l # <<>> /\ (Parses(l) <=> t # Piece)
  BY DEF Parses
<1> HIDE DEF l
<1>2. /\ more \in File /\ Len(more) = Len(file) + 1 /\ LastLine(more) = l
  BY <1>1, AppendProperties, LenProperties DEF File, LastLine
<1>3. Readings(more) = NextRead(Readings(file), l)
  BY <1>1, ReadingsAppend
<1>4. Ids(Readings(more)) = Ids(Readings(file)) \cup WholeId(l)
  BY <1>1, IdsAppend
<1> HIDE DEF more
<1> QED BY <1>1, <1>2, <1>3, <1>4 DEF NextRead, WholeId, l, more

-----------------------------------------------------------------------------
\* What a sensor's file owes: the readings it has lost, the one in the reader's
\* hand if it will be lost, and what the next text will cost that joins a line
\* without an end: itself, and the reading of that line.
LostOf(p, file) == p \ Ids(Readings(file))

InHand(file, pc, i) == IF pc # "text" /\ i \notin Ids(Readings(file)) THEN 1 ELSE 0

Kept(file, pc, i, p) ==
  Parses(LastLine(file)) /\ (LastLine(file)[1].id \in p \/ (pc = "push" /\ LastLine(file)[1].id = i))

AtRisk(file, op, pc, i, p) ==
  IF ~op \/ pc = "end" THEN 0 ELSE IF Kept(file, pc, i, p) THEN 2 ELSE 1

Owed(file, op, pc, i, p) ==
  Cardinality(LostOf(p, file)) + InHand(file, pc, i) + AtRisk(file, op, pc, i, p)

LEMMA CardinalityUpTo ==
  ASSUME NEW A, NEW B, IsFiniteSet(B)
  PROVE  /\ IsFiniteSet(A) => Cardinality(A) \in Nat
         /\ A \subseteq B => Cardinality(A) <= Cardinality(B)
         /\ \A x : A \subseteq B \cup {x} => Cardinality(A) <= Cardinality(B) + 1
<1>1. IsFiniteSet(A) => Cardinality(A) \in Nat
  BY FS_CardinalityType
<1>2. A \subseteq B => Cardinality(A) <= Cardinality(B)
  BY FS_Subset
<1>3. ASSUME NEW x, A \subseteq B \cup {x} PROVE Cardinality(A) <= Cardinality(B) + 1
  <2> DEFINE C == B \cup {x}
  <2>1. IsFiniteSet(C) /\ (Cardinality(C) = Cardinality(B) \/ Cardinality(C) = Cardinality(B) + 1)
    BY FS_AddElement
  <2>2. Cardinality(B) \in Nat
    BY FS_CardinalityType
  <2> HIDE DEF C
  <2>3. IsFiniteSet(A) /\ Cardinality(A) <= Cardinality(C)
    BY <1>3, <2>1, FS_Subset DEF C
  <2>4. Cardinality(A) \in Nat
    BY <2>3, FS_CardinalityType
  <2> QED BY <2>1, <2>2, <2>3, <2>4
<1> QED BY <1>1, <1>2, <1>3

LEMMA OwedParts ==
  ASSUME NEW file, NEW op, NEW pc, NEW i, NEW p, IsFiniteSet(p)
  PROVE  /\ IsFiniteSet(LostOf(p, file)) /\ Cardinality(LostOf(p, file)) \in Nat
         /\ InHand(file, pc, i) \in 0 .. 1 /\ AtRisk(file, op, pc, i, p) \in 0 .. 2
<1>1. IsFiniteSet(LostOf(p, file))
  BY FS_Subset DEF LostOf
<1>2. InHand(file, pc, i) \in 0 .. 1
  BY DEF InHand
<1>3. AtRisk(file, op, pc, i, p) \in 0 .. 2
  BY DEF AtRisk
<1> QED BY <1>1, <1>2, <1>3, FS_CardinalityType

\* The text of reading r is written.
LEMMA OwedText ==
  ASSUME NEW file \in File, NEW op \in BOOLEAN, op => file # <<>> /\ LastLine(file) # <<>>,
         NEW p, IsFiniteSet(p), NEW i, NEW r \in Text, r # Piece
  PROVE  LET g == IF op THEN Joined(file, r) ELSE Append(file, <<r>>) IN
         Owed(g, TRUE, "end", r.id, p) <= Owed(file, op, "text", i, p)
<1> DEFINE g == IF op THEN Joined(file, r) ELSE Append(file, <<r>>)
           a == Cardinality(LostOf(p, file))
           b == Cardinality(LostOf(p, g))
           c == AtRisk(file, op, "text", i, p)
           d == InHand(g, "end", r.id)
<1>1. a \in Nat /\ b \in Nat /\ c \in 0 .. 2 /\ d \in 0 .. 1
      /\ IsFiniteSet(LostOf(p, file))
  BY OwedParts
<1>2. Owed(file, op, "text", i, p) = a + c
  BY <1>1 DEF Owed, InHand
<1>3. Owed(g, TRUE, "end", r.id, p) = b + d
  BY <1>1 DEF Owed, AtRisk
<1>4. ASSUME op PROVE b + d <= a + c
  <2>1. Ids(Readings(file)) \subseteq Ids(Readings(g)) \cup WholeId(LastLine(file))
    BY <1>4, JoinedIs
  <2>2. LostOf(p, g) \subseteq LostOf(p, file) \cup (p \cap WholeId(LastLine(file)))
    BY <2>1 DEF LostOf
  <2> HIDE DEF g
  <2>3. CASE Kept(file, "text", i, p)
    <3>1. c = 2
      BY <1>4, <2>3 DEF AtRisk
    <3>2. LostOf(p, g) \subseteq LostOf(p, file) \cup {LastLine(file)[1].id}
      BY <2>2, <2>3 DEF Kept, WholeId
    <3>3. b <= a + 1
      BY <1>1, <3>2, CardinalityUpTo
    <3> HIDE DEF a, b, c, d
    <3> QED BY <1>1, <3>1, <3>3
  <2>4. CASE ~Kept(file, "text", i, p)
    <3>1. c = 1
      BY <1>4, <2>4 DEF AtRisk
    <3>2. LostOf(p, g) \subseteq LostOf(p, file)
      BY <2>2, <2>4 DEF Kept, WholeId
    <3>3. b <= a
      BY <1>1, <3>2, CardinalityUpTo
    <3> HIDE DEF a, b, c, d
    <3> QED BY <1>1, <3>1, <3>3
  <2> QED BY <2>3, <2>4
<1>5. ASSUME ~op PROVE b + d <= a + c
  <2>1. Ids(Readings(g)) = Ids(Readings(file)) \cup {r.id}
    BY <1>5, NewLineIs
  <2> HIDE DEF g
  <2>2. LostOf(p, g) \subseteq LostOf(p, file) /\ d = 0
    BY <2>1 DEF LostOf, InHand
  <2>3. b <= a
    BY <1>1, <2>2, CardinalityUpTo
  <2> HIDE DEF a, b, c, d
  <2> QED BY <1>1, <2>2, <2>3
<1>6. b + d <= a + c
  BY <1>4, <1>5
<1> HIDE DEF a, b, c, d
<1> QED BY <1>2, <1>3, <1>6 DEF g

\* Nothing of the text is written, or a piece of it.
LEMMA OwedNoText ==
  ASSUME NEW file \in File, NEW op \in BOOLEAN, op => file # <<>> /\ LastLine(file) # <<>>,
         NEW p, IsFiniteSet(p), NEW i, NEW j
  PROVE  LET g == IF op THEN Joined(file, Piece) ELSE Append(file, <<Piece>>) IN
         /\ Owed(file, op, "push", j, p) <= Owed(file, op, "text", i, p) + 2
         /\ Owed(g, TRUE, "push", j, p) <= Owed(file, op, "text", i, p) + 2
<1> DEFINE g == IF op THEN Joined(file, Piece) ELSE Append(file, <<Piece>>)
           a == Cardinality(LostOf(p, file))
           b == Cardinality(LostOf(p, g))
           c == AtRisk(file, op, "text", i, p)
           d == InHand(file, "push", j)
           e == AtRisk(file, op, "push", j, p)
           f == InHand(g, "push", j)
           h == AtRisk(g, TRUE, "push", j, p)
<1>0. Piece \in Text
  BY DEF Piece, NoReading, Text
<1>1. /\ a \in Nat /\ b \in Nat /\ c \in 0 .. 2 /\ d \in 0 .. 1 /\ e \in 0 .. 2 /\ f \in 0 .. 1
      /\ h \in 0 .. 2 /\ IsFiniteSet(LostOf(p, file))
  BY OwedParts
<1>2. Owed(file, op, "text", i, p) = a + c
  BY <1>1 DEF Owed, InHand
<1>3. Owed(file, op, "push", j, p) = a + d + e
  BY DEF Owed
<1>4. Owed(g, TRUE, "push", j, p) = b + f + h
  BY DEF Owed
<1>5. d + e <= c + 2
  <2>1. op => c >= 1
    BY DEF AtRisk
  <2>2. ~op => e = 0
    BY DEF AtRisk
  <2> HIDE DEF c, d, e
  <2> QED BY <1>1, <2>1, <2>2
<1>6. h = 1
  <2>1. ~Parses(LastLine(g))
    BY <1>0, JoinedIs, NewLineIs
  <2> HIDE DEF g
  <2> QED BY <2>1 DEF AtRisk, Kept
<1>7. b <= a + c
  <2>1. CASE op
    <3>1. Ids(Readings(file)) \subseteq Ids(Readings(g)) \cup WholeId(LastLine(file))
      BY <1>0, <2>1, JoinedIs
    <3> HIDE DEF g
    <3>2. LostOf(p, g) \subseteq LostOf(p, file) \cup {LastLine(file)[1].id}
      BY <3>1 DEF LostOf, WholeId
    <3>3. b <= a + 1
      BY <1>1, <3>2, CardinalityUpTo
    <3>4. c >= 1
      BY <2>1 DEF AtRisk
    <3> HIDE DEF a, b, c
    <3> QED BY <1>1, <3>3, <3>4
  <2>2. CASE ~op
    <3>1. Ids(Readings(g)) = Ids(Readings(file))
      BY <1>0, <2>2, NewLineIs
    <3> HIDE DEF g
    <3>2. a = b
      BY <3>1 DEF LostOf
    <3> HIDE DEF a, b, c
    <3> QED BY <1>1, <3>2
  <2> QED BY <2>1, <2>2
<1> HIDE DEF a, b, c, d, e, f, g, h
<1>8. /\ a + d + e <= a + c + 2
      /\ b + f + h <= a + c + 2
  BY <1>1, <1>5, <1>6, <1>7
<1> QED BY <1>2, <1>3, <1>4, <1>8 DEF g

\* The end of the line is written or not.
LEMMA OwedEnd ==
  ASSUME NEW file, NEW op, NEW i, NEW p, IsFiniteSet(p)
  PROVE  /\ Owed(file, FALSE, "push", i, p) <= Owed(file, op, "end", i, p)
         /\ Owed(file, op, "push", i, p) <= Owed(file, op, "end", i, p) + 2
<1> DEFINE a == Cardinality(LostOf(p, file))
           d == InHand(file, "push", i)
           e == AtRisk(file, op, "push", i, p)
<1>1. a \in Nat /\ d \in 0 .. 1 /\ e \in 0 .. 2
  BY OwedParts
<1>2. /\ AtRisk(file, FALSE, "push", i, p) = 0 /\ AtRisk(file, op, "end", i, p) = 0
      /\ InHand(file, "end", i) = d
  BY DEF AtRisk, InHand
<1>3. /\ Owed(file, FALSE, "push", i, p) = a + d + 0 /\ Owed(file, op, "end", i, p) = a + d + 0
      /\ Owed(file, op, "push", i, p) = a + d + e
  BY <1>2 DEF Owed
<1> HIDE DEF a, d, e
<1>4. a + d + 0 <= a + d + 0 /\ a + d + e <= a + d + 0 + 2
  BY <1>1
<1> QED BY <1>3, <1>4

\* The reading in the reader's hand is pushed.
LEMMA OwedPush ==
  ASSUME NEW file, NEW op, NEW i, NEW j, NEW p, IsFiniteSet(p)
  PROVE  Owed(file, op, "text", j, p \cup {i}) <= Owed(file, op, "push", i, p)
<1> DEFINE q == p \cup {i}
           a == Cardinality(LostOf(p, file))
           b == Cardinality(LostOf(q, file))
           d == InHand(file, "push", i)
           e == AtRisk(file, op, "push", i, p)
<1>1. IsFiniteSet(q)
  BY FS_AddElement
<1>2. a \in Nat /\ d \in 0 .. 1 /\ e \in 0 .. 2 /\ IsFiniteSet(LostOf(p, file))
  BY OwedParts
<1>3. b \in Nat
  <2> HIDE DEF q
  <2> QED BY <1>1, OwedParts
<1>4. InHand(file, "text", j) = 0 /\ AtRisk(file, op, "text", j, q) = e
  BY DEF InHand, AtRisk, Kept
<1>5. b <= a + d
  <2>1. CASE i \in Ids(Readings(file))
    <3>1. LostOf(q, file) \subseteq LostOf(p, file)
      BY <2>1 DEF LostOf
    <3> HIDE DEF q
    <3>2. b <= a
      BY <1>2, <3>1, CardinalityUpTo
    <3> HIDE DEF a, b, d
    <3> QED BY <1>2, <1>3, <3>2
  <2>2. CASE i \notin Ids(Readings(file))
    <3>1. LostOf(q, file) \subseteq LostOf(p, file) \cup {i} /\ d = 1
      BY <2>2 DEF LostOf, InHand
    <3> HIDE DEF q
    <3>2. b <= a + 1
      BY <1>2, <3>1, CardinalityUpTo
    <3> QED BY <3>1, <3>2
  <2> QED BY <2>1, <2>2
<1>6. Owed(file, op, "text", j, q) = b + 0 + e /\ Owed(file, op, "push", i, p) = a + d + e
  BY <1>4 DEF Owed
<1> HIDE DEF a, b, d, e, q
<1>7. b + 0 + e <= a + d + e
  BY <1>2, <1>3, <1>5
<1> QED BY <1>6, <1>7 DEF q

\* The process dies and is started again.
LEMMA OwedRestart ==
  ASSUME NEW file, NEW op \in BOOLEAN, NEW pc, NEW i, NEW j, NEW p, IsFiniteSet(p),
         pc = "end" /\ op /\ Parses(LastLine(file)) => LastLine(file)[1].id \notin p
  PROVE  Owed(file, op, "text", j, p) <= Owed(file, op, pc, i, p) + 1
<1> DEFINE a == Cardinality(LostOf(p, file))
           d == InHand(file, pc, i)
           e == AtRisk(file, op, pc, i, p)
           f == AtRisk(file, op, "text", j, p)
<1>1. a \in Nat /\ d \in 0 .. 1 /\ e \in 0 .. 2 /\ f \in 0 .. 2
  BY OwedParts
<1>2. InHand(file, "text", j) = 0
  BY DEF InHand
<1>3. f <= e + 1
  <2>1. CASE pc = "end"
    <3>1. f <= 1
      BY <2>1 DEF AtRisk, Kept
    <3> HIDE DEF e, f
    <3> QED BY <1>1, <3>1
  <2>2. CASE pc # "end"
    <3>1. ~op => f = 0
      BY DEF AtRisk
    <3>2. Kept(file, "text", j, p) => Kept(file, pc, i, p)
      BY DEF Kept
    <3>3. op => (f = 2 => e = 2) /\ e >= 1
      BY <2>2, <3>2 DEF AtRisk
    <3> HIDE DEF e, f
    <3> QED BY <1>1, <3>1, <3>3
  <2> QED BY <2>1, <2>2
<1>4. Owed(file, op, "text", j, p) = a + 0 + f /\ Owed(file, op, pc, i, p) = a + d + e
  BY <1>2 DEF Owed
<1> HIDE DEF a, d, e, f
<1> QED BY <1>1, <1>3, <1>4

-----------------------------------------------------------------------------
\* What a file has after a position in it.
Position == [line : Nat, text : Nat]

LEMMA RestIs ==
  ASSUME NEW file \in File, NEW p \in Position, p.line <= Len(file)
  PROVE  /\ RestOf(file, p) \in File
         /\ Len(RestOf(file, p)) = IF p.line = 0 THEN Len(file)
                                   ELSE (IF p.text < Len(file[p.line]) THEN 1 ELSE 0)
                                        + (Len(file) - p.line)
<1> DEFINE n == Len(file)
           L == Seq(Text)
           line == file[p.line]
           more == IF p.text < Len(line) THEN <<SubSeq(line, p.text + 1, Len(line))>> ELSE <<>>
           after == SubSeq(file, p.line + 1, n)
<1>1. file \in Seq(L) /\ n \in Nat /\ p.line \in Nat /\ p.text \in Nat /\ p.line <= n
  BY LenProperties DEF File, Position
<1>2. CASE p.line = 0
  BY <1>1, <1>2 DEF RestOf, File
<1>3. CASE p.line # 0
  <2>1. line \in Seq(Text) /\ Len(line) \in Nat
    <3>1. p.line \in 1 .. n /\ \A k \in 1 .. n : file[k] \in L
      BY <1>1, <1>3
    <3> QED BY <3>1, LenProperties
  <2>2. more \in Seq(L) /\ Len(more) = IF p.text < Len(line) THEN 1 ELSE 0
    <3> HIDE DEF line
    <3>1. CASE p.text < Len(line)
      <4> DEFINE x == SubSeq(line, p.text + 1, Len(line))
      <4>1. x \in L /\ more = <<x>>
        BY <1>1, <2>1, <3>1
      <4> HIDE DEF x, L, more
      <4> QED BY <3>1, <4>1
    <3>2. CASE ~(p.text < Len(line))
      BY <3>2
    <3> QED BY <3>1, <3>2
  <2>3. after \in Seq(L) /\ Len(after) = n - p.line
    <3>1. p.line + 1 \in 1 .. n + 1 /\ n \in 0 .. n
      BY <1>1
    <3> HIDE DEF L
    <3>2. /\ SubSeq(file, p.line + 1, n) \in Seq(L)
          /\ Len(SubSeq(file, p.line + 1, n))
               = IF p.line + 1 <= n THEN n - (p.line + 1) + 1 ELSE 0
      BY <1>1, <3>1, SubSeqProperties
    <3> HIDE DEF n
    <3> QED BY <1>1, <3>2
  <2>4. RestOf(file, p) = more \o after
    BY <1>3 DEF RestOf
  <2> HIDE DEF more, after, L, n, line
  <2>5. more \o after \in Seq(L) /\ Len(more \o after) = Len(more) + Len(after)
    BY <2>2, <2>3, ConcatProperties
  <2> QED BY <1>3, <2>2, <2>3, <2>4, <2>5 DEF File, L, n, line
<1> QED BY <1>2, <1>3

LEMMA EndIs ==
  ASSUME NEW file \in File
  PROVE  /\ EndOf(file) \in Position /\ EndOf(file).line <= Len(file)
         /\ Len(RestOf(file, EndOf(file))) = 0
<1> DEFINE e == EndOf(file)
<1>1. Len(file) \in Nat /\ (file = <<>> <=> Len(file) = 0)
  BY LenProperties, EmptySeq DEF File
<1>2. file # <<>> => LastLine(file) \in Seq(Text) /\ LastLine(file) = file[Len(file)]
  BY <1>1 DEF LastLine, File
<1>3. /\ e \in Position /\ e.line = Len(file)
      /\ file # <<>> => e.text = Len(file[Len(file)])
  BY <1>1, <1>2, LenProperties DEF EndOf, Last, Position
<1> HIDE DEF e
<1>4. Len(RestOf(file, e)) = IF e.line = 0 THEN Len(file)
                             ELSE (IF e.text < Len(file[e.line]) THEN 1 ELSE 0)
                                  + (Len(file) - e.line)
  BY <1>1, <1>3, RestIs
<1>5. file # <<>> => Len(file[Len(file)]) \in Nat
  BY <1>2, LenProperties
<1>6. Len(RestOf(file, e)) = 0
  BY <1>1, <1>3, <1>4, <1>5
<1> QED BY <1>1, <1>3, <1>6 DEF e

\* A text more is a line more to be read, at most.
LEMMA RestGrows ==
  ASSUME NEW file \in File, NEW p \in Position, p.line <= Len(file), NEW more \in File,
         \/ Len(more) = Len(file) + 1
         \/ Len(more) = Len(file) /\ file # <<>>,
         \A k \in 1 .. Len(file) : more[k] = file[k] \/ (k = Len(file) /\ Len(more) = Len(file))
  PROVE  Len(RestOf(more, p)) <= Len(RestOf(file, p)) + 1
<1> DEFINE n == Len(file)
           m == Len(more)
           a == p.text < Len(file[p.line])
           b == p.text < Len(more[p.line])
<1>1. n \in Nat /\ m \in Nat /\ p.line \in Nat /\ p.line <= n /\ p.line <= m /\ (m = n \/ m = n + 1)
  BY LenProperties DEF File, Position
<1>2. /\ Len(RestOf(file, p)) = IF p.line = 0 THEN n ELSE (IF a THEN 1 ELSE 0) + (n - p.line)
      /\ Len(RestOf(more, p)) = IF p.line = 0 THEN m ELSE (IF b THEN 1 ELSE 0) + (m - p.line)
  BY <1>1, RestIs
<1>3. p.line # 0 => (a = b) \/ m = n
  <2>1. CASE p.line # 0 /\ m # n
    <3>1. p.line \in 1 .. n
      BY <1>1, <2>1
    <3> QED BY <2>1, <3>1
  <2> QED BY <2>1
<1> DEFINE x == IF a THEN 1 ELSE 0
           y == IF b THEN 1 ELSE 0
           l == p.line
<1>4. x \in 0 .. 1 /\ y \in 0 .. 1 /\ (p.line # 0 => x = y \/ m = n)
  BY <1>3
<1>5. /\ Len(RestOf(file, p)) = IF l = 0 THEN n ELSE x + (n - l)
      /\ Len(RestOf(more, p)) = IF l = 0 THEN m ELSE y + (m - l)
  BY <1>2
<1>6. /\ n \in Nat /\ m \in Nat /\ l \in Nat /\ (m = n \/ m = n + 1)
      /\ l # 0 => x = y \/ m = n
  BY <1>1, <1>4
<1> HIDE DEF n, m, x, y, l
<1>7. CASE l = 0
  BY <1>5, <1>6, <1>7
<1>8. CASE l # 0
  BY <1>4, <1>5, <1>6, <1>8
<1> QED BY <1>7, <1>8

-----------------------------------------------------------------------------
\* The types of the files, the readers and the answer ...
RawTypeOK ==
  /\ fileLines \in [Sensors -> File] /\ open \in [Sensors -> BOOLEAN]
  /\ rpc \in [Sensors -> {"text", "end", "push"}] /\ reading \in [Sensors -> Text]
  /\ made \in 0 .. MaxReadings /\ pushed \in [Sensors -> SUBSET (1 .. made)]
  /\ failed \in [Sensors -> Nat] /\ restarts \in Nat
  /\ todo \subseteq Sensors /\ upTo \in [Sensors -> Position] /\ seen \in [Sensors -> Seq(Text)]

\* ... what the last line, the reader and the answer of a sensor have to do with
\* each other ...
LastLineInv ==
  \A s \in Sensors :
    /\ Len(fileLines[s]) <= made /\ upTo[s].line <= Len(fileLines[s])
    /\ open[s] => fileLines[s] # <<>> /\ LastLine(fileLines[s]) # <<>>
    /\ rpc[s] # "text" => reading[s].id \in 1 .. made
    /\ rpc[s] = "end" /\ Parses(LastLine(fileLines[s]))
         => LastLine(fileLines[s])[1].id \notin pushed[s]

\* ... and how much can still be read: no more than has been written.
AnswerInv ==
  \A s \in Sensors : Len(seen[s]) + Len(RestOf(fileLines[s], upTo[s])) <= made

LEMMA ConstantsType ==
  /\ MaxReadings \in Nat /\ MaxReadings <= MaxCount /\ MaxCount \in Nat /\ RawLimit \in Nat
  /\ \A v \in Values : v \in Int
BY RawFilesAssumption, StatsAssumption

LEMMA RawInitType == RawInit => RawTypeOK /\ LastLineInv
<1> SUFFICES ASSUME RawInit PROVE RawTypeOK /\ LastLineInv
  OBVIOUS
<1>1. <<>> \in File /\ <<>> \in Seq(Text) /\ NoReading \in Text /\ Len(<<>>) = 0
      /\ FromTheStart \in [Sensors -> Position] /\ \A s \in Sensors : FromTheStart[s].line = 0
  BY DEF File, NoReading, Text, FromTheStart, Position
<1>2. RawTypeOK
  BY <1>1, ConstantsType DEF RawInit, RawTypeOK, NothingSeen
<1>3. LastLineInv
  BY <1>1, ConstantsType DEF RawInit, LastLineInv
<1> QED BY <1>2, <1>3

\* The file of one sensor after a text.
TextAdded(file, op, t) == IF op THEN Joined(file, t) ELSE Append(file, <<t>>)

LEMMA AddTextIs ==
  ASSUME RawTypeOK, LastLineInv, NEW s \in Sensors, NEW t \in Text, AddText(s, t)
  PROVE  LET file == fileLines[s]
             more == TextAdded(file, open[s], t) IN
         /\ fileLines' = [fileLines EXCEPT ![s] = more] /\ open' = [open EXCEPT ![s] = TRUE]
         /\ more \in File /\ Len(file) <= Len(more) /\ Len(more) <= Len(file) + 1
         /\ more # <<>> /\ LastLine(more) # <<>>
         /\ Parses(LastLine(more)) => LastLine(more)[1] = t
<1> DEFINE file == fileLines[s]
           more == TextAdded(file, open[s], t)
<1>1. file \in File /\ Len(file) \in Nat /\ (open[s] => file # <<>> /\ LastLine(file) # <<>>)
  BY LenProperties DEF RawTypeOK, LastLineInv, File
<1>2. WithText(s, t) = more
  BY DEF WithText, TextAdded, Joined
<1>3. fileLines' = [fileLines EXCEPT ![s] = more] /\ open' = [open EXCEPT ![s] = TRUE]
  BY <1>2 DEF AddText
<1> HIDE DEF file
<1>4. CASE open[s]
  <2>1. /\ more \in File /\ Len(more) = Len(file)
        /\ LastLine(more) # <<>> /\ ~Parses(LastLine(more))
    BY <1>1, <1>4, JoinedIs DEF TextAdded
  <2>2. Len(file) # 0
    BY <1>1, <1>4, EmptySeq DEF File
  <2>3. more # <<>>
    <3> HIDE DEF more
    <3> QED BY <2>1, <2>2, EmptySeq DEF File
  <2> QED BY <1>1, <1>3, <2>1, <2>3 DEF file
<1>5. CASE ~open[s]
  <2>1. /\ more \in File /\ Len(more) = Len(file) + 1 /\ LastLine(more) = <<t>>
        /\ LastLine(more) # <<>>
    BY <1>1, <1>5, NewLineIs DEF TextAdded
  <2>2. more # <<>>
    <3> HIDE DEF more
    <3> QED BY <1>1, <2>1, EmptySeq DEF File
  <2> QED BY <1>1, <1>3, <2>1, <2>2 DEF file
<1> QED BY <1>4, <1>5

LEMMA TakenIs ==
  ASSUME RawTypeOK, NEW s \in Sensors, NEW v \in Values, NEW where, TakeReading(s, v, where)
  PROVE  LET r == [id |-> made + 1, value |-> v] IN
         /\ r \in Text /\ r # Piece /\ r.id \in 1 .. made' /\ r.id \notin pushed[s]
         /\ made' = made + 1 /\ made' \in 0 .. MaxReadings /\ rpc[s] = "text"
         /\ reading' = [reading EXCEPT ![s] = r] /\ rpc' = [rpc EXCEPT ![s] = where]
<1> DEFINE r == [id |-> made + 1, value |-> v]
<1>1. made \in 0 .. MaxReadings /\ pushed[s] \subseteq 1 .. made /\ made < MaxReadings
      /\ made' = made + 1 /\ rpc[s] = "text"
      /\ reading' = [reading EXCEPT ![s] = r] /\ rpc' = [rpc EXCEPT ![s] = where]
  BY DEF RawTypeOK, TakeReading
<1>2. r \in Text /\ r.id = made + 1
  BY <1>1, ConstantsType DEF Text
<1>3. r # Piece
  BY <1>1, <1>2, ConstantsType DEF Piece, NoReading
<1>4. made + 1 \in 1 .. made' /\ made + 1 \notin pushed[s] /\ made' \in 0 .. MaxReadings
  BY <1>1, ConstantsType
<1> HIDE DEF r
<1> QED BY <1>1, <1>2, <1>3, <1>4 DEF r

\* A reader that takes a reading has put texts ts of it into its file.
LEMMA TakenType ==
  ASSUME RawTypeOK, LastLineInv, NEW s \in Sensors, NEW r \in Text, NEW where \in {"end", "push"},
         NEW file \in File, NEW op \in BOOLEAN,
         fileLines' = [fileLines EXCEPT ![s] = file], open' = [open EXCEPT ![s] = op],
         Len(fileLines[s]) <= Len(file), Len(file) <= made + 1,
         op => file # <<>> /\ LastLine(file) # <<>>,
         where = "end" /\ Parses(LastLine(file)) => LastLine(file)[1].id \notin pushed[s],
         made' = made + 1, made' \in 0 .. MaxReadings, r.id \in 1 .. made',
         reading' = [reading EXCEPT ![s] = r], rpc' = [rpc EXCEPT ![s] = where],
         pushed' = pushed, failed' \in [Sensors -> Nat], restarts' = restarts,
         UNCHANGED answerVars
  PROVE  RawTypeOK' /\ LastLineInv'
<1>0. todo' = todo /\ upTo' = upTo /\ seen' = seen
  BY DEF answerVars
<1>1. RawTypeOK'
  <2>1. \A q \in Sensors : pushed[q] \subseteq 1 .. made /\ pushed[q] \subseteq 1 .. made + 1
    BY DEF RawTypeOK
  <2>2. pushed' \in [Sensors -> SUBSET (1 .. made')]
    BY <2>1 DEF RawTypeOK
  <2>3. /\ fileLines' \in [Sensors -> File] /\ open' \in [Sensors -> BOOLEAN]
        /\ rpc' \in [Sensors -> {"text", "end", "push"}] /\ reading' \in [Sensors -> Text]
    BY DEF RawTypeOK
  <2> QED BY <1>0, <2>2, <2>3 DEF RawTypeOK
<1>2. LastLineInv'
  <2> SUFFICES ASSUME NEW q \in Sensors
               PROVE  /\ Len(fileLines'[q]) <= made' /\ upTo'[q].line <= Len(fileLines'[q])
                      /\ open'[q] => fileLines'[q] # <<>> /\ LastLine(fileLines'[q]) # <<>>
                      /\ rpc'[q] # "text" => reading'[q].id \in 1 .. made'
                      /\ rpc'[q] = "end" /\ Parses(LastLine(fileLines'[q]))
                           => LastLine(fileLines'[q])[1].id \notin pushed'[q]
    BY DEF LastLineInv
  <2>1. CASE q = s
    <3>1. upTo[s].line \in Nat /\ Len(fileLines[s]) \in Nat /\ Len(file) \in Nat
      BY LenProperties DEF RawTypeOK, File, Position
    <3>2. upTo'[s].line <= Len(file)
      BY <1>0, <3>1 DEF LastLineInv
    <3> QED BY <2>1, <3>2 DEF RawTypeOK, LastLineInv
  <2>2. CASE q # s
    <3>1. /\ fileLines'[q] = fileLines[q] /\ open'[q] = open[q] /\ rpc'[q] = rpc[q]
          /\ reading'[q] = reading[q] /\ pushed'[q] = pushed[q] /\ upTo'[q] = upTo[q]
      BY <1>0, <2>2 DEF RawTypeOK
    <3>2. made \in Nat /\ Len(fileLines[q]) \in Nat
      BY LenProperties DEF RawTypeOK, File
    <3> QED BY <3>1, <3>2 DEF LastLineInv
  <2> QED BY <2>1, <2>2
<1> QED BY <1>1, <1>2

LEMMA WriteTextType ==
  ASSUME RawTypeOK, LastLineInv, NEW s \in Sensors, NEW v \in Values, WriteText(s, v)
  PROVE  RawTypeOK' /\ LastLineInv'
<1> DEFINE r == [id |-> made + 1, value |-> v]
           more == TextAdded(fileLines[s], open[s], r)
<1>1. /\ r \in Text /\ r # Piece /\ r.id \in 1 .. made' /\ r.id \notin pushed[s]
      /\ made' = made + 1 /\ made' \in 0 .. MaxReadings
      /\ reading' = [reading EXCEPT ![s] = r] /\ rpc' = [rpc EXCEPT ![s] = "end"]
  BY TakenIs DEF WriteText
<1>2. /\ fileLines' = [fileLines EXCEPT ![s] = more] /\ open' = [open EXCEPT ![s] = TRUE]
      /\ more \in File /\ Len(fileLines[s]) <= Len(more) /\ Len(more) <= Len(fileLines[s]) + 1
      /\ more # <<>> /\ LastLine(more) # <<>>
      /\ Parses(LastLine(more)) => LastLine(more)[1] = r
  <2>1. AddText(s, r)
    BY DEF WriteText
  <2> HIDE DEF r
  <2> QED BY <1>1, <2>1, AddTextIs
<1>3. pushed' = pushed /\ failed' = failed /\ restarts' = restarts /\ UNCHANGED answerVars
  BY DEF WriteText, faultVars
<1> HIDE DEF r, more
<1>4. Len(more) <= made + 1
  <2>1. Len(fileLines[s]) <= made /\ Len(fileLines[s]) \in Nat /\ Len(more) \in Nat /\ made \in Nat
    BY <1>2, LenProperties DEF RawTypeOK, LastLineInv, File
  <2> QED BY <1>2, <2>1
<1>5. failed' \in [Sensors -> Nat]
  BY <1>3 DEF RawTypeOK
<1>6. Parses(LastLine(more)) => LastLine(more)[1].id \notin pushed[s]
  BY <1>1, <1>2
<1> QED BY <1>1, <1>2, <1>3, <1>4, <1>5, <1>6, TakenType

LEMMA TextFailsType ==
  ASSUME RawTypeOK, LastLineInv, NEW s \in Sensors, NEW v \in Values, TextFails(s, v)
  PROVE  RawTypeOK' /\ LastLineInv'
<1> DEFINE r == [id |-> made + 1, value |-> v]
           file == fileLines[s]
           more == TextAdded(file, open[s], Piece)
<1>1. /\ r \in Text /\ r.id \in 1 .. made'
      /\ made' = made + 1 /\ made' \in 0 .. MaxReadings
      /\ reading' = [reading EXCEPT ![s] = r] /\ rpc' = [rpc EXCEPT ![s] = "push"]
  BY TakenIs DEF TextFails
<1>2. /\ pushed' = pushed /\ restarts' = restarts /\ UNCHANGED answerVars
      /\ failed' \in [Sensors -> Nat]
  BY DEF RawTypeOK, TextFails, WriteFails
<1>3. Len(file) \in Nat /\ Len(file) <= made /\ made \in Nat /\ file \in File /\ open[s] \in BOOLEAN
      /\ (open[s] => file # <<>> /\ LastLine(file) # <<>>)
  BY LenProperties DEF RawTypeOK, LastLineInv, File
<1> HIDE DEF r
<1>4. CASE AddText(s, Piece)
  <2>1. Piece \in Text
    BY DEF Piece, NoReading, Text
  <2>2. /\ fileLines' = [fileLines EXCEPT ![s] = more] /\ open' = [open EXCEPT ![s] = TRUE]
        /\ more \in File /\ Len(file) <= Len(more) /\ Len(more) <= Len(file) + 1
        /\ more # <<>> /\ LastLine(more) # <<>>
    BY <1>4, <2>1, AddTextIs
  <2> HIDE DEF more, file
  <2>3. Len(more) <= made + 1
    <3>1. Len(more) \in Nat
      BY <2>2, LenProperties DEF File
    <3> QED BY <1>3, <2>2, <3>1
  <2> QED BY <1>1, <1>2, <2>2, <2>3, TakenType DEF file
<1>5. CASE UNCHANGED fileVars
  <2> DEFINE op == open[s]
  <2>1. fileLines' = [fileLines EXCEPT ![s] = file] /\ open' = [open EXCEPT ![s] = op]
    BY <1>5 DEF fileVars, RawTypeOK
  <2>2. Len(fileLines[s]) <= Len(file) /\ Len(file) <= made + 1
    BY <1>3
  <2> HIDE DEF file, op
  <2> QED BY <1>1, <1>2, <1>3, <2>1, <2>2, TakenType DEF op
<1> QED BY <1>4, <1>5 DEF TextFails

LEMMA WriteEndType ==
  ASSUME RawTypeOK, LastLineInv, NEW s \in Sensors, WriteEnd(s) \/ EndFails(s)
  PROVE  RawTypeOK' /\ LastLineInv'
<1>1. /\ rpc[s] = "end" /\ rpc' = [rpc EXCEPT ![s] = "push"]
      /\ open' = [open EXCEPT ![s] = FALSE] \/ open' = open
      /\ failed' \in [Sensors -> Nat]
      /\ fileLines' = fileLines /\ reading' = reading /\ made' = made /\ pushed' = pushed
      /\ restarts' = restarts /\ todo' = todo /\ upTo' = upTo /\ seen' = seen
  <2>1. failed' = failed \/ failed' = [failed EXCEPT ![s] = @ + 1]
    BY DEF WriteEnd, EndFails, WriteFails, faultVars
  <2>2. failed' \in [Sensors -> Nat]
    <3>1. failed \in [Sensors -> Nat] /\ failed[s] + 1 \in Nat
      BY DEF RawTypeOK
    <3> QED BY <2>1, <3>1
  <2> QED BY <2>2 DEF WriteEnd, EndFails, WriteFails, fileVars, faultVars, answerVars
<1>2. RawTypeOK'
  BY <1>1 DEF RawTypeOK
<1>3. \A q \in Sensors : /\ open'[q] => open[q]
                         /\ rpc'[q] # "text" => rpc[q] # "text"
                         /\ rpc'[q] = "end" => rpc[q] = "end"
  BY <1>1 DEF RawTypeOK
<1>4. LastLineInv'
  BY <1>1, <1>3 DEF LastLineInv
<1> QED BY <1>2, <1>4

LEMMA PushReadingType ==
  ASSUME RawTypeOK, LastLineInv, NEW s \in Sensors, PushReading(s)
  PROVE  RawTypeOK' /\ LastLineInv'
<1>1. /\ rpc[s] = "push" /\ rpc' = [rpc EXCEPT ![s] = "text"]
      /\ pushed' = [pushed EXCEPT ![s] = @ \cup {reading[s].id}]
      /\ reading' = [reading EXCEPT ![s] = NoReading]
      /\ fileLines' = fileLines /\ open' = open /\ made' = made
      /\ failed' = failed /\ restarts' = restarts /\ todo' = todo /\ upTo' = upTo /\ seen' = seen
  BY DEF PushReading, fileVars, faultVars, answerVars
<1>2. reading[s].id \in 1 .. made /\ NoReading \in Text
  BY <1>1 DEF LastLineInv, NoReading, Text
<1>3. RawTypeOK'
  <2>1. pushed' \in [Sensors -> SUBSET (1 .. made)]
    BY <1>1, <1>2 DEF RawTypeOK
  <2>2. rpc' \in [Sensors -> {"text", "end", "push"}] /\ reading' \in [Sensors -> Text]
    BY <1>1, <1>2 DEF RawTypeOK
  <2> QED BY <1>1, <2>1, <2>2 DEF RawTypeOK
<1>4. \A q \in Sensors : /\ rpc'[q] # "text" => q # s
                         /\ q # s => /\ rpc'[q] = rpc[q] /\ reading'[q] = reading[q]
                                     /\ pushed'[q] = pushed[q]
  BY <1>1 DEF RawTypeOK
<1>5. LastLineInv'
  BY <1>1, <1>4 DEF LastLineInv
<1> QED BY <1>3, <1>5

LEMMA RestartType ==
  ASSUME RawTypeOK, LastLineInv, Restart
  PROVE  RawTypeOK' /\ LastLineInv'
<1>1. NoReading \in Text /\ <<>> \in Seq(Text)
  BY DEF NoReading, Text
<1>2. FromTheStart \in [Sensors -> Position] /\ \A s \in Sensors : FromTheStart[s].line = 0
  BY DEF FromTheStart, Position
<1>3. RawTypeOK'
  BY <1>1, <1>2 DEF RawTypeOK, Restart, fileVars, NothingSeen
<1>4. \A s \in Sensors : Len(fileLines[s]) \in Nat
  BY LenProperties DEF RawTypeOK, File
<1>5. LastLineInv'
  BY <1>2, <1>4 DEF LastLineInv, RawTypeOK, Restart, fileVars
<1> QED BY <1>3, <1>5

LEMMA ReadIs ==
  ASSUME RawTypeOK, LastLineInv, NEW s \in Sensors, ReadSensorFile(s)
  PROVE  LET file == fileLines[s]
             more == Readings(RestOf(file, upTo[s])) IN
         /\ todo' \subseteq todo /\ upTo' = [upTo EXCEPT ![s] = EndOf(file)]
         /\ seen' = [seen EXCEPT ![s] = @ \o more]
         /\ EndOf(file) \in Position /\ EndOf(file).line <= Len(file)
         /\ Len(RestOf(file, EndOf(file))) = 0
         /\ RestOf(file, upTo[s]) \in File /\ more \in Seq(Text)
         /\ Len(more) <= Len(RestOf(file, upTo[s]))
<1>1. fileLines[s] \in File /\ upTo[s] \in Position /\ upTo[s].line <= Len(fileLines[s])
  BY DEF RawTypeOK, LastLineInv
<1>2. RestOf(fileLines[s], upTo[s]) \in File
  BY <1>1, RestIs
<1> QED BY <1>1, <1>2, EndIs, ReadingsType DEF ReadSensorFile

LEMMA AnswerType ==
  ASSUME RawTypeOK, LastLineInv,
         AskAggregated \/ \E s \in Sensors : ReadSensorFile(s) \/ ReadFails(s)
  PROVE  RawTypeOK' /\ LastLineInv'
<1>1. UNCHANGED <<fileLines, open, rpc, reading, made, pushed, failed, restarts>>
  BY DEF AskAggregated, ReadSensorFile, ReadFails, fileVars, readerVars, faultVars
<1>2. \A q \in Sensors : Len(fileLines[q]) \in Nat
  BY LenProperties DEF RawTypeOK, File
<1>3. /\ todo' \subseteq Sensors /\ upTo' \in [Sensors -> Position] /\ seen' \in [Sensors -> Seq(Text)]
      /\ \A q \in Sensors : upTo'[q].line <= Len(fileLines[q])
  <2>1. CASE AskAggregated
    BY <1>2, <2>1 DEF AskAggregated, FromTheStart, NothingSeen, Position
  <2>2. ASSUME NEW s \in Sensors, ReadSensorFile(s)
        PROVE  /\ todo' \subseteq Sensors /\ upTo' \in [Sensors -> Position]
               /\ seen' \in [Sensors -> Seq(Text)]
               /\ \A q \in Sensors : upTo'[q].line <= Len(fileLines[q])
    <3> DEFINE e == EndOf(fileLines[s])
               more == Readings(RestOf(fileLines[s], upTo[s]))
    <3>1. /\ todo' \subseteq todo /\ upTo' = [upTo EXCEPT ![s] = e]
          /\ seen' = [seen EXCEPT ![s] = seen[s] \o more]
          /\ e \in Position /\ e.line <= Len(fileLines[s]) /\ more \in Seq(Text)
      BY <2>2, ReadIs
    <3> HIDE DEF e, more
    <3>2. seen[s] \o more \in Seq(Text)
      BY <3>1 DEF RawTypeOK
    <3> QED BY <3>1, <3>2 DEF RawTypeOK, LastLineInv
  <2>3. ASSUME NEW s \in Sensors, ReadFails(s)
        PROVE  /\ todo' \subseteq Sensors /\ upTo' \in [Sensors -> Position]
               /\ seen' \in [Sensors -> Seq(Text)]
               /\ \A q \in Sensors : upTo'[q].line <= Len(fileLines[q])
    BY <2>3 DEF ReadFails, RawTypeOK, LastLineInv
  <2> QED BY <2>1, <2>2, <2>3
<1>4. RawTypeOK'
  BY <1>1, <1>3 DEF RawTypeOK
<1>5. LastLineInv'
  BY <1>1, <1>3 DEF LastLineInv
<1> QED BY <1>4, <1>5

LEMMA RawStepType ==
  ASSUME RawTypeOK, LastLineInv, [RawNext]_rawVars
  PROVE  RawTypeOK' /\ LastLineInv'
<1>1. CASE UNCHANGED rawVars
  BY <1>1 DEF rawVars, fileVars, readerVars, faultVars, answerVars, RawTypeOK, LastLineInv
<1>2. ASSUME NEW s \in Sensors, Reader(s) PROVE RawTypeOK' /\ LastLineInv'
  <2>1. ASSUME NEW v \in Values, WriteText(s, v) PROVE RawTypeOK' /\ LastLineInv'
    BY <2>1, WriteTextType
  <2>2. ASSUME NEW v \in Values, TextFails(s, v) PROVE RawTypeOK' /\ LastLineInv'
    BY <2>2, TextFailsType
  <2>3. CASE WriteEnd(s) \/ EndFails(s)
    BY <2>3, WriteEndType
  <2>4. CASE PushReading(s)
    BY <2>4, PushReadingType
  <2> QED BY <1>2, <2>1, <2>2, <2>3, <2>4 DEF Reader
<1>3. CASE AskAggregated \/ \E s \in Sensors : ReadSensorFile(s) \/ ReadFails(s)
  BY <1>3, AnswerType
<1>4. CASE Restart
  BY <1>4, RestartType
<1> QED BY <1>1, <1>2, <1>3, <1>4 DEF RawNext

\* What is left to read of a file, after a text.
LEMMA RestAdded ==
  ASSUME RawTypeOK, LastLineInv, NEW s \in Sensors, NEW t \in Text, AddText(s, t)
  PROVE  /\ fileLines' = [fileLines EXCEPT ![s] = TextAdded(fileLines[s], open[s], t)]
         /\ Len(RestOf(TextAdded(fileLines[s], open[s], t), upTo[s]))
              <= Len(RestOf(fileLines[s], upTo[s])) + 1
<1> DEFINE file == fileLines[s]
           p == upTo[s]
           more == TextAdded(file, open[s], t)
<1>1. /\ file \in File /\ p \in Position /\ p.line <= Len(file)
      /\ open[s] => file # <<>> /\ LastLine(file) # <<>>
  BY DEF RawTypeOK, LastLineInv
<1>2. fileLines' = [fileLines EXCEPT ![s] = more] /\ more \in File
  BY AddTextIs
<1> HIDE DEF file, p
<1>3. CASE open[s]
  <2>1. more = Joined(file, t) /\ Len(more) = Len(file)
    BY <1>1, <1>3, JoinedIs DEF TextAdded
  <2>2. \A k \in 1 .. Len(file) : more[k] = file[k] \/ k = Len(file)
    <3>1. DOMAIN file = 1 .. Len(file)
      BY <1>1, LenProperties DEF File
    <3> HIDE DEF more
    <3> QED BY <2>1, <3>1 DEF Joined
  <2> HIDE DEF more
  <2> QED BY <1>1, <1>2, <1>3, <2>1, <2>2, RestGrows DEF file, p, more
<1>4. CASE ~open[s]
  <2>1. more = Append(file, <<t>>) /\ Len(more) = Len(file) + 1
    BY <1>1, <1>4, NewLineIs DEF TextAdded
  <2>2. \A k \in 1 .. Len(file) : more[k] = file[k]
    <3>1. file \in Seq(Seq(Text)) /\ <<t>> \in Seq(Text)
      BY <1>1 DEF File
    <3> HIDE DEF more
    <3> QED BY <2>1, <3>1, AppendProperties
  <2> HIDE DEF more
  <2> QED BY <1>1, <1>2, <2>1, <2>2, RestGrows DEF file, p, more
<1> QED BY <1>3, <1>4

LEMMA RestType ==
  ASSUME RawTypeOK, LastLineInv, NEW s \in Sensors
  PROVE  /\ made \in Nat /\ seen[s] \in Seq(Text) /\ Len(seen[s]) \in Nat
         /\ Len(RestOf(fileLines[s], upTo[s])) \in Nat
<1>1. fileLines[s] \in File /\ upTo[s] \in Position /\ upTo[s].line <= Len(fileLines[s])
      /\ seen[s] \in Seq(Text) /\ made \in Nat
  BY DEF RawTypeOK, LastLineInv
<1>2. RestOf(fileLines[s], upTo[s]) \in File
  BY <1>1, RestIs
<1> QED BY <1>1, <1>2, LenProperties DEF File

LEMMA AnswerReader ==
  ASSUME RawTypeOK, LastLineInv, AnswerInv, NEW s \in Sensors, Reader(s)
  PROVE  AnswerInv'
<1>1. upTo' = upTo /\ seen' = seen
  BY DEF Reader, WriteText, TextFails, WriteEnd, EndFails, PushReading, answerVars
<1>2. ASSUME NEW v \in Values, WriteText(s, v) \/ TextFails(s, v)
      PROVE  AnswerInv'
  <2>1. made' = made + 1 /\ Piece \in Text /\ [id |-> made + 1, value |-> v] \in Text
    BY <1>2, TakenIs DEF WriteText, TextFails, Piece, NoReading, Text
  <2>2. fileLines' = fileLines \/ \E t \in Text : AddText(s, t)
    BY <1>2, <2>1 DEF WriteText, TextFails, fileVars
  <2>3. ASSUME NEW q \in Sensors
        PROVE  Len(RestOf(fileLines'[q], upTo[q])) <= Len(RestOf(fileLines[q], upTo[q])) + 1
    <3>1. Len(RestOf(fileLines[q], upTo[q])) \in Nat
      BY RestType
    <3>2. CASE fileLines' = fileLines
      BY <3>1, <3>2
    <3>3. ASSUME NEW t \in Text, AddText(s, t)
          PROVE  Len(RestOf(fileLines'[q], upTo[q])) <= Len(RestOf(fileLines[q], upTo[q])) + 1
      <4> DEFINE more == TextAdded(fileLines[s], open[s], t)
      <4>1. fileLines' = [fileLines EXCEPT ![s] = more]
            /\ Len(RestOf(more, upTo[s])) <= Len(RestOf(fileLines[s], upTo[s])) + 1
        BY <3>3, RestAdded
      <4> HIDE DEF more
      <4>2. fileLines'[q] = IF q = s THEN more ELSE fileLines[q]
        BY <4>1 DEF RawTypeOK
      <4> QED BY <3>1, <4>1, <4>2
    <3> QED BY <2>2, <3>2, <3>3
  <2>4. ASSUME NEW q \in Sensors
        PROVE  Len(seen'[q]) + Len(RestOf(fileLines'[q], upTo'[q])) <= made'
    <3> DEFINE a == Len(seen[q])
               b == Len(RestOf(fileLines[q], upTo[q]))
               c == Len(RestOf(fileLines'[q], upTo[q]))
    <3>1. a \in Nat /\ b \in Nat /\ made \in Nat /\ a + b <= made
      BY RestType DEF AnswerInv
    <3>2. c <= b + 1 /\ c \in Nat
      <4>1. RawTypeOK' /\ LastLineInv'
        BY <1>2, WriteTextType, TextFailsType
      <4>2. RestOf(fileLines'[q], upTo'[q]) \in File
        BY <4>1, RestIs DEF RawTypeOK, LastLineInv
      <4> QED BY <1>1, <2>3, <4>2, LenProperties DEF File
    <3> HIDE DEF a, b, c
    <3>3. a + c <= made + 1
      BY <3>1, <3>2
    <3> QED BY <1>1, <2>1, <3>3 DEF a, c
  <2> QED BY <2>4 DEF AnswerInv
<1>3. CASE WriteEnd(s) \/ EndFails(s) \/ PushReading(s)
  <2>1. fileLines' = fileLines /\ made' = made
    BY <1>3 DEF WriteEnd, EndFails, PushReading, fileVars
  <2> QED BY <1>1, <2>1 DEF AnswerInv
<1> QED BY <1>2, <1>3 DEF Reader

LEMMA AnswerFresh ==
  ASSUME RawTypeOK, LastLineInv, fileLines' = fileLines, made' = made,
         upTo' = FromTheStart, seen' = NothingSeen
  PROVE  AnswerInv'
<1> SUFFICES ASSUME NEW q \in Sensors
             PROVE  Len(seen'[q]) + Len(RestOf(fileLines'[q], upTo'[q])) <= made'
  BY DEF AnswerInv
<1>1. Len(seen'[q]) = 0 /\ RestOf(fileLines'[q], upTo'[q]) = fileLines[q]
  BY DEF FromTheStart, NothingSeen, RestOf
<1>2. Len(fileLines[q]) <= made /\ Len(fileLines[q]) \in Nat
  BY LenProperties DEF RawTypeOK, LastLineInv, File
<1> QED BY <1>1, <1>2

LEMMA AnswerStep ==
  ASSUME RawTypeOK, LastLineInv, AnswerInv, [RawNext]_rawVars
  PROVE  AnswerInv'
<1>1. CASE UNCHANGED rawVars
  BY <1>1 DEF rawVars, fileVars, readerVars, answerVars, AnswerInv
<1>2. ASSUME NEW s \in Sensors, Reader(s) PROVE AnswerInv'
  BY <1>2, AnswerReader
<1>3. CASE AskAggregated \/ Restart
  BY <1>3, AnswerFresh DEF AskAggregated, Restart, fileVars, readerVars
<1>4. ASSUME NEW s \in Sensors, ReadSensorFile(s) PROVE AnswerInv'
  <2> DEFINE e == EndOf(fileLines[s])
             rest == RestOf(fileLines[s], upTo[s])
             more == Readings(rest)
  <2>1. /\ upTo' = [upTo EXCEPT ![s] = e] /\ seen' = [seen EXCEPT ![s] = seen[s] \o more]
        /\ Len(RestOf(fileLines[s], e)) = 0 /\ more \in Seq(Text) /\ Len(more) <= Len(rest)
        /\ fileLines' = fileLines /\ made' = made
    BY <1>4, ReadIs DEF ReadSensorFile, fileVars, readerVars
  <2>2. /\ made \in Nat /\ seen[s] \in Seq(Text) /\ Len(seen[s]) \in Nat /\ Len(rest) \in Nat
        /\ Len(seen[s]) + Len(rest) <= made
    BY RestType DEF AnswerInv
  <2> HIDE DEF e, rest, more
  <2>3. Len(seen[s] \o more) = Len(seen[s]) + Len(more) /\ Len(more) \in Nat
    BY <2>1, <2>2, ConcatProperties, LenProperties
  <2>4. Len(seen[s] \o more) + 0 <= made
    BY <2>1, <2>2, <2>3
  <2>5. ASSUME NEW q \in Sensors
        PROVE  Len(seen'[q]) + Len(RestOf(fileLines'[q], upTo'[q])) <= made'
    <3>1. CASE q = s
      BY <2>1, <2>4, <3>1 DEF RawTypeOK
    <3>2. CASE q # s
      BY <2>1, <3>2 DEF RawTypeOK, AnswerInv
    <3> QED BY <3>1, <3>2
  <2> QED BY <2>5 DEF AnswerInv
<1>5. ASSUME NEW s \in Sensors, ReadFails(s) PROVE AnswerInv'
  <2>1. /\ upTo' = upTo /\ seen' = [seen EXCEPT ![s] = <<>>]
        /\ fileLines' = fileLines /\ made' = made
    BY <1>5 DEF ReadFails, fileVars, readerVars
  <2>2. ASSUME NEW q \in Sensors
        PROVE  Len(seen'[q]) + Len(RestOf(fileLines[q], upTo[q])) <= made
    <3>1. Len(seen'[q]) <= Len(seen[q]) /\ Len(seen'[q]) \in Nat
      <4>1. Len(seen[q]) \in Nat
        BY RestType
      <4> QED BY <2>1, <4>1 DEF RawTypeOK
    <3> DEFINE a == Len(seen'[q])
               b == Len(seen[q])
               c == Len(RestOf(fileLines[q], upTo[q]))
    <3>2. b \in Nat /\ c \in Nat /\ made \in Nat /\ b + c <= made
      BY RestType DEF AnswerInv
    <3>3. a <= b /\ a \in Nat
      BY <3>1
    <3> HIDE DEF a, b, c
    <3>4. a + c <= made
      BY <3>2, <3>3
    <3> QED BY <3>4 DEF a, c
  <2> QED BY <2>1, <2>2 DEF AnswerInv
<1> QED BY <1>1, <1>2, <1>3, <1>4, <1>5 DEF RawNext

LEMMA RawTypeInvariant == RawSpec => [](RawTypeOK /\ LastLineInv /\ AnswerInv)
<1>1. RawInit => RawTypeOK /\ LastLineInv /\ AnswerInv
  <2> SUFFICES ASSUME RawInit PROVE RawTypeOK /\ LastLineInv /\ AnswerInv
    OBVIOUS
  <2>1. RawTypeOK /\ LastLineInv
    BY RawInitType
  <2>2. ASSUME NEW s \in Sensors
        PROVE  Len(seen[s]) + Len(RestOf(fileLines[s], upTo[s])) <= made
    <3>1. Len(seen[s]) = 0 /\ RestOf(fileLines[s], upTo[s]) = <<>> /\ made = 0
      BY DEF RawInit, FromTheStart, NothingSeen, RestOf
    <3> QED BY <3>1
  <2> QED BY <2>1, <2>2 DEF AnswerInv
<1>2. RawTypeOK /\ LastLineInv /\ AnswerInv /\ [RawNext]_rawVars
        => (RawTypeOK /\ LastLineInv /\ AnswerInv)'
  BY RawStepType, AnswerStep
<1> QED BY <1>1, <1>2, PTL DEF RawSpec

-----------------------------------------------------------------------------
\* What a sensor owes and may owe.
OwedBy(s) == Owed(fileLines[s], open[s], rpc[s], reading[s].id, pushed[s])
Allowed(s) == 2 * failed[s] + restarts

LEMMA OwedNat ==
  ASSUME NEW file, NEW op, NEW pc, NEW i, NEW n \in Nat, NEW p, p \subseteq 1 .. n
  PROVE  /\ IsFiniteSet(p) /\ Owed(file, op, pc, i, p) \in Nat
         /\ Cardinality(LostOf(p, file)) <= Owed(file, op, pc, i, p)
<1>1. IsFiniteSet(p)
  <2>1. IsFiniteSet(1 .. n)
    BY FS_Interval
  <2> QED BY <2>1, FS_Subset
<1> DEFINE a == Cardinality(LostOf(p, file))
           b == InHand(file, pc, i)
           c == AtRisk(file, op, pc, i, p)
<1>2. a \in Nat /\ b \in 0 .. 1 /\ c \in 0 .. 2
  BY <1>1, OwedParts
<1>3. Owed(file, op, pc, i, p) = a + b + c
  BY DEF Owed
<1> HIDE DEF a, b, c
<1>4. Owed(file, op, pc, i, p) \in Nat /\ a <= Owed(file, op, pc, i, p)
  BY <1>2, <1>3
<1> QED BY <1>1, <1>4 DEF a

LEMMA OwedType ==
  ASSUME RawTypeOK, NEW s \in Sensors
  PROVE  /\ IsFiniteSet(pushed[s]) /\ OwedBy(s) \in Nat /\ Allowed(s) \in Nat
         /\ Cardinality(LostOf(pushed[s], fileLines[s])) <= OwedBy(s)
<1>1. made \in Nat /\ pushed[s] \subseteq 1 .. made /\ failed[s] \in Nat /\ restarts \in Nat
  BY DEF RawTypeOK
<1> QED BY <1>1, OwedNat DEF OwedBy, Allowed

LEMMA OwedNext ==
  ASSUME RawTypeOK, LastLineInv, [RawNext]_rawVars, NEW s \in Sensors
  PROVE  OwedBy(s)' \in Nat
<1>1. RawTypeOK'
  BY RawStepType
<1>2. made' \in Nat /\ pushed'[s] \subseteq 1 .. made'
  BY <1>1 DEF RawTypeOK
<1> QED BY <1>2, OwedNat DEF OwedBy

\* No step of its reader, and no restart, makes a sensor owe more than it then may.
LEMMA OwedFrame ==
  ASSUME RawTypeOK, NEW s \in Sensors, NEW q \in Sensors, Reader(s), q # s
  PROVE  OwedBy(q)' = OwedBy(q) /\ Allowed(q)' = Allowed(q)
<1>1. /\ fileLines'[q] = fileLines[q] /\ open'[q] = open[q] /\ rpc'[q] = rpc[q]
      /\ reading'[q] = reading[q] /\ pushed'[q] = pushed[q] /\ failed'[q] = failed[q]
      /\ restarts' = restarts
  <2>1. ASSUME NEW v \in Values, WriteText(s, v) \/ TextFails(s, v)
        PROVE  /\ fileLines'[q] = fileLines[q] /\ open'[q] = open[q] /\ rpc'[q] = rpc[q]
               /\ reading'[q] = reading[q] /\ pushed'[q] = pushed[q] /\ failed'[q] = failed[q]
               /\ restarts' = restarts
    BY <2>1 DEF RawTypeOK, WriteText, TextFails, WriteFails, TakeReading, AddText, fileVars, faultVars
  <2>2. CASE WriteEnd(s) \/ EndFails(s) \/ PushReading(s)
    BY <2>2 DEF RawTypeOK, WriteEnd, EndFails, WriteFails, PushReading, fileVars, faultVars
  <2> QED BY <2>1, <2>2 DEF Reader
<1> QED BY <1>1 DEF OwedBy, Allowed

LEMMA OwedReader ==
  ASSUME RawTypeOK, LastLineInv, NEW s \in Sensors, Reader(s), OwedBy(s) <= Allowed(s)
  PROVE  OwedBy(s)' <= Allowed(s)'
<1> DEFINE file == fileLines[s]
           op == open[s]
           i == reading[s].id
           p == pushed[s]
<1>1. /\ file \in File /\ op \in BOOLEAN /\ IsFiniteSet(p)
      /\ op => file # <<>> /\ LastLine(file) # <<>>
      /\ failed[s] \in Nat /\ restarts \in Nat
      /\ OwedBy(s) \in Nat /\ Allowed(s) \in Nat
  BY OwedType DEF RawTypeOK, LastLineInv
<1>2. ASSUME failed'[s] = failed[s], restarts' = restarts, OwedBy(s)' <= OwedBy(s), OwedBy(s)' \in Nat
      PROVE  OwedBy(s)' <= Allowed(s)'
  <2>1. Allowed(s)' = Allowed(s)
    BY <1>2 DEF Allowed
  <2> QED BY <1>1, <1>2, <2>1
<1>3. ASSUME failed'[s] = failed[s] + 1, restarts' = restarts, OwedBy(s)' <= OwedBy(s) + 2, OwedBy(s)' \in Nat
      PROVE  OwedBy(s)' <= Allowed(s)'
  <2>1. Allowed(s)' = Allowed(s) + 2
    BY <1>1, <1>3 DEF Allowed
  <2> QED BY <1>1, <1>3, <2>1
<1>4. OwedBy(s)' \in Nat
  <2>1. [RawNext]_rawVars
    BY DEF RawNext
  <2> QED BY <2>1, OwedNext
<1>5. ASSUME NEW v \in Values, WriteText(s, v) PROVE OwedBy(s)' <= Allowed(s)'
  <2> DEFINE r == [id |-> made + 1, value |-> v]
             more == TextAdded(file, op, r)
  <2>1. /\ r \in Text /\ r # Piece /\ rpc[s] = "text"
        /\ reading' = [reading EXCEPT ![s] = r] /\ rpc' = [rpc EXCEPT ![s] = "end"]
    BY <1>5, TakenIs DEF WriteText
  <2>2. AddText(s, r) /\ pushed' = pushed /\ failed' = failed /\ restarts' = restarts
    BY <1>5 DEF WriteText, faultVars
  <2> HIDE DEF r
  <2>3. fileLines' = [fileLines EXCEPT ![s] = more] /\ open' = [open EXCEPT ![s] = TRUE]
    BY <2>1, <2>2, AddTextIs
  <2>4. OwedBy(s)' = Owed(more, TRUE, "end", r.id, p)
    <3> HIDE DEF more
    <3> QED BY <2>1, <2>2, <2>3 DEF OwedBy, RawTypeOK
  <2>5. OwedBy(s) = Owed(file, op, "text", i, p)
    BY <2>1 DEF OwedBy
  <2>6. Owed(more, TRUE, "end", r.id, p) <= Owed(file, op, "text", i, p)
    <3> HIDE DEF file, op, p, i
    <3> QED BY <1>1, <2>1, OwedText DEF TextAdded
  <2> HIDE DEF more, file, op, p, i
  <2> QED BY <1>2, <1>4, <2>2, <2>4, <2>5, <2>6
<1>6. ASSUME NEW v \in Values, TextFails(s, v) PROVE OwedBy(s)' <= Allowed(s)'
  <2> DEFINE r == [id |-> made + 1, value |-> v]
             more == TextAdded(file, op, Piece)
  <2>1. /\ rpc[s] = "text"
        /\ reading' = [reading EXCEPT ![s] = r] /\ rpc' = [rpc EXCEPT ![s] = "push"]
    BY <1>6, TakenIs DEF TextFails
  <2>2. pushed' = pushed /\ failed'[s] = failed[s] + 1 /\ restarts' = restarts
    BY <1>6 DEF TextFails, WriteFails, RawTypeOK
  <2> HIDE DEF r
  <2>3. OwedBy(s) = Owed(file, op, "text", i, p)
    BY <2>1 DEF OwedBy
  <2>4. OwedBy(s)' = Owed(more, TRUE, "push", r.id, p) \/ OwedBy(s)' = Owed(file, op, "push", r.id, p)
    <3>1. CASE AddText(s, Piece)
      <4>1. Piece \in Text
        BY DEF Piece, NoReading, Text
      <4>2. fileLines' = [fileLines EXCEPT ![s] = more] /\ open' = [open EXCEPT ![s] = TRUE]
        BY <3>1, <4>1, AddTextIs
      <4> HIDE DEF more
      <4> QED BY <2>1, <2>2, <4>2 DEF OwedBy, RawTypeOK
    <3>2. CASE UNCHANGED fileVars
      BY <2>1, <2>2, <3>2 DEF OwedBy, RawTypeOK, fileVars
    <3> QED BY <1>6, <3>1, <3>2 DEF TextFails
  <2>5. /\ Owed(file, op, "push", r.id, p) <= Owed(file, op, "text", i, p) + 2
        /\ Owed(more, TRUE, "push", r.id, p) <= Owed(file, op, "text", i, p) + 2
    <3> HIDE DEF file, op, p, i
    <3> QED BY <1>1, OwedNoText DEF TextAdded
  <2> HIDE DEF more, file, op, p, i
  <2>6. OwedBy(s)' <= OwedBy(s) + 2
    BY <2>3, <2>4, <2>5
  <2> QED BY <1>3, <1>4, <2>2, <2>6
<1>7. CASE WriteEnd(s)
  <2>1. /\ rpc[s] = "end" /\ rpc' = [rpc EXCEPT ![s] = "push"] /\ open' = [open EXCEPT ![s] = FALSE]
        /\ fileLines' = fileLines /\ reading' = reading /\ pushed' = pushed
        /\ failed' = failed /\ restarts' = restarts
    BY <1>7 DEF WriteEnd, faultVars
  <2>2. OwedBy(s)' = Owed(file, FALSE, "push", i, p) /\ OwedBy(s) = Owed(file, op, "end", i, p)
    BY <2>1 DEF OwedBy, RawTypeOK
  <2> HIDE DEF file, op, i, p
  <2>3. Owed(file, FALSE, "push", i, p) <= Owed(file, op, "end", i, p)
    BY <1>1, OwedEnd
  <2> QED BY <1>2, <1>4, <2>1, <2>2, <2>3
<1>8. CASE EndFails(s)
  <2>1. /\ rpc[s] = "end" /\ rpc' = [rpc EXCEPT ![s] = "push"] /\ open' = open
        /\ fileLines' = fileLines /\ reading' = reading /\ pushed' = pushed
        /\ failed'[s] = failed[s] + 1 /\ restarts' = restarts
    BY <1>8 DEF EndFails, WriteFails, fileVars, RawTypeOK
  <2>2. OwedBy(s)' = Owed(file, op, "push", i, p) /\ OwedBy(s) = Owed(file, op, "end", i, p)
    BY <2>1 DEF OwedBy, RawTypeOK
  <2> HIDE DEF file, op, i, p
  <2>3. Owed(file, op, "push", i, p) <= Owed(file, op, "end", i, p) + 2
    BY <1>1, OwedEnd
  <2> QED BY <1>3, <1>4, <2>1, <2>2, <2>3
<1>9. CASE PushReading(s)
  <2> DEFINE q == p \cup {i}
             j == NoReading.id
  <2>1. /\ rpc[s] = "push" /\ rpc' = [rpc EXCEPT ![s] = "text"] /\ open' = open
        /\ fileLines' = fileLines /\ reading' = [reading EXCEPT ![s] = NoReading]
        /\ pushed' = [pushed EXCEPT ![s] = q]
        /\ failed' = failed /\ restarts' = restarts
    BY <1>9 DEF PushReading, fileVars, faultVars
  <2>2. OwedBy(s)' = Owed(file, op, "text", j, q) /\ OwedBy(s) = Owed(file, op, "push", i, p)
    <3> HIDE DEF q
    <3> QED BY <2>1 DEF OwedBy, RawTypeOK
  <2> HIDE DEF file, op, i, p, j
  <2>3. Owed(file, op, "text", j, p \cup {i}) <= Owed(file, op, "push", i, p)
    BY <1>1, OwedPush
  <2> QED BY <1>2, <1>4, <2>1, <2>2, <2>3
<1> QED BY <1>5, <1>6, <1>7, <1>8, <1>9 DEF Reader

LEMMA OwedStep ==
  ASSUME RawTypeOK, LastLineInv, [RawNext]_rawVars,
         NEW s \in Sensors, OwedBy(s) <= Allowed(s)
  PROVE  OwedBy(s)' <= Allowed(s)'
<1>1. CASE \/ UNCHANGED rawVars \/ AskAggregated
           \/ \E q \in Sensors : ReadSensorFile(q) \/ ReadFails(q)
  <2>1. UNCHANGED <<fileLines, open, rpc, reading, pushed, failed, restarts>>
    BY <1>1 DEF rawVars, AskAggregated, ReadSensorFile, ReadFails, fileVars, readerVars, faultVars
  <2> QED BY <2>1 DEF OwedBy, Allowed
<1>2. ASSUME NEW q \in Sensors, Reader(q) PROVE OwedBy(s)' <= Allowed(s)'
  <2>1. CASE q = s
    BY <1>2, <2>1, OwedReader
  <2>2. CASE q # s
    BY <1>2, <2>2, OwedFrame
  <2> QED BY <2>1, <2>2
<1>3. CASE Restart
  <2> DEFINE file == fileLines[s]
             op == open[s]
             pc == rpc[s]
             i == reading[s].id
             j == NoReading.id
             p == pushed[s]
  <2>1. /\ rpc'[s] = "text" /\ open' = open /\ fileLines' = fileLines /\ reading'[s] = NoReading
        /\ pushed' = pushed /\ failed' = failed /\ restarts' = restarts + 1
    BY <1>3 DEF Restart, fileVars
  <2>2. OwedBy(s)' = Owed(file, op, "text", j, p) /\ OwedBy(s) = Owed(file, op, pc, i, p)
    BY <2>1 DEF OwedBy
  <2>3. /\ op \in BOOLEAN /\ IsFiniteSet(p) /\ OwedBy(s) \in Nat
        /\ failed[s] \in Nat /\ restarts \in Nat
        /\ pc = "end" /\ op /\ Parses(LastLine(file)) => LastLine(file)[1].id \notin p
    BY OwedType DEF RawTypeOK, LastLineInv
  <2>4. OwedBy(s)' \in Nat
    BY OwedNext
  <2> HIDE DEF file, op, pc, i, j, p
  <2>5. Owed(file, op, "text", j, p) <= Owed(file, op, pc, i, p) + 1
    BY <2>3, OwedRestart
  <2>6. Allowed(s)' = Allowed(s) + 1 /\ Allowed(s) \in Nat
    BY <2>1, <2>3 DEF Allowed
  <2> QED BY <2>2, <2>3, <2>4, <2>5, <2>6
<1> QED BY <1>1, <1>2, <1>3 DEF RawNext

LEMMA OwedStart ==
  ASSUME RawInit, NEW s \in Sensors
  PROVE  OwedBy(s) <= Allowed(s)
<1>1. /\ fileLines[s] = <<>> /\ open[s] = FALSE /\ rpc[s] = "text" /\ pushed[s] = {}
      /\ failed[s] = 0 /\ restarts = 0
  BY DEF RawInit
<1>2. LostOf(pushed[s], fileLines[s]) = {}
  BY <1>1 DEF LostOf
<1>3. Cardinality(LostOf(pushed[s], fileLines[s])) = 0
  BY <1>2, FS_EmptySet
<1>4. OwedBy(s) = 0
  BY <1>1, <1>3 DEF OwedBy, Owed, InHand, AtRisk
<1> QED BY <1>1, <1>4 DEF Allowed

\* A sensor's file, read by read_sensor_file, gives back what its reader pushed,
\* but for two readings per failed write and one per restart of the process.
THEOREM FilesLoseLittle == RawSpec => []LossIsBounded
<1> DEFINE Owing == \A s \in Sensors : OwedBy(s) <= Allowed(s)
           Inv == RawTypeOK /\ LastLineInv /\ Owing
<1>1. RawInit => Inv
  BY RawInitType, OwedStart
<1>2. Inv /\ [RawNext]_rawVars => Inv'
  BY RawStepType, OwedStep
<1>3. Inv => LossIsBounded
  <2> SUFFICES ASSUME Inv, NEW s \in Sensors
               PROVE  Cardinality(pushed[s] \ Ids(Parsed(s))) <= 2 * failed[s] + restarts
    BY DEF LossIsBounded
  <2> DEFINE c == Cardinality(LostOf(pushed[s], fileLines[s]))
  <2>1. c \in Nat /\ c <= OwedBy(s) /\ OwedBy(s) <= Allowed(s) /\ OwedBy(s) \in Nat /\ Allowed(s) \in Nat
    BY OwedType, OwedParts
  <2>2. c = Cardinality(pushed[s] \ Ids(Parsed(s)))
    BY DEF LostOf, Parsed
  <2> HIDE DEF c
  <2> QED BY <2>1, <2>2 DEF Allowed
<1> HIDE DEF Inv
<1> QED BY <1>1, <1>2, <1>3, PTL DEF RawSpec

-----------------------------------------------------------------------------
\* The statistics of an answer are those of the values that were read.
LEMMA SeenValues ==
  ASSUME RawTypeOK, LastLineInv, AnswerInv, NEW s \in Sensors
  PROVE  ValuesOf(seen[s]) \in Seq(Int) /\ Len(ValuesOf(seen[s])) <= MaxCount
<1> DEFINE a == Len(seen[s])
           b == Len(RestOf(fileLines[s], upTo[s]))
<1>1. seen[s] \in Seq(Text) /\ a \in Nat /\ b \in Nat /\ a + b <= made /\ made \in 0 .. MaxReadings
  BY RestType DEF RawTypeOK, AnswerInv
<1>2. a <= MaxCount
  <2> HIDE DEF a, b
  <2> QED BY <1>1, ConstantsType
<1> QED BY <1>1, <1>2, ValuesOfType

\* aggregate_from_raw_data answers with the statistics of the values read.
THEOREM AnswersAreExact == RawSpec => []AggregateIsExact
<1>1. RawTypeOK /\ LastLineInv /\ AnswerInv => AggregateIsExact
  BY SeenValues, AggregatedIs, AddedExact DEF AggregateIsExact
<1> QED BY <1>1, RawTypeInvariant, PTL

\* The values read may be cut anywhere: the statistics of the two parts merge to
\* those of all of them, which is what the engine's workers do with a window.
THEOREM PartsMergeExactly == RawSpec => []MergeIsExact
<1>1. RawTypeOK /\ LastLineInv /\ AnswerInv => MergeIsExact
  <2> SUFFICES ASSUME RawTypeOK, LastLineInv, AnswerInv, NEW s \in Sensors,
                      NEW k \in 0 .. Len(ValuesOf(seen[s]))
               PROVE  LET v == ValuesOf(seen[s])
                          a == StatsOf(SubSeq(v, 1, k))
                          b == StatsOf(SubSeq(v, k + 1, Len(v)))
                      IN  Merge(a, b) = StatsOf(v) /\ Merge(b, a) = StatsOf(v)
    BY DEF MergeIsExact
  <2> DEFINE v == ValuesOf(seen[s])
  <2>1. v \in Seq(Int) /\ Len(v) <= MaxCount
    BY SeenValues
  <2> HIDE DEF v
  <2>2. LET a == StatsOf(SubSeq(v, 1, k))
            b == StatsOf(SubSeq(v, k + 1, Len(v)))
        IN  Merge(a, b) = StatsOf(v) /\ Merge(b, a) = StatsOf(v)
    BY <2>1, SplitExact DEF v
  <2> QED BY <2>2 DEF v
<1> QED BY <1>1, RawTypeInvariant, PTL

-----------------------------------------------------------------------------
\* What a raw answer has of the readings of a file.
CutOff(t) == IF Len(t) > RawLimit THEN SubSeq(t, 1, RawLimit) ELSE t

LEMMA CutOffSame ==
  ASSUME NEW t \in Seq(Text)
  PROVE  IsPrefix(CutOff(t), CutOff(t))
BY DEF IsPrefix

LEMMA CutOffGrows ==
  ASSUME NEW t \in Seq(Text), NEW x \in Text
  PROVE  LET a == CutOff(t)
             b == CutOff(Append(t, x))
         IN  IsPrefix(a, b) /\ (Len(a) = RawLimit => a = b)
<1> DEFINE n == Len(t)
           u == Append(t, x)
           a == CutOff(t)
           b == CutOff(u)
<1>1. /\ n \in Nat /\ RawLimit \in Nat /\ u \in Seq(Text) /\ Len(u) = n + 1
      /\ \A k \in 1 .. n : u[k] = t[k]
  BY ConstantsType, LenProperties, AppendProperties
<1> HIDE DEF n, u
<1>2. /\ a \in Seq(Text) /\ Len(a) = (IF n > RawLimit THEN RawLimit ELSE n)
      /\ \A k \in 1 .. Len(a) : a[k] = t[k]
  BY <1>1 DEF CutOff, n
<1>3. /\ b \in Seq(Text) /\ Len(b) = (IF n + 1 > RawLimit THEN RawLimit ELSE n + 1)
      /\ \A k \in 1 .. Len(b) : b[k] = u[k]
  BY <1>1 DEF CutOff
<1> HIDE DEF a, b
<1>4. Len(a) <= Len(b) /\ Len(a) <= n /\ Len(a) \in Nat /\ Len(b) \in Nat
  BY <1>1, <1>2, <1>3
<1>5. \A k \in 1 .. Len(a) : a[k] = b[k]
  BY <1>1, <1>2, <1>3, <1>4
<1>6. IsPrefix(a, b)
  <2>1. /\ SubSeq(a, 1, Len(a)) \in Seq(Text) /\ Len(SubSeq(a, 1, Len(a))) = Len(a)
        /\ SubSeq(b, 1, Len(a)) \in Seq(Text) /\ Len(SubSeq(b, 1, Len(a))) = Len(a)
        /\ \A k \in 1 .. Len(a) : SubSeq(a, 1, Len(a))[k] = SubSeq(b, 1, Len(a))[k]
    BY <1>2, <1>3, <1>4, <1>5
  <2> DEFINE p == SubSeq(a, 1, Len(a))
             q == SubSeq(b, 1, Len(a))
  <2>2. p = q
    <3> HIDE DEF p, q
    <3> QED BY <2>1, SeqEqual DEF p, q
  <2> QED BY <1>4, <2>2 DEF IsPrefix
<1>7. Len(a) = RawLimit => a = b
  <2>1. Len(a) = RawLimit => Len(b) = Len(a)
    BY <1>1, <1>2, <1>3
  <2> QED BY <1>2, <1>3, <1>5, <2>1, SeqEqual
<1> QED BY <1>6, <1>7 DEF a, b, u

LEMMA CutOffLength ==
  ASSUME NEW t \in Seq(Text)
  PROVE  /\ Len(t) >= RawLimit => Len(CutOff(t)) = RawLimit
         /\ Len(t) <= RawLimit => CutOff(t) = t
BY ConstantsType, LenProperties DEF CutOff

LEMMA FrontOfAppend ==
  ASSUME NEW u \in Seq(Text), NEW x \in Text
  PROVE  Front(Append(u, x)) = u /\ Append(u, x) # <<>>
<1> DEFINE n == Len(u)
           a == Append(u, x)
           f == SubSeq(a, 1, n)
<1>1. /\ n \in Nat /\ a \in Seq(Text) /\ Len(a) = n + 1 /\ \A k \in 1 .. n : a[k] = u[k]
  BY LenProperties, AppendProperties
<1>2. a # <<>> /\ Front(a) = f
  BY <1>1, EmptySeq DEF Front
<1> HIDE DEF a
<1>3. f \in Seq(Text) /\ Len(f) = n /\ \A k \in 1 .. n : f[k] = a[k]
  BY <1>1
<1> HIDE DEF f
<1>4. f = u
  BY <1>1, <1>3, SeqEqual DEF n
<1> QED BY <1>2, <1>4 DEF a

\* Without its last reading, an answer that was the whole file loses that one.
LEMMA CutOffShrinks ==
  ASSUME NEW u \in Seq(Text), NEW x \in Text
  PROVE  LET a == CutOff(Append(u, x))
             b == CutOff(u)
         IN  \/ a = b
             \/ /\ Len(Append(u, x)) <= RawLimit
                /\ a # <<>> /\ IsPrefix(Front(a), b)
<1> DEFINE t == Append(u, x)
<1>1. t \in Seq(Text) /\ Len(t) = Len(u) + 1 /\ Len(u) \in Nat /\ RawLimit \in Nat
  BY ConstantsType, LenProperties, AppendProperties
<1>2. CASE Len(t) <= RawLimit
  <2>1. CutOff(t) = t /\ CutOff(u) = u
    <3> HIDE DEF t
    <3> QED BY <1>1, <1>2, CutOffLength
  <2>2. Front(t) = u /\ t # <<>> /\ IsPrefix(u, u)
    BY <2>1, FrontOfAppend, CutOffSame
  <2> HIDE DEF t
  <2> QED BY <1>2, <2>1, <2>2 DEF t
<1>3. CASE Len(u) >= RawLimit
  BY <1>3, CutOffLength, CutOffGrows
<1> HIDE DEF t
<1>4. Len(t) <= RawLimit \/ Len(u) >= RawLimit
  BY <1>1
<1> QED BY <1>2, <1>3, <1>4

\* A text is on a line of its own, or it joins the last line, which is not parsed
\* any more.
LEMMA TextRead ==
  ASSUME RawTypeOK, LastLineInv, NEW s \in Sensors, NEW t \in Text, AddText(s, t)
  PROVE  \/ Parsed(s)' = Parsed(s)
         \/ \E x \in Text : Parsed(s)' = Append(Parsed(s), x)
         \/ open[s] /\ \E u \in Seq(Text) : \E x \in Text :
              Parsed(s) = Append(u, x) /\ Parsed(s)' = u
<1> DEFINE file == fileLines[s]
           more == TextAdded(file, open[s], t)
<1>1. /\ file \in File /\ (open[s] => file # <<>> /\ LastLine(file) # <<>>)
  BY DEF RawTypeOK, LastLineInv
<1>2. Parsed(s) = Readings(file) /\ Parsed(s)' = Readings(more)
  <2>1. fileLines' = [fileLines EXCEPT ![s] = more]
    BY AddTextIs
  <2> HIDE DEF more
  <2>2. fileLines'[s] = more
    BY <2>1 DEF RawTypeOK
  <2> QED BY <2>2 DEF Parsed
<1> HIDE DEF file
<1>3. CASE ~open[s]
  <2>1. more = Append(file, <<t>>)
    BY <1>3 DEF TextAdded
  <2>2. Readings(more) = (IF t = Piece THEN Readings(file) ELSE Append(Readings(file), t))
    BY <1>1, <2>1, NewLineIs
  <2> HIDE DEF more
  <2> QED BY <1>2, <2>2
<1>4. CASE open[s]
  <2> DEFINE o == Others(file)
             l == LastLine(file)
             q == Append(l, t)
             u == Readings(o)
  <2>1. /\ o \in File /\ l \in Seq(Text) /\ file = Append(o, l) /\ more = Append(o, q) /\ l # <<>>
    BY <1>1, <1>4, FileParts DEF TextAdded
  <2> HIDE DEF o, l, more
  <2>2. q \in Seq(Text) /\ ~Parses(q)
    <3>1. q \in Seq(Text) /\ Len(q) = Len(l) + 1 /\ Len(l) \in Nat \ {0}
      BY <2>1, AppendProperties, EmptySeq
    <3> QED BY <3>1 DEF Parses
  <2> HIDE DEF q
  <2>3. Readings(more) = NextRead(u, q) /\ Readings(file) = NextRead(u, l) /\ u \in Seq(Text)
    BY <2>1, <2>2, ReadingsAppend, ReadingsType
  <2> HIDE DEF u
  <2>4. Readings(more) = u
    BY <2>2, <2>3 DEF NextRead
  <2>5. CASE Parses(l)
    <3>1. l[1] \in Text
      BY <2>1, <2>5, LineIs
    <3>2. Readings(file) = Append(u, l[1])
      BY <2>3, <2>5 DEF NextRead
    <3> QED BY <1>2, <1>4, <2>3, <2>4, <3>1, <3>2
  <2>6. CASE ~Parses(l)
    BY <1>2, <2>3, <2>4, <2>6 DEF NextRead
  <2> QED BY <2>5, <2>6
<1> QED BY <1>3, <1>4

\* What a step does to the readings of a file.
ReadingsKept(s) == Parsed(s)' = Parsed(s)
ReadingMore(s) == \E x \in Text : Parsed(s)' = Append(Parsed(s), x)
ReadingLess(s) ==
  /\ open[s] /\ rpc[s] = "text"
  /\ \E u \in Seq(Text) : \E x \in Text : Parsed(s) = Append(u, x) /\ Parsed(s)' = u

LEMMA FileStep ==
  ASSUME RawTypeOK, LastLineInv, [RawNext]_rawVars, NEW s \in Sensors
  PROVE  ReadingsKept(s) \/ ReadingMore(s) \/ ReadingLess(s)
<1>1. CASE fileLines'[s] = fileLines[s]
  BY <1>1 DEF ReadingsKept, Parsed
<1>2. ASSUME NEW t \in Text, AddText(s, t), rpc[s] = "text"
      PROVE  ReadingsKept(s) \/ ReadingMore(s) \/ ReadingLess(s)
  BY <1>2, TextRead DEF ReadingsKept, ReadingMore, ReadingLess
<1>3. ASSUME NEW q \in Sensors, Reader(q), q # s PROVE fileLines'[s] = fileLines[s]
  <2>1. ASSUME NEW v \in Values, WriteText(q, v) \/ TextFails(q, v)
        PROVE  fileLines'[s] = fileLines[s]
    BY <1>3, <2>1 DEF RawTypeOK, WriteText, TextFails, AddText, fileVars
  <2>2. CASE WriteEnd(q) \/ EndFails(q) \/ PushReading(q)
    BY <2>2 DEF WriteEnd, EndFails, PushReading, fileVars
  <2> QED BY <1>3, <2>1, <2>2 DEF Reader
<1>4. CASE Reader(s)
  <2>1. ASSUME NEW v \in Values, WriteText(s, v)
        PROVE  rpc[s] = "text" /\ \E t \in Text : AddText(s, t)
    <3> DEFINE r == [id |-> made + 1, value |-> v]
    <3>1. r \in Text /\ rpc[s] = "text"
      BY <2>1, TakenIs DEF WriteText
    <3>2. AddText(s, r)
      BY <2>1 DEF WriteText
    <3> HIDE DEF r
    <3> QED BY <3>1, <3>2
  <2>2. ASSUME NEW v \in Values, TextFails(s, v)
        PROVE  fileLines'[s] = fileLines[s] \/ (rpc[s] = "text" /\ \E t \in Text : AddText(s, t))
    <3>1. Piece \in Text
      BY DEF Piece, NoReading, Text
    <3> QED BY <2>2, <3>1 DEF TextFails, TakeReading, fileVars
  <2>3. CASE WriteEnd(s) \/ EndFails(s) \/ PushReading(s)
    BY <1>1, <2>3 DEF WriteEnd, EndFails, PushReading, fileVars
  <2> QED BY <1>1, <1>2, <1>4, <2>1, <2>2, <2>3 DEF Reader
<1>5. CASE \/ UNCHANGED rawVars \/ AskAggregated \/ Restart
           \/ \E q \in Sensors : ReadSensorFile(q) \/ ReadFails(q)
  <2>1. fileLines' = fileLines
    BY <1>5 DEF rawVars, AskAggregated, Restart, ReadSensorFile, ReadFails, fileVars
  <2> QED BY <1>1, <2>1
<1> QED BY <1>1, <1>3, <1>4, <1>5 DEF RawNext

\* A raw answer of get_raw_sensor_data that was not the whole file never changes,
\* and any other only grows, but for its last reading: that is lost if a text
\* joins the line that a failed write or a death has left without an end.
THEOREM RawAnswersAreStable == RawSpec => RawIsStable
<1> DEFINE Step == \A s \in Sensors :
                     /\ Len(Parsed(s)) > RawLimit => Raw(s)' = Raw(s)
                     /\ \/ IsPrefix(Raw(s), Raw(s)')
                        \/ open[s] /\ rpc[s] = "text" /\ Raw(s) # <<>> /\ IsPrefix(Front(Raw(s)), Raw(s)')
<1>1. ASSUME RawTypeOK, LastLineInv, [RawNext]_rawVars PROVE Step
  <2> SUFFICES ASSUME NEW s \in Sensors
               PROVE  /\ Len(Parsed(s)) > RawLimit => Raw(s)' = Raw(s)
                      /\ \/ IsPrefix(Raw(s), Raw(s)')
                         \/ /\ open[s] /\ rpc[s] = "text" /\ Raw(s) # <<>>
                            /\ IsPrefix(Front(Raw(s)), Raw(s)')
    OBVIOUS
  <2>1. Raw(s) = CutOff(Parsed(s)) /\ Raw(s)' = CutOff(Parsed(s)')
    BY DEF Raw, CutOff
  <2>2. Parsed(s) \in Seq(Text) /\ Len(Parsed(s)) \in Nat /\ RawLimit \in Nat
    BY <1>1, ReadingsType, ConstantsType, LenProperties DEF Parsed, RawTypeOK
  <2>3. IsPrefix(CutOff(Parsed(s)), CutOff(Parsed(s)))
    BY <2>2, CutOffSame
  <2>4. CASE ReadingsKept(s)
    BY <2>1, <2>3, <2>4 DEF ReadingsKept
  <2>5. CASE ReadingMore(s)
    <3>1. PICK x \in Text : Parsed(s)' = Append(Parsed(s), x)
      BY <2>5 DEF ReadingMore
    <3>2. Len(Parsed(s)) > RawLimit => Len(CutOff(Parsed(s))) = RawLimit
      BY <2>2, CutOffLength
    <3> QED BY <2>1, <2>2, <3>1, <3>2, CutOffGrows
  <2>6. CASE ReadingLess(s)
    <3>1. PICK u \in Seq(Text), x \in Text : Parsed(s) = Append(u, x) /\ Parsed(s)' = u
      BY <2>6 DEF ReadingLess
    <3>2. open[s] /\ rpc[s] = "text"
      BY <2>6 DEF ReadingLess
    <3>3. CASE Raw(s) = Raw(s)'
      BY <2>1, <2>3, <3>3
    <3>4. CASE Raw(s) # Raw(s)'
      <4>1. Len(Parsed(s)) <= RawLimit /\ Raw(s) # <<>> /\ IsPrefix(Front(Raw(s)), Raw(s)')
        BY <2>1, <3>1, <3>4, CutOffShrinks
      <4>2. ~(Len(Parsed(s)) > RawLimit)
        BY <2>2, <4>1
      <4> QED BY <3>2, <4>1, <4>2
    <3> QED BY <3>3, <3>4
  <2> QED BY <1>1, <2>4, <2>5, <2>6, FileStep
<1>2. (RawTypeOK /\ LastLineInv) /\ [RawNext]_rawVars => [Step]_rawVars
  BY <1>1
<1> HIDE DEF Step
<1>3. RawSpec => [][Step]_rawVars
  BY <1>2, RawTypeInvariant, PTL DEF RawSpec
<1> QED BY <1>3 DEF RawIsStable, Step
=============================================================================
