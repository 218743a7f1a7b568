-------------------------------- MODULE Storage --------------------------------
(***************************************************************************)
(* Publication of frames: StorageHandle and its worker thread,             *)
(* gateway/src/storage.rs.  A caller of persist_frame sends a request with *)
(* an acknowledgement channel of its own and waits; the worker writes the  *)
(* hourly file, latest.json, stats.json, snapshot.json and the index file  *)
(* "latest", in this order, each by writing a temporary file and renaming  *)
(* it, and stops at the first error.                                       *)
(*                                                                         *)
(* A rename is one action; between two of them the process may die.  The   *)
(* files survive that (not a loss of power: nothing is synced before the   *)
(* end), memory does not.  Frames are numbered in the order in which their *)
(* requests enter the worker's channel.                                    *)
(***************************************************************************)
EXTENDS Naturals, Sequences, FiniteSets

CONSTANTS
  Clients,       \* threads that hold a StorageHandle
  MaxFrames,     \* frames that may be submitted: bounds the run
  HourOf,        \* the hour of a frame's window_end
  ChannelCap,    \* capacity passed to start()
  MaxCrashes,    \* times the process may die: bounds the run
  IoFails        \* file operations may fail

ASSUME StorageAssumption ==
  /\ IsFiniteSet(Clients)
  /\ MaxFrames \in Nat /\ ChannelCap \in Nat \ {0} /\ MaxCrashes \in Nat
  /\ DOMAIN HourOf = 1 .. MaxFrames
  /\ \A f \in 1 .. MaxFrames : HourOf[f] # 0    \* 0 is no hour, below
  /\ IoFails \in BOOLEAN

Frames == 1 .. MaxFrames
Hours == {HourOf[f] : f \in Frames}
None == 0                        \* no such file yet

VARIABLES
  hourFile, latestJson, statsJson, snapshotJson, latestIndex,  \* on disk
  hour, lines,        \* HourlyWriter: current_unix_hour, current_lines
  shutdown, queue,    \* the flag and the worker's channel
  wpc, req, draining, \* worker: place, request at hand, in the second loop
  lastWindow,         \* metrics.last_window_id
  cpc, joined,        \* callers: place; the join handle has been taken
  submitted, crashes,
  acked, late, dropped  \* histories: Ok results; sent after shutdown(); discarded
                        \* by a worker that had started

files == <<hourFile, latestJson, statsJson, snapshotJson, latestIndex>>
memory == <<hour, lines, lastWindow>>
chan == <<shutdown, queue>>
workerVars == <<wpc, req, draining>>
clientVars == <<cpc, joined>>
histories == <<submitted, crashes, acked, late, dropped>>
vars == <<files, memory, chan, workerVars, clientVars, histories>>

Persist(f, c, s) == [kind |-> "persist", frame |-> f, client |-> c, stats |-> s]
Stop == [kind |-> "shutdown"]
NoRequest == [kind |-> "none"]

SeqRange(s) == {s[k] : k \in DOMAIN s}
ClientAt(c, where) == cpc' = [cpc EXCEPT ![c] = where]

-----------------------------------------------------------------------------
\* Callers.

PersistFrame(c, s) ==
  /\ cpc[c] = "idle"
  /\ submitted < MaxFrames
  /\ wpc # "exited"
  /\ Len(queue) < ChannelCap
  /\ submitted' = submitted + 1
  /\ queue' = Append(queue, Persist(submitted + 1, c, s))
  /\ late' = IF shutdown THEN late \cup {submitted + 1} ELSE late
  /\ ClientAt(c, "wait")
  /\ UNCHANGED <<files, memory, shutdown, workerVars, joined, crashes, acked, dropped>>

\* shutdown(): raise the flag ...
RaiseFlag(c) ==
  /\ cpc[c] = "idle"
  /\ shutdown' = TRUE
  /\ ClientAt(c, "send_stop")
  /\ UNCHANGED <<files, memory, queue, workerVars, joined, histories>>

SendStop(c) ==
  /\ cpc[c] = "send_stop"
  /\ \/ wpc # "exited" /\ Len(queue) < ChannelCap /\ queue' = Append(queue, Stop)
     \/ wpc = "exited" /\ UNCHANGED queue
  /\ ClientAt(c, "join")
  /\ UNCHANGED <<files, memory, shutdown, workerVars, joined, histories>>

\* ... and join the worker.  Only the first caller finds the handle.
TakeHandle(c) ==
  /\ cpc[c] = "join"
  /\ ClientAt(c, IF joined THEN "done" ELSE "joining")
  /\ joined' = TRUE
  /\ UNCHANGED <<files, memory, chan, workerVars, histories>>

Join(c) ==
  /\ cpc[c] = "joining"
  /\ wpc = "exited"
  /\ ClientAt(c, "done")
  /\ UNCHANGED <<files, memory, chan, workerVars, joined, histories>>

Client(c) == \/ \E s \in BOOLEAN : PersistFrame(c, s)
             \/ RaiseFlag(c) \/ SendStop(c) \/ TakeHandle(c) \/ Join(c)

-----------------------------------------------------------------------------
\* The worker.

\* ensure_dirs; a worker that cannot create them is gone at once.
Start ==
  /\ wpc = "start"
  /\ wpc' = "check"
  /\ UNCHANGED <<files, memory, chan, req, draining, clientVars, histories>>

\* Mutant: the receiver outlives the worker, and nobody answers.
LeaveReceiverAlive ==
  /\ wpc' = "exited"
  /\ UNCHANGED <<files, memory, chan, req, draining, clientVars, histories>>

\* Mutant: requests are taken out and not answered.
LeaveSilently ==
  /\ wpc' = "exited"
  /\ queue' = <<>>
  /\ UNCHANGED <<files, memory, shutdown, req, draining, clientVars, histories>>

\* The receiver goes, and with it every request in the channel: their callers
\* get WorkerFailed.
Leave ==
  LET lost == {queue[k] : k \in {j \in DOMAIN queue : queue[j].kind = "persist"}} IN
  /\ wpc' = "exited"
  /\ queue' = <<>>
  /\ cpc' = [c \in Clients |-> IF \E m \in lost : m.client = c THEN "idle" ELSE cpc[c]]
  /\ dropped' = IF wpc = "start" THEN dropped ELSE dropped \cup {m.frame : m \in lost}
  /\ UNCHANGED <<files, memory, shutdown, req, draining, joined, submitted, crashes,
                 acked, late>>

StartFails == IoFails /\ wpc = "start" /\ Leave

\* Mutant: no second loop after the flag.
CheckFlagQuits ==
  /\ wpc = "check"
  /\ wpc' = IF shutdown THEN "sync" ELSE "recv"
  /\ draining' = shutdown
  /\ UNCHANGED <<files, memory, chan, req, clientVars, histories>>

\* while !shutdown
CheckFlag ==
  /\ wpc = "check"
  /\ wpc' = IF shutdown THEN "drain" ELSE "recv"
  /\ draining' = shutdown
  /\ UNCHANGED <<files, memory, chan, req, clientVars, histories>>

\* recv() or try_recv() returned a request.
TakeRequest ==
  /\ wpc \in {"recv", "drain"}
  /\ queue # <<>>
  /\ queue' = Tail(queue)
  /\ IF Head(queue).kind = "persist"
     THEN wpc' = "hour" /\ req' = Head(queue) /\ UNCHANGED draining
     ELSE wpc' = "drain" /\ draining' = TRUE /\ UNCHANGED req
  /\ UNCHANGED <<files, memory, shutdown, clientVars, histories>>

\* try_recv() found nothing: sync, and return.  A request that comes in
\* between is discarded with the channel.
DrainDone ==
  /\ wpc = "drain"
  /\ queue = <<>>
  /\ wpc' = "sync"
  /\ UNCHANGED <<files, memory, chan, req, draining, clientVars, histories>>

Exit == wpc = "sync" /\ Leave

\* Mutant: the hour's file is taken to be new.
LinesOfNewFile(h) == IF hour = h THEN lines ELSE <<>>

\* Mutant: what is read back is added to the lines of the hour before.
LinesOfExtended(h) == IF hour = h THEN lines ELSE lines \o hourFile[h]

\* rotate_if_needed reads the hour's file back, unless it is the current one.
LinesOf(h) == IF hour = h THEN lines ELSE hourFile[h]

\* append_jsonl: the line joins current_lines, and the whole file is rewritten.
WriteHour ==
  LET h == HourOf[req.frame] IN
  /\ wpc = "hour"
  /\ hour' = h
  /\ lines' = Append(LinesOf(h), req.frame)
  /\ hourFile' = [hourFile EXCEPT ![h] = lines']
  /\ wpc' = "latest.json"
  /\ UNCHANGED <<latestJson, statsJson, snapshotJson, latestIndex, lastWindow, chan,
                 req, draining, clientVars, histories>>

WriteLatestJson ==
  /\ wpc = "latest.json"
  /\ latestJson' = req.frame
  /\ wpc' = IF req.stats THEN "stats.json" ELSE "latest"
  /\ UNCHANGED <<hourFile, statsJson, snapshotJson, latestIndex, memory, chan, req,
                 draining, clientVars, histories>>

WriteStatsJson ==
  /\ wpc = "stats.json"
  /\ statsJson' = req.frame
  /\ wpc' = "snapshot.json"
  /\ UNCHANGED <<hourFile, latestJson, snapshotJson, latestIndex, memory, chan, req,
                 draining, clientVars, histories>>

WriteSnapshotJson ==
  /\ wpc = "snapshot.json"
  /\ snapshotJson' = req.frame
  /\ wpc' = "latest"
  /\ UNCHANGED <<hourFile, latestJson, statsJson, latestIndex, memory, chan, req,
                 draining, clientVars, histories>>

WriteIndex ==
  /\ wpc = "latest"
  /\ latestIndex' = req.frame
  /\ wpc' = "ack"
  /\ UNCHANGED <<hourFile, latestJson, statsJson, snapshotJson, memory, chan, req,
                 draining, clientVars, histories>>

Resume == IF draining THEN "drain" ELSE "check"

\* Metrics and acknowledgement of a frame that is written.
AckOk ==
  /\ wpc = "ack"
  /\ lastWindow' = req.frame
  /\ acked' = acked \cup {req.frame}
  /\ ClientAt(req.client, "idle")
  /\ wpc' = Resume
  /\ UNCHANGED <<files, hour, lines, chan, req, draining, joined, submitted, crashes,
                 late, dropped>>

\* Mutant: the error of append_jsonl is not propagated.
AckErrorGoesOn ==
  /\ IoFails
  /\ wpc = "hour"
  /\ wpc' = "latest.json"
  /\ UNCHANGED <<files, memory, chan, req, draining, clientVars, histories>>

\* An error ends the request; what was written stays.  A line that could not
\* be flushed stays in current_lines, a file that could not be read does not
\* become the current one.
AckError ==
  /\ IoFails
  /\ wpc \in {"hour", "latest.json", "stats.json", "snapshot.json", "latest"}
  /\ \/ wpc = "hour" /\ LET h == HourOf[req.frame] IN
          hour' = h /\ lines' = Append(LinesOf(h), req.frame)
     \/ UNCHANGED <<hour, lines>>
  /\ ClientAt(req.client, "idle")
  /\ wpc' = Resume
  /\ UNCHANGED <<files, lastWindow, chan, req, draining, joined, histories>>

Worker == \/ Start \/ StartFails \/ CheckFlag \/ TakeRequest \/ DrainDone \/ Exit
          \/ WriteHour \/ WriteLatestJson \/ WriteStatsJson \/ WriteSnapshotJson
          \/ WriteIndex \/ AckOk \/ AckError

-----------------------------------------------------------------------------
InitMemory ==
  /\ hour = None /\ lines = <<>> /\ lastWindow = None
  /\ shutdown = FALSE /\ queue = <<>>
  /\ wpc = "start" /\ req = NoRequest /\ draining = FALSE
  /\ cpc = [c \in Clients |-> "idle"] /\ joined = FALSE

Init ==
  /\ hourFile = [h \in Hours |-> <<>>]
  /\ latestJson = None /\ statsJson = None /\ snapshotJson = None /\ latestIndex = None
  /\ InitMemory
  /\ submitted = 0 /\ crashes = 0 /\ acked = {} /\ late = {} /\ dropped = {}

\* The process dies, and is started again on the same directory.
Crash ==
  /\ crashes < MaxCrashes
  /\ crashes' = crashes + 1
  /\ hour' = None /\ lines' = <<>> /\ lastWindow' = None
  /\ shutdown' = FALSE /\ queue' = <<>>
  /\ wpc' = "start" /\ req' = NoRequest /\ draining' = FALSE
  /\ cpc' = [c \in Clients |-> "idle"] /\ joined' = FALSE
  /\ UNCHANGED <<files, submitted, acked, late, dropped>>

Terminated == (\A c \in Clients : cpc[c] = "done") /\ wpc = "exited" /\ UNCHANGED vars

Next == (\E c \in Clients : Client(c)) \/ Worker \/ Crash \/ Terminated

Spec == Init /\ [][Next]_vars

\* The worker runs, and a caller inside shutdown() goes on.
Fairness == /\ WF_vars(Worker)
            /\ \A c \in Clients : WF_vars(SendStop(c) \/ TakeHandle(c) \/ Join(c))

FairSpec == Spec /\ Fairness

-----------------------------------------------------------------------------
\* A frame whose persist_frame returned Ok is in its hour's file, and stays
\* there: through later rewrites of the file, failed ones, hour changes and
\* restarts of the process.
AckedIsStored == \A f \in acked : f \in SeqRange(hourFile[HourOf[f]])

\* The hourly files hold no frame twice and keep the order of the requests,
\* although failed writes leave lines behind and files are read back.
HourFilesInOrder ==
  \A h \in Hours : \A j, k \in DOMAIN hourFile[h] :
    j < k => hourFile[h][j] < hourFile[h][k]

\* A reader that follows a published file finds what it names, whatever has
\* failed or died between two renames: no file is ahead of one that is
\* written before it, nor the metrics ahead of the index.
FilesFollowEachOther ==
  /\ latestIndex <= latestJson
  /\ snapshotJson <= statsJson /\ statsJson <= latestJson
  /\ lastWindow <= latestIndex
  /\ \A f \in {latestJson, statsJson, snapshotJson, latestIndex} \ {None} :
       f \in SeqRange(hourFile[HourOf[f]])

\* Only a request sent after shutdown() was called can be discarded; the
\* others are carried out ("Drain remaining frames after shutdown request"),
\* unless the worker could not even start.
OnlyLateIsDropped == dropped \subseteq late

\* One worker publishes: callers that wait are exactly those with a request in
\* the channel or at the worker, so each gets one answer.
OneAnswerEach ==
  \A c \in Clients :
    Cardinality({k \in DOMAIN queue : queue[k].kind = "persist" /\ queue[k].client = c})
      + (IF wpc \in {"hour", "latest.json", "stats.json", "snapshot.json", "latest", "ack"}
            /\ req.client = c THEN 1 ELSE 0)
    = IF cpc[c] = "wait" THEN 1 ELSE 0

\* Files, channel, worker and all, through failures and restarts, are the log of
\* frames that was promised: see FrameLog.
Log == INSTANCE FrameLog WITH
  stored <- {f \in Frames : f \in SeqRange(hourFile[HourOf[f]])}

ImplementsLog == Log!Spec

\* persist_frame and shutdown() return, whatever fails and whoever calls
\* shutdown() meanwhile.
CallsReturn ==
  \A c \in Clients :
    /\ cpc[c] = "wait" ~> cpc[c] # "wait"
    /\ cpc[c] = "send_stop" ~> cpc[c] \in {"done", "idle"}
=============================================================================
