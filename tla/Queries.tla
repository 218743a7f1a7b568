-------------------------------- MODULE Queries --------------------------------
(***************************************************************************)
(* What the web server (gateway/src/main.rs) and the dashboard             *)
(* (dashboard/src/lib.rs) read while the storage worker writes: a request  *)
(* lists the hourly files, then reads one after the other, and between two *)
(* reads frames are added, files appear and the process may be restarted.  *)
(*                                                                         *)
(* A request is a record: its kind, and the frames first .. last it asks   *)
(* for (those in its time range, or those the sensor occurs in; for        *)
(* "window", `first' is the window id).  A file is read whole: it is       *)
(* replaced by rename, so an open file does not change.  Of the list only  *)
(* the hours count, and of an answer only which frames it has: an hour has *)
(* one file, and a file no frame twice.                                    *)
(***************************************************************************)
EXTENDS Storage

CONSTANTS
  Requests,    \* the requests that are made
  Limit,       \* frames in an answer: the 20 of "latest", `limit' of "range"
  StatsFiles   \* files compute_stats looks at

Kinds == {"latest", "window", "sensor", "range", "stats", "dashboard"}

ASSUME QueriesAssumption ==
  /\ Requests \subseteq [kind : Kinds, first : Nat, last : Nat]
  /\ Limit \in Nat \ {0} /\ StatsFiles \in Nat \ {0}
  /\ \A f \in Frames : HourOf[f] \in Nat

VARIABLES
  qpc, asked,  \* place, and the request
  list, out,   \* hours whose files are still to read, frames found
  before,      \* history: frames known to exist when the request came in
  windowOf,    \* the window id of every frame submitted,
  nextWindow,  \* and of the next one
  shown        \* history: frames the dashboard's /latest has shown

queryVars == <<qpc, asked, list, out, before>>
windows == <<windowOf, nextWindow>>
allVars == <<vars, queryVars, windows, shown>>

Idle == [kind |-> "none", first |-> 0, last |-> 0]

\* get_data_files: the files there are.
DataFiles == {h \in Hours : hourFile[h] # <<>>}

\* The web server goes from the newest file to the oldest; ...
Newest == CHOOSE h \in list : \A k \in list : k <= h

\* ... the dashboard through the hours it was asked for, oldest first, and looks
\* for each file when it comes to it.
Oldest == CHOOSE h \in list : \A k \in list : h <= k

\* compute_stats: the newest of them.
NewestFiles(n) == {h \in DataFiles : Cardinality({k \in DataFiles : k >= h}) <= n}

Matches(f) ==
  \/ asked.kind \in {"latest", "stats"}
  \/ asked.kind = "window" /\ windowOf[f] = asked.first
  \/ asked.kind \in {"sensor", "range", "dashboard"} /\ asked.first <= f /\ f <= asked.last

Limited == asked.kind \in {"latest", "range", "window"}
Most == IF asked.kind = "window" THEN 1 ELSE Limit
Enough == Limited /\ Cardinality(out) >= Most

\* Mutant: one line less than there is room for.
MatchingFewer(s, n) ==
  {s[k] : k \in {j \in DOMAIN s : /\ Matches(s[j])
                                  /\ Cardinality({i \in 1 .. j : Matches(s[i])}) < n}}

\* The frames of the first n lines that match.
Matching(s, n) ==
  {s[k] : k \in {j \in DOMAIN s : /\ Matches(s[j])
                                  /\ Cardinality({i \in 1 .. j : Matches(s[i])}) <= n}}

\* What one more file adds to an answer.
Added(s) == Matching(s, IF Limited THEN Most - Cardinality(out) ELSE Len(s))

-----------------------------------------------------------------------------
Ask(q) ==
  /\ qpc = "idle"
  /\ qpc' = "scan"
  /\ asked' = q
  /\ list' = CASE q.kind = "dashboard" -> Hours
               [] q.kind = "stats" -> NewestFiles(StatsFiles)
               [] OTHER -> DataFiles
  /\ before' = acked \cup shown
  /\ UNCHANGED <<vars, out, windows, shown>>

\* Mutant: a scan ends at the first file that has something.
ReadFileStops ==
  /\ qpc = "scan" /\ asked.kind # "dashboard"
  /\ list # {} /\ ~Enough
  /\ out' = out \cup Added(hourFile[Newest])
  /\ list' = IF out' = {} THEN list \ {Newest} ELSE {}
  /\ UNCHANGED <<vars, qpc, asked, before, windows, shown>>

\* The web server, which leaves a scan when it has enough ...
ReadFile ==
  /\ qpc = "scan" /\ asked.kind # "dashboard"
  /\ list # {} /\ ~Enough
  /\ out' = out \cup Added(hourFile[Newest])
  /\ list' = list \ {Newest}
  /\ UNCHANGED <<vars, qpc, asked, before, windows, shown>>

\* ... and the dashboard, which goes through all hours; one that has no file is
\* passed over.
ReadHour ==
  /\ qpc = "scan" /\ asked.kind = "dashboard"
  /\ list # {}
  /\ out' = out \cup Added(hourFile[Oldest])
  /\ list' = list \ {Oldest}
  /\ UNCHANGED <<vars, qpc, asked, before, windows, shown>>

\* The scan is over: what was found is the answer, ...
Reply ==
  /\ qpc = "scan"
  /\ list = {} \/ Enough
  /\ qpc' = "answer"
  /\ UNCHANGED <<vars, asked, list, out, before, windows, shown>>

\* ... which is given.
Done ==
  /\ qpc = "answer"
  /\ qpc' = "idle" /\ asked' = Idle /\ list' = {} /\ out' = {} /\ before' = {}
  /\ UNCHANGED <<vars, windows, shown>>

\* The dashboard's /latest: snapshot.json, or else latest.json.
ShowSnapshot ==
  /\ qpc = "idle"
  /\ IF snapshotJson # None
     THEN shown' = shown \cup {snapshotJson} /\ UNCHANGED qpc
     ELSE qpc' = "fallback" /\ UNCHANGED shown
  /\ UNCHANGED <<vars, asked, list, out, before, windows>>

ShowLatest ==
  /\ qpc = "fallback"
  /\ shown' = shown \cup ({latestJson} \ {None})
  /\ qpc' = "idle"
  /\ UNCHANGED <<vars, asked, list, out, before, windows>>

Query == (\E q \in Requests : Ask(q)) \/ ReadFile \/ ReadHour
           \/ Reply \/ Done \/ ShowSnapshot \/ ShowLatest

-----------------------------------------------------------------------------
\* The gateway.  Every frame has statistics (main.rs 1454); window ids count
\* from 0 in every process.
Submit(c) ==
  /\ PersistFrame(c, TRUE)
  /\ windowOf' = Append(windowOf, nextWindow)
  /\ nextWindow' = nextWindow + 1
  /\ UNCHANGED <<queryVars, shown>>

StorageStep ==
  /\ \/ Worker \/ Terminated
     \/ \E c \in Clients : RaiseFlag(c) \/ SendStop(c) \/ TakeHandle(c) \/ Join(c)
  /\ UNCHANGED <<queryVars, windows, shown>>

\* The web server dies with the process, the dashboard is another one.
Die ==
  /\ Crash
  /\ IF asked.kind = "dashboard" THEN UNCHANGED queryVars
     ELSE qpc' = "idle" /\ asked' = Idle /\ list' = {} /\ out' = {} /\ before' = {}
  /\ nextWindow' = 0
  /\ UNCHANGED <<windowOf, shown>>

QueriesInit ==
  /\ Init
  /\ qpc = "idle" /\ asked = Idle /\ list = {} /\ out = {} /\ before = {}
  /\ windowOf = <<>> /\ nextWindow = 0 /\ shown = {}

QueriesNext == (\E c \in Clients : Submit(c)) \/ StorageStep \/ Die \/ Query

QueriesSpec == QueriesInit /\ [][QueriesNext]_allVars

-----------------------------------------------------------------------------
Answered == qpc = "answer"

\* Frames 1 .. f came in before the clock was set back.
InOrder(f) == \A g, h \in 1 .. f : g <= h => HourOf[g] <= HourOf[h]

\* A frame that was acknowledged, or that the dashboard has shown as the latest,
\* is in every answer it belongs to: no request that lists and reads the files
\* in separate steps misses it.  A limited answer may leave it out only when it
\* is full.
KnownIsFound ==
  Answered =>
    /\ asked.kind \in {"sensor", "dashboard"} => {f \in before : Matches(f)} \subseteq out
    /\ asked.kind \in {"range", "latest", "window"} /\ ~Enough
         => {f \in before : Matches(f)} \subseteq out

\* Until the clock is set back, the web server's answers have no hole: with a
\* frame they have every earlier one that is on disk.  The files are listed before
\* the first is read, and read newest first, and either is enough; the dashboard
\* looks for an hour's file when it comes to it, oldest first, and may have a hole
\* where the hour changes.
NoHole ==
  Answered /\ asked.kind = "sensor" =>
    \A f \in out : InOrder(f) =>
      \A g \in 1 .. (f - 1) : Matches(g) /\ g \in SeqRange(hourFile[HourOf[g]]) => g \in out

\* "Latest aggregated frames" (main.rs 828):
\* among them is the last frame acknowledged before the request.
LatestIsLatest ==
  Answered /\ asked.kind = "latest" /\ acked # {} /\ before # {} =>
    \E f \in out : \A g \in before : g <= f
=============================================================================
