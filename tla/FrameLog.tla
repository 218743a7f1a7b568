------------------------------- MODULE FrameLog -------------------------------
(***************************************************************************)
(* What publication promises to the pipeline and to the web layer          *)
(* (docs/report_azure.tex 131 and 220), without a worker, a channel, lines *)
(* in memory or hours, and with no failure or restart to be seen: frames   *)
(* are stored for good, in the order in which they came; latest.json,      *)
(* stats.json, snapshot.json and the index only ever move on, to the       *)
(* newest frame stored, each after the one it follows; and a frame is      *)
(* acknowledged when the index has come to it.                             *)
(***************************************************************************)
EXTENDS Naturals

CONSTANT Frames      \* numbers, in the order of the requests

VARIABLES
  stored,                                            \* frames in the hourly files
  latestJson, statsJson, snapshotJson, latestIndex,  \* frames they hold, or 0
  acked                                              \* frames acknowledged

logVars == <<stored, latestJson, statsJson, snapshotJson, latestIndex, acked>>

Init == /\ stored = {} /\ acked = {}
        /\ latestJson = 0 /\ statsJson = 0 /\ snapshotJson = 0 /\ latestIndex = 0

Newest(f) == f \in stored /\ \A g \in stored : g <= f

\* A frame may bring with it others whose own requests failed.
Store ==
  /\ stored' \in SUBSET Frames /\ stored \subseteq stored'
  /\ \A f \in stored, g \in stored' \ stored : f < g
  /\ UNCHANGED <<latestJson, statsJson, snapshotJson, latestIndex, acked>>

PublishLatest(f) ==
  /\ Newest(f)
  /\ latestJson' = f
  /\ UNCHANGED <<stored, statsJson, snapshotJson, latestIndex, acked>>

PublishStats(f) ==
  /\ Newest(f) /\ latestJson = f
  /\ statsJson' = f
  /\ UNCHANGED <<stored, latestJson, snapshotJson, latestIndex, acked>>

PublishSnapshot(f) ==
  /\ Newest(f) /\ statsJson = f
  /\ snapshotJson' = f
  /\ UNCHANGED <<stored, latestJson, statsJson, latestIndex, acked>>

PublishIndex(f) ==
  /\ Newest(f) /\ latestJson = f
  /\ latestIndex' = f
  /\ UNCHANGED <<stored, latestJson, statsJson, snapshotJson, acked>>

Acknowledge(f) ==
  /\ Newest(f) /\ latestIndex = f
  /\ acked' = acked \cup {f}
  /\ UNCHANGED <<stored, latestJson, statsJson, snapshotJson, latestIndex>>

Next == \/ Store
        \/ \E f \in stored : \/ PublishLatest(f) \/ PublishStats(f) \/ PublishSnapshot(f)
                             \/ PublishIndex(f) \/ Acknowledge(f)

Spec == Init /\ [][Next]_logVars
=============================================================================
