-------------------------------- MODULE Control --------------------------------
(***************************************************************************)
(* The ingestion control plane of gateway/src/main.rs: the scheduler polls *)
(* the readers' statuses and sends each reader a mode; the reader drains   *)
(* its sensor, lets its governor choose a sleep under that mode, and sends *)
(* a status.  Both directions are asynchronous, so each side acts on what  *)
(* the other was a while ago.                                              *)
(*                                                                         *)
(* Of the statuses waiting in the one status channel only the last of each *)
(* reader counts (the scheduler empties the channel into a map), so that   *)
(* one is kept.  How old a status is is left open: it may be late at any   *)
(* poll, and stays so until a newer one is in.                             *)
(***************************************************************************)
EXTENDS Governor, Sequences

CONSTANTS
  Readers,
  Capacity,       \* of the buffer
  Backlogs,       \* what sensor.available() may return
  Fills,          \* what the buffer's fill ratio may be
  ClampFill,      \* the 0.20 above which the scheduler clamps
  Warning, Critical, WarningLimit   \* SchedulerConfig

ASSUME ControlAssumption ==
  /\ Capacity \in Nat \ {0}
  /\ Backlogs \subseteq Nat /\ 0 \in Backlogs
  /\ Fills \subseteq 0 .. Unit /\ 0 \in Fills
  /\ ClampFill \in Nat /\ Warning \in Nat /\ Critical \in Nat /\ WarningLimit \in Nat \ {0}

ControlModes == {"Automatic", "ClampToNominal", "ForceFastRecovery", "ShutdownDrain"}

NoCommand == "none"
Status == [available : Backlogs, fill : Fills]
NoStatus == [available |-> -1, fill |-> -1]

VARIABLES
  stop,
  rpc, control_mode, draining, gov,  \* per reader; control_mode stands for governor_override too
  commands,                          \* per reader: its command channel
  pending,                           \* per reader: its last status in the status channel
  spc, latest, late, warning_hits, last_command,  \* the scheduler
  calm                               \* the load is gone for good

readerVars == <<rpc, control_mode, draining, gov>>
schedulerVars == <<spc, latest, late, warning_hits, last_command>>
vars == <<stop, readerVars, commands, pending, schedulerVars, calm>>

All(v) == [r \in Readers |-> v]

\* Mutant: draining does not override the governor.
OverrideOfDrainNone(mode) ==
  CASE mode \in {"Automatic", "ShutdownDrain"} -> "None"
    [] mode = "ClampToNominal" -> "ClampMaxSleep"
    [] OTHER -> "ForceFastRecovery"

OverrideOf(mode) ==
  CASE mode = "Automatic" -> "None"
    [] mode = "ClampToNominal" -> "ClampMaxSleep"
    [] OTHER -> "ForceFastRecovery"

-----------------------------------------------------------------------------
\* A reader.

\* draining = true, and the mode that goes with it.
Drain(r) ==
  /\ draining' = [draining EXCEPT ![r] = TRUE]
  /\ control_mode' = [control_mode EXCEPT ![r] = "ShutdownDrain"]

TakeCommand(r) ==
  /\ rpc[r] = "commands" /\ commands[r] # <<>>
  /\ commands' = [commands EXCEPT ![r] = Tail(@)]
  /\ IF Head(commands[r]) = "ShutdownDrain"
     THEN Drain(r) /\ stop' = TRUE
     ELSE /\ control_mode' = [control_mode EXCEPT ![r] = Head(commands[r])]
          /\ UNCHANGED <<draining, stop>>
  /\ UNCHANGED <<rpc, gov, pending, schedulerVars, calm>>

TestStop(r) ==
  /\ rpc[r] = "commands" /\ commands[r] = <<>>
  /\ rpc' = [rpc EXCEPT ![r] = "read"]
  /\ IF stop /\ ~draining[r] THEN Drain(r) ELSE UNCHANGED <<draining, control_mode>>
  /\ UNCHANGED <<stop, gov, commands, pending, schedulerVars, calm>>

\* Drain the sensor into the buffer; a push that is refused makes the reader drain.
ReadAll(r) ==
  /\ rpc[r] = "read"
  /\ rpc' = [rpc EXCEPT ![r] = "update"]
  /\ \/ UNCHANGED <<stop, draining, control_mode>>
     \/ ~calm /\ Drain(r) /\ stop' = TRUE
  /\ UNCHANGED <<gov, commands, pending, schedulerVars, calm>>

\* The governor's update, and the status.  The wait totals are those of the whole
\* buffer: this reader, another one or the dispatcher may have waited since the
\* last update.
UpdateAndReport(r) ==
  /\ rpc[r] = "update"
  /\ \E s \in Status, push, pop \in BOOLEAN :
       /\ calm => s = [available |-> 0, fill |-> 0] /\ ~push
       /\ gov' = [gov EXCEPT ![r] =
            Update(@, [available |-> s.available, capacity |-> Capacity, fill |-> s.fill,
                       push_waited |-> push, pop_waited |-> pop,
                       override |-> OverrideOf(control_mode[r])])]
       /\ pending' = [pending EXCEPT ![r] = s]
       /\ rpc' = [rpc EXCEPT ![r] = IF draining[r] /\ s.available = 0 THEN "leave" ELSE "decide"]
  /\ UNCHANGED <<stop, control_mode, draining, commands, schedulerVars, calm>>

\* A draining reader leaves with an empty ring or, any time later, because of
\* DRAIN_TIMEOUT, with one more status; the others sleep.
Leave(r) ==
  /\ draining[r] /\ rpc[r] \in {"leave", "decide"}
  /\ rpc' = [rpc EXCEPT ![r] = "exited"]
  /\ \E s \in Status : pending' = [pending EXCEPT ![r] = s]
  /\ UNCHANGED <<stop, control_mode, draining, gov, commands,
                 schedulerVars, calm>>

Sleep(r) ==
  /\ rpc[r] = "decide"
  /\ rpc' = [rpc EXCEPT ![r] = "commands"]
  /\ UNCHANGED <<stop, control_mode, draining, gov, commands, pending, schedulerVars, calm>>

Reader(r) == TakeCommand(r) \/ TestStop(r) \/ ReadAll(r) \/ UpdateAndReport(r)
               \/ Leave(r) \/ Sleep(r)

-----------------------------------------------------------------------------
\* The scheduler.

\* The top of the loop: leave it on the flag, or empty the status channel into
\* latest_status.
Receive ==
  /\ spc = "receive" /\ ~stop
  /\ latest' = [r \in Readers |-> IF pending[r] = NoStatus THEN latest[r] ELSE pending[r]]
  /\ late' = [r \in Readers |-> late[r] /\ pending[r] = NoStatus]
  /\ pending' = All(NoStatus)
  /\ spc' = "poll"
  /\ UNCHANGED <<stop, readerVars, commands, warning_hits, last_command, calm>>

\* Mutant: the warnings are never reset.
HitsNeverReset(r) ==
  IF latest[r].available >= Warning /\ warning_hits[r] < WarningLimit
  THEN warning_hits[r] + 1 ELSE warning_hits[r]

\* consecutive_warning_hits: polls, not statuses.  Beyond the limit the count
\* makes no difference.
Hits(r) ==
  IF latest[r].available < Warning THEN 0
  ELSE IF warning_hits[r] < WarningLimit THEN warning_hits[r] + 1 ELSE warning_hits[r]

Desired(r, hits, isLate) ==
  IF isLate \/ latest[r].available >= Critical THEN "ForceFastRecovery"
  ELSE IF hits >= WarningLimit \/ latest[r].fill >= ClampFill THEN "ClampToNominal"
  ELSE "Automatic"

\* tx.send: nobody receives in a reader that has ended.
Sent(r, mode) == IF rpc[r] = "exited" THEN commands[r] ELSE Append(commands[r], mode)

\* Mutant: only an escalation is sent.
ToldEscalations(r, mode) ==
  IF mode \in {last_command[r], "Automatic"} THEN commands[r] ELSE Sent(r, mode)

Told(r, mode) == IF mode = last_command[r] THEN commands[r] ELSE Sent(r, mode)

\* One poll.  A status that was late stays so; in calm none becomes so.
Poll ==
  /\ spc = "poll"
  /\ \E stale \in SUBSET {r \in Readers : latest[r] # NoStatus} :
       LET hits == [r \in Readers |-> Hits(r)]
           want == [r \in Readers |-> IF latest[r] = NoStatus THEN last_command[r]
                                      ELSE Desired(r, hits[r], r \in stale)]
       IN  /\ \A r \in Readers : (late[r] => r \in stale) /\ (calm /\ r \in stale => late[r])
           /\ late' = [r \in Readers |-> r \in stale]
           /\ warning_hits' = hits
           /\ last_command' = want
           /\ commands' = [r \in Readers |-> Told(r, want[r])]
  /\ spc' = "receive"
  /\ UNCHANGED <<stop, readerVars, pending, latest, calm>>

\* After the loop: every reader is told to drain, and the last statuses in the
\* channel make the last snapshot.
Final ==
  /\ spc = "receive" /\ stop
  /\ commands' = [r \in Readers |-> Sent(r, "ShutdownDrain")]
  /\ latest' = [r \in Readers |-> IF pending[r] = NoStatus THEN latest[r] ELSE pending[r]]
  /\ pending' = All(NoStatus)
  /\ last_command' = All("ShutdownDrain")
  /\ spc' = "exited"
  /\ UNCHANGED <<stop, readerVars, late, warning_hits, calm>>

Scheduler == Receive \/ Poll \/ Final

-----------------------------------------------------------------------------
\* The environment: Ctrl+C, and a load that goes away for good.
Signal ==
  /\ ~stop
  /\ stop' = TRUE
  /\ UNCHANGED <<readerVars, commands, pending, schedulerVars, calm>>

LoadEnds ==
  /\ ~calm
  /\ calm' = TRUE
  /\ UNCHANGED <<stop, readerVars, commands, pending, schedulerVars>>

Init ==
  /\ stop = FALSE
  /\ rpc = All("commands") /\ control_mode = All("Automatic") /\ draining = All(FALSE)
  /\ gov = All(New)
  /\ commands = All(<<>>) /\ pending = All(NoStatus)
  /\ spc = "receive" /\ latest = All(NoStatus) /\ late = All(FALSE)
  /\ warning_hits = All(0) /\ last_command = All(NoCommand)
  /\ calm = FALSE

Terminated ==
  /\ spc = "exited" /\ rpc = All("exited")
  /\ UNCHANGED vars

Next == (\E r \in Readers : Reader(r)) \/ Scheduler \/ Signal \/ LoadEnds \/ Terminated

Spec == Init /\ [][Next]_vars

Fairness == WF_vars(Scheduler) /\ \A r \in Readers : WF_vars(Reader(r))

FairSpec == Spec /\ Fairness

-----------------------------------------------------------------------------
TypeOK ==
  /\ stop \in BOOLEAN /\ calm \in BOOLEAN
  /\ rpc \in [Readers -> {"commands", "read", "update", "decide", "leave", "exited"}]
  /\ control_mode \in [Readers -> ControlModes]
  /\ draining \in [Readers -> BOOLEAN]
  /\ gov \in [Readers -> GovernorType]
  /\ commands \in [Readers -> Seq(ControlModes)]
  /\ pending \in [Readers -> Status \cup {NoStatus}]
  /\ spc \in {"receive", "poll", "exited"}
  /\ latest \in [Readers -> Status \cup {NoStatus}]
  /\ late \in [Readers -> BOOLEAN]
  /\ warning_hits \in [Readers -> 0 .. WarningLimit]
  /\ last_command \in [Readers -> ControlModes \cup {NoCommand}]

\* Whatever the load, the waits of other threads and the overrides, a governor's
\* sleep stays within its configuration, its counters tell the same story
\* (governor.rs 139-150), and it never falls into FailSafe: the buffer has room
\* and the sleep cannot come out as zero.
GovernorsSound == \A r \in Readers : Sound(gov[r])

\* What a reader does once it has taken every command sent to it.
Eventual(r) == IF commands[r] = <<>> THEN control_mode[r] ELSE commands[r][Len(commands[r])]

\* The scheduler sends a mode only when it changes (main.rs 269), so it must know
\* what the reader does: a reader that has read its channel is in the mode the
\* scheduler last noted, unless it drains, which it may do on its own.
CommandsAgree ==
  \A r \in Readers :
    \/ draining[r]
    \/ last_command[r] = NoCommand /\ Eventual(r) = "Automatic"
    \/ last_command[r] = Eventual(r)

\* The mode in force when a reader chose its sleep bounds that sleep: when clamped,
\* the nominal sleep the reader was given (its own governor's minimum where that is
\* more, which only a rejected configuration makes possible); when forced or
\* draining, the minimum.
CommandObeyed ==
  \A r \in Readers :
    rpc[r] \in {"decide", "leave"} =>
      CASE control_mode[r] = "Automatic" -> TRUE
        [] control_mode[r] = "ClampToNominal" ->
             gov[r].sleep <= ClampBound /\ gov[r].mode # "Economy"
        [] OTHER -> gov[r].sleep = cfg.min_sleep /\ gov[r].mode = "FastRecovery"

\* When the load is gone, every reader is back to automatic polling for good and
\* its governor out of FastRecovery, or the gateway is shutting down: no warning
\* count, late status or command in flight keeps a reader throttled.
CalmRestores ==
  \A r \in Readers :
    calm ~> [](\/ stop
               \/ control_mode[r] = "Automatic" /\ gov[r].mode # "FastRecovery")
=============================================================================
