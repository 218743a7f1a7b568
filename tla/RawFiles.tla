------------------------------- MODULE RawFiles -------------------------------
(***************************************************************************)
(* The text files of gateway/src/main.rs, one per sensor: the reader       *)
(* thread appends every reading to its sensor's file before it pushes it,  *)
(* and the web server reads the files, raw or put together to statistics.  *)
(*                                                                         *)
(* writeln! on an unbuffered file is two writes, the text and the end of   *)
(* the line: the process may die between them, and either may fail, the    *)
(* first after a piece of the text.  The next text then joins the line,    *)
(* which no longer parses.                                                 *)
(*                                                                         *)
(* read_sensor_file reads up to the end of the file.  A last line without  *)
(* an end is given at that point, and the file is looked at again: what    *)
(* has been written since, to that line as well, is read on its own.  A    *)
(* text that is just being written is seen whole or not at all.            *)
(***************************************************************************)
EXTENDS SensorStats, SequencesExt

CONSTANTS
  Sensors,
  Values,          \* what value_fn makes of a reading
  MaxReadings,     \* readings written: bounds the run
  MaxFailures,     \* writes that fail, per sensor: bounds the run
  MaxRestarts,     \* times the process may die: bounds the run
  RawLimit         \* readings in a raw answer

ASSUME RawFilesAssumption ==
  /\ Values \subseteq -(Inf - 1) .. Inf - 1
  /\ MaxReadings \in 1 .. MaxCount
  /\ MaxFailures \in Nat /\ MaxRestarts \in Nat /\ RawLimit \in Nat

VARIABLES
  fileLines,   \* per sensor: its file's lines, each a sequence of texts
  open,        \* per sensor: the last line has no end
  rpc,         \* per sensor: the reader is at "text", "end" or "push"
  reading,     \* per sensor: the reading in its hand
  made,        \* readings so far; they are numbered
  pushed,      \* history, per sensor: the readings given to the buffer
  failed,      \* per sensor: failed writes
  restarts,
  todo,        \* the web server: the sensors still to read for its answer
  upTo, seen   \* per sensor: how far its file has been read, what was parsed

fileVars == <<fileLines, open>>
readerVars == <<rpc, reading, made, pushed>>
faultVars == <<failed, restarts>>
answerVars == <<todo, upTo, seen>>
rawVars == <<fileVars, readerVars, faultVars, answerVars>>

NoReading == [id |-> 0, value |-> 0]
Piece == NoReading               \* of a text that was not written to its end

-----------------------------------------------------------------------------
\* A reader thread: the body of while let Some(r) = sensor.read().

WithText(s, t) ==
  IF open[s] THEN [fileLines[s] EXCEPT ![Len(fileLines[s])] = Append(@, t)]
             ELSE Append(fileLines[s], <<t>>)

AddText(s, t) ==
  /\ fileLines' = [fileLines EXCEPT ![s] = WithText(s, t)]
  /\ open' = [open EXCEPT ![s] = TRUE]

\* The next reading, of value v, is in the reader's hand.
TakeReading(s, v, where) ==
  /\ rpc[s] = "text"
  /\ made < MaxReadings
  /\ made' = made + 1
  /\ reading' = [reading EXCEPT ![s] = [id |-> made + 1, value |-> v]]
  /\ rpc' = [rpc EXCEPT ![s] = where]

\* write_sensor_reading_to_file: the directory, the file and the text.
WriteText(s, v) ==
  /\ TakeReading(s, v, "end")
  /\ AddText(s, [id |-> made + 1, value |-> v])
  /\ UNCHANGED <<pushed, faultVars, answerVars>>

WriteEnd(s) ==
  /\ rpc[s] = "end"
  /\ open' = [open EXCEPT ![s] = FALSE]
  /\ rpc' = [rpc EXCEPT ![s] = "push"]
  /\ UNCHANGED <<fileLines, reading, made, pushed, faultVars, answerVars>>

WriteFails(s) ==
  /\ failed[s] < MaxFailures
  /\ failed' = [failed EXCEPT ![s] = @ + 1]
  /\ UNCHANGED restarts

\* An error is reported and otherwise ignored: the reading is pushed.
TextFails(s, v) ==
  /\ WriteFails(s)
  /\ TakeReading(s, v, "push")
  /\ AddText(s, Piece) \/ UNCHANGED fileVars
  /\ UNCHANGED <<pushed, answerVars>>

EndFails(s) ==
  /\ WriteFails(s)
  /\ rpc[s] = "end"
  /\ rpc' = [rpc EXCEPT ![s] = "push"]
  /\ UNCHANGED <<fileVars, reading, made, pushed, answerVars>>

PushReading(s) ==
  /\ rpc[s] = "push"
  /\ pushed' = [pushed EXCEPT ![s] = @ \cup {reading[s].id}]
  /\ reading' = [reading EXCEPT ![s] = NoReading]
  /\ rpc' = [rpc EXCEPT ![s] = "text"]
  /\ UNCHANGED <<fileVars, made, faultVars, answerVars>>

Reader(s) == \/ \E v \in Values : WriteText(s, v) \/ TextFails(s, v)
             \/ WriteEnd(s) \/ EndFails(s) \/ PushReading(s)

FromTheStart == [s \in Sensors |-> [line |-> 0, text |-> 0]]
NothingSeen == [s \in Sensors |-> <<>>]

\* The process dies and is started again; files stay.
Restart ==
  /\ restarts < MaxRestarts
  /\ restarts' = restarts + 1
  /\ rpc' = [s \in Sensors |-> "text"]
  /\ reading' = [s \in Sensors |-> NoReading]
  /\ todo' = {} /\ upTo' = FromTheStart /\ seen' = NothingSeen
  /\ UNCHANGED <<fileVars, made, pushed, failed>>

-----------------------------------------------------------------------------
\* The web server.

Parses(line) == Len(line) = 1 /\ line[1] # Piece

\* Mutant: the first line that does not parse ends the file.
ReadingsUpTo(file) ==
  LET readings[k \in 0 .. Len(file)] ==
        IF k = 0 THEN <<>>
        ELSE IF \A j \in 1 .. k : Parses(file[j]) THEN Append(readings[k - 1], file[k][1])
        ELSE readings[k - 1]
  IN  readings[Len(file)]

\* read_sensor_file: a line that does not parse is skipped.
Readings(file) ==
  LET readings[k \in 0 .. Len(file)] ==
        IF k = 0 THEN <<>>
        ELSE IF Parses(file[k]) THEN Append(readings[k - 1], file[k][1])
        ELSE readings[k - 1]
  IN  readings[Len(file)]

\* What is parsed of a file that does not change meanwhile.
Parsed(s) == Readings(fileLines[s])

EndOf(file) == [line |-> Len(file), text |-> IF file = <<>> THEN 0 ELSE Len(Last(file))]

\* What a file has after a position: nothing of the line of the position if only
\* its end came, and an empty line is skipped.
RestOf(file, p) ==
  IF p.line = 0 THEN file
  ELSE LET line == file[p.line]
           more == IF p.text < Len(line) THEN <<SubSeq(line, p.text + 1, Len(line))>> ELSE <<>>
       IN  more \o SubSeq(file, p.line + 1, Len(file))

\* get_realtime_aggregated: read_raw_sensor_data takes one sensor after another,
\* in an order that does not matter: no two sensors share anything.
AskAggregated ==
  /\ todo = {}
  /\ todo' = Sensors
  /\ upTo' = FromTheStart /\ seen' = NothingSeen
  /\ UNCHANGED <<fileVars, readerVars, faultVars>>

\* lines() up to the end of the file, and again if it gave a line without an end.
ReadSensorFile(s) ==
  LET here == EndOf(fileLines[s]) IN
  /\ s \in todo
  /\ todo' = IF open[s] /\ upTo[s] # here THEN todo ELSE todo \ {s}
  /\ upTo' = [upTo EXCEPT ![s] = here]
  /\ seen' = [seen EXCEPT ![s] = @ \o Readings(RestOf(fileLines[s], upTo[s]))]
  /\ UNCHANGED <<fileVars, readerVars, faultVars>>

\* An error of open or of a line: what was parsed is given up, and the answer has
\* an empty list for the sensor.
ReadFails(s) ==
  /\ s \in todo
  /\ todo' = todo \ {s}
  /\ seen' = [seen EXCEPT ![s] = <<>>]
  /\ UNCHANGED <<upTo, fileVars, readerVars, faultVars>>

ValuesOf(t) == [k \in DOMAIN t |-> t[k].value]

\* aggregate_from_raw_data: one SensorStats per sensor, value by value.
Aggregated(s) ==
  LET v == ValuesOf(seen[s])
      stats[k \in 0 .. Len(v)] == IF k = 0 THEN Default ELSE Update(stats[k - 1], v[k])
  IN  stats[Len(v)]

\* Mutant: the newest of them.
RawNewest(s) ==
  LET t == Parsed(s) IN
  IF Len(t) > RawLimit THEN SubSeq(t, Len(t) + 1 - RawLimit, Len(t)) ELSE t

\* get_raw_sensor_data: the answer, if nothing is written meanwhile.  An error is
\* answered as one, with no readings at all.
Raw(s) ==
  LET t == Parsed(s) IN
  IF Len(t) > RawLimit THEN SubSeq(t, 1, RawLimit) ELSE t

-----------------------------------------------------------------------------
RawInit ==
  /\ fileLines = [s \in Sensors |-> <<>>] /\ open = [s \in Sensors |-> FALSE]
  /\ rpc = [s \in Sensors |-> "text"] /\ reading = [s \in Sensors |-> NoReading]
  /\ made = 0 /\ pushed = [s \in Sensors |-> {}]
  /\ failed = [s \in Sensors |-> 0] /\ restarts = 0
  /\ todo = {} /\ upTo = FromTheStart /\ seen = NothingSeen

RawNext == \/ \E s \in Sensors : Reader(s) \/ ReadSensorFile(s) \/ ReadFails(s)
           \/ AskAggregated \/ Restart

RawSpec == RawInit /\ [][RawNext]_rawVars

-----------------------------------------------------------------------------
Ids(t) == {t[k].id : k \in DOMAIN t}

\* A file gives back what was pushed: a failed write costs at most two readings,
\* the one that was being written and the one that joins its line, and a death
\* of the process one of each sensor, however they follow each other.
LossIsBounded ==
  \A s \in Sensors :
    Cardinality(pushed[s] \ Ids(Parsed(s))) <= 2 * failed[s] + restarts

\* Readings come back in the order in which they were written, and whatever is
\* written, a raw answer that was not the whole file stays as it is, and any other
\* only grows, but for one case: if a failed write or a death has left the last
\* line without an end, and the next text joins it, the last reading is lost again
\* to queries that had found it.  A line that is just being written is not one.
RawIsStable ==
  [][\A s \in Sensors :
       /\ Len(Parsed(s)) > RawLimit => Raw(s)' = Raw(s)
       /\ \/ IsPrefix(Raw(s), Raw(s)')
          \/ open[s] /\ rpc[s] = "text" /\ Raw(s) # <<>> /\ IsPrefix(Front(Raw(s)), Raw(s)')]_rawVars

\* The statistics of an answer are those of the values read, by their definition
\* ("Welford update", types.rs 70), ...
AggregateIsExact == \A s \in Sensors : Aggregated(s) = StatsOf(ValuesOf(seen[s]))

\* ... and those of any two parts of them, merged either way round, are the same
\* ("Merge two Welford states using Chan's parallel algorithm", types.rs 76):
\* what the workers of the engine do with a window.
MergeIsExact ==
  \A s \in Sensors :
    LET v == ValuesOf(seen[s]) IN
    \A k \in 0 .. Len(v) :
      LET a == StatsOf(SubSeq(v, 1, k))
          b == StatsOf(SubSeq(v, k + 1, Len(v)))
      IN  Merge(a, b) = StatsOf(v) /\ Merge(b, a) = StatsOf(v)
=============================================================================
