------------------------------ MODULE RoundQueue ------------------------------
(***************************************************************************)
(* RWRoundQueue of os_lib/src/queue.rs: the ring between a sensor's        *)
(* generator thread (the writer) and its reader thread.  Two atomic        *)
(* indices; no lock and no compare-and-swap: an index is advanced by a     *)
(* load and a separate store, and BOTH threads advance read_idx.           *)
(*                                                                         *)
(* An action is one atomic load or store, or one half of a value: a        *)
(* reading (three f32 in accelerometer.rs) is written and read word by     *)
(* word, so a value is a pair and a pair of different halves is torn.      *)
(* Loads of write_idx by its only writer join the step that follows.       *)
(* Steps interleave sequentially consistently.                             *)
(***************************************************************************)
EXTENDS Naturals, Sequences

CONSTANTS
  Capacity,    \* slots; a power of two; one stays unused
  MaxWrites,   \* values 1 .. MaxWrites are written, in this order
  Overrun      \* a write to a full ring may overlap a read

ASSUME RoundQueueAssumption ==
  /\ \E k \in 0 .. Capacity : Capacity = 2 ^ k    \* new() rejects anything else
  /\ Capacity \in Nat /\ Capacity > 1 /\ MaxWrites \in Nat
  /\ Overrun \in BOOLEAN

Slots == 0 .. Capacity - 1
Words == 0 .. MaxWrites        \* 0: the zeroed memory of new()
Value(n) == <<n, n>>

VARIABLES
  buffer, readIdx, writeIdx,
  wpc, wasFull, wRead,    \* writer: was_full, and read_idx as commit_write loaded it
  written,                \* values written so far
  rpc, rIdx, rVal, rNext, \* reader: loaded read_idx, the value copied, commit_read's load
  got                     \* history: values try_read returned

shared == <<buffer, readIdx, writeIdx>>
writer == <<wpc, wasFull, wRead, written>>
reader == <<rpc, rIdx, rVal, rNext, got>>
vars == <<shared, writer, reader>>

NextIndex(i) == (i + 1) % Capacity

-----------------------------------------------------------------------------
\* The writer: write_overwrite(value).

\* acquire_write_ptr: the slot is write_idx, was_full is decided here.
AcquireWrite ==
  /\ wpc = "idle"
  /\ written < MaxWrites
  /\ wasFull' = (NextIndex(writeIdx) = readIdx)
  /\ wasFull' /\ ~Overrun => rpc = "idle"
  /\ wpc' = "half1"
  /\ UNCHANGED <<shared, wRead, written, reader>>

WriteHalf(h, from, to) ==
  /\ wpc = from
  /\ buffer' = [buffer EXCEPT ![writeIdx][h] = written + 1]
  /\ wpc' = to
  /\ UNCHANGED <<readIdx, writeIdx, wasFull, wRead, written, reader>>

WriteFirst == WriteHalf(1, "half1", "half2")
WriteSecond == WriteHalf(2, "half2", IF wasFull THEN "load_read" ELSE "store_write")

\* commit_write, overwriting: load read_idx and store its successor.
CommitLoadRead ==
  /\ wpc = "load_read"
  /\ wRead' = readIdx
  /\ wpc' = "store_read"
  /\ UNCHANGED <<shared, wasFull, written, reader>>

\* Mutant: overwriting leaves the read index where it was.
CommitStoreReadLost ==
  /\ wpc = "store_read"
  /\ wpc' = "store_write"
  /\ UNCHANGED <<shared, wasFull, wRead, written, reader>>

CommitStoreRead ==
  /\ wpc = "store_read"
  /\ readIdx' = NextIndex(wRead)
  /\ wpc' = "store_write"
  /\ UNCHANGED <<buffer, writeIdx, wasFull, wRead, written, reader>>

CommitStoreWrite ==
  /\ wpc = "store_write"
  /\ writeIdx' = NextIndex(writeIdx)
  /\ written' = written + 1
  /\ wpc' = "idle"
  /\ UNCHANGED <<buffer, readIdx, wasFull, wRead, reader>>

Writer == \/ AcquireWrite \/ WriteFirst \/ WriteSecond
          \/ CommitLoadRead \/ CommitStoreRead \/ CommitStoreWrite

-----------------------------------------------------------------------------
\* The reader: try_read().

AcquireLoadRead ==
  /\ rpc = "idle"
  /\ wasFull /\ ~Overrun => wpc = "idle"
  /\ rIdx' = readIdx
  /\ rpc' = "load_write"
  /\ UNCHANGED <<shared, writer, rVal, rNext, got>>

\* Mutant: no test for an empty ring.
AcquireLoadWriteUnchecked ==
  /\ rpc = "load_write"
  /\ rpc' = "half1"
  /\ UNCHANGED <<shared, writer, rIdx, rVal, rNext, got>>

\* Equal indices: empty, try_read returns None.
AcquireLoadWrite ==
  /\ rpc = "load_write"
  /\ rpc' = IF rIdx = writeIdx THEN "idle" ELSE "half1"
  /\ UNCHANGED <<shared, writer, rIdx, rVal, rNext, got>>

ReadHalf(h, from, to) ==
  /\ rpc = from
  /\ rVal' = [rVal EXCEPT ![h] = buffer[rIdx][h]]
  /\ rpc' = to
  /\ UNCHANGED <<shared, writer, rIdx, rNext, got>>

ReadFirst == ReadHalf(1, "half1", "half2")
ReadSecond == ReadHalf(2, "half2", "load_read")

\* commit_read: load read_idx again, then store its successor.
CommitReadLoad ==
  /\ rpc = "load_read"
  /\ rNext' = NextIndex(readIdx)
  /\ rpc' = "store_read"
  /\ UNCHANGED <<shared, writer, rIdx, rVal, got>>

\* Mutant: the read is never committed.
CommitReadStoreLost ==
  /\ rpc = "store_read"
  /\ got' = Append(got, rVal)
  /\ rpc' = "idle"
  /\ UNCHANGED <<shared, writer, rIdx, rVal, rNext>>

CommitReadStore ==
  /\ rpc = "store_read"
  /\ readIdx' = rNext
  /\ got' = Append(got, rVal)
  /\ rpc' = "idle"
  /\ UNCHANGED <<buffer, writeIdx, writer, rIdx, rVal, rNext>>

Reader == \/ AcquireLoadRead \/ AcquireLoadWrite \/ ReadFirst \/ ReadSecond
          \/ CommitReadLoad \/ CommitReadStore

-----------------------------------------------------------------------------
Init ==
  /\ buffer = [s \in Slots |-> Value(0)]
  /\ readIdx = 0 /\ writeIdx = 0
  /\ wpc = "idle" /\ wasFull = FALSE /\ wRead = 0 /\ written = 0
  /\ rpc = "idle" /\ rIdx = 0 /\ rVal = Value(0) /\ rNext = 0
  /\ got = <<>>

\* The reader may call try_read as often as it likes, but a run is over once
\* as many values were returned as written: bounds the history.
Bounded == Len(got) <= MaxWrites

Next == Writer \/ (Bounded /\ Reader)

Spec == Init /\ [][Next]_vars

-----------------------------------------------------------------------------
\* The type invariant.
TypeOK ==
  /\ buffer \in [Slots -> Words \X Words]
  /\ readIdx \in Slots /\ writeIdx \in Slots
  /\ wpc \in {"idle", "half1", "half2", "load_read", "store_read", "store_write"}
  /\ wasFull \in BOOLEAN /\ wRead \in Slots /\ written \in 0 .. MaxWrites
  /\ rpc \in {"idle", "load_write", "half1", "half2", "load_read", "store_read"}
  /\ rIdx \in Slots /\ rVal \in Words \X Words /\ rNext \in Slots
  /\ got \in Seq(Words \X Words)

\* len(): how far write_idx is ahead of read_idx, round the ring.
Length == IF writeIdx >= readIdx THEN writeIdx - readIdx
                                 ELSE Capacity - readIdx + writeIdx

\* The values between the indices, oldest first.
Contents == [k \in 1 .. Length |-> buffer[(readIdx + k - 1) % Capacity]]

\* The ring implements the queue of its comments.
Promise == INSTANCE SampleQueue WITH
  items <- Contents,
  Values <- {Value(n) : n \in 1 .. MaxWrites},
  Usable <- Capacity - 1

ImplementsQueue == Promise!Spec

\* No slot is written while it is being read (lines 168-170: "The reader can
\* only read, and the writer can only write, preventing data races").
NoDataRace ==
  ~ /\ wpc \in {"half1", "half2"}
    /\ rpc \in {"half1", "half2"}
    /\ rIdx = writeIdx
=============================================================================
